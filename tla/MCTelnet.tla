------------------------------ MODULE MCTelnet ------------------------------
(* Patterns of one or two bytes, a buffer of four, and a host that mixes     *)
(* data (255 is the byte to escape) with DO NAWS.                            *)
EXTENDS TelnetService
MCLogin == <<76>>
MCPassword == <<80>>
MCFailure == <<70, 70>>
MCSetting(l, p, q, f) ==
    [loginPrompt |-> l, password |-> p, passwordPrompt |-> q, failurePattern |-> f]
MCSettings == {MCSetting("absent", "", "", "invalid"),
               MCSetting("pattern", "absent", "pattern", "pattern"),
               MCSetting("pattern", "typed", "pattern", "pattern")}
MCData(b) == [data |-> <<b>>, wire |-> <<b>>]
MCOutput == {MCData(76), MCData(80), MCData(70),
             [data |-> <<255>>, wire |-> <<255, 255>>],
             [data |-> << >>, wire |-> <<255, 253, 31>>]}
MCWindows == {<<80, 255>>, <<511, 24>>}
=============================================================================
