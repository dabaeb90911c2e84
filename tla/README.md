# Formal models of webssh2

webssh2 is a Node.js server that gives a browser a terminal on an SSH (or
telnet) host, with file transfer next to it. These TLA+ modules model the parts
of `app/` in which events of several actors meet: browsers that come and go,
ssh2 clients that become ready, fail and close when they like, hosts that answer
late or not at all, overlapping HTTP requests, and timers that race with all of
them. TLC checks the modules on small instances; TLAPS proves the safety
properties of connections and sockets, handshakes and prompts, transfers and the
other file operations, the terminal and the login over HTTP for every instance.

Node runs one callback at a time, so a step of a model is what one callback does
between two turns of the event loop. Everything that an `await`, an event
listener or a timer separates is a step of its own, and the models let those
steps come in every order. What an `await` of a promise that is already settled
separates is not: its continuation runs before any other event.

## 1. The system

| component | state | operations | interacts with |
|---|---|---|---|
| SSH connection service (`services/ssh`) | pool of connections with an index by session; per call of `connect` a promise, a timer and a client | `connect`, `shell`, `exec`, `disconnect`, `disconnectSession`, `cleanup`; ready, error and close events | session store (dispatch), socket adapter, ssh2 |
| Session store (`state/`) | per session: auth, connection, terminal, metadata slices | `createSession`, `dispatch`, `removeSession` | all services |
| Authentication service | cache of sessions with their user and an expiry | `authenticate` | store, socket adapter |
| Terminal service | registry of terminals by session | `create`, `resize`, `destroy` | store, socket adapter |
| Socket adapter (`socket/adapters`) | per socket: connection id, session id, shell stream, pending credentials | AUTH, TERMINAL, RESIZE, DATA, EXEC, CONTROL, disconnect | all services |
| Terminal output flow | per shell: rate window, two pause flags, timers | data, drain, timers, close | ssh2 stream, WebSocket buffer |
| Command execution | per command: the text kept of each stream | output, exit, errors | SSH service, socket |
| Transfer manager (`services/sftp`) | table of transfers, their session, status and next chunk | start, activate, progress, complete, cancel | SFTP and shell file services |
| SFTP uploads, downloads, directory operations | open file handles; read loop with reordering buffer; calls of the server | start, chunk, cancel, list, stat, mkdir, delete, answers, timers | transfer manager, session manager, socket |
| SFTP session manager | SFTP channel per connection | open with a timer | SFTP service |
| Shell file backend | the same transfers over shell commands | as SFTP | transfer manager, exec |
| Prompts | tracked prompts by id and by socket, response handlers | send, answer, expire, disconnect | socket |
| Host key verification | key database; per handshake a timer and listeners | verify | ssh2, socket |
| Keyboard-interactive | per attempt: the open round | rounds, answers | SSH service, prompts |
| Telnet service | pool; authenticator with two timers; option negotiation | `connect`, `shell`, `resize`, data, `disconnect` | socket adapter |
| HTTP authentication, session, routes | HTTP session per browser; one copy per request and per socket | login, clear, reauthenticate, refresh | socket adapter (handshake) |
| Logging | token buckets, two queues, a connection and its timers | publish, drain, reconnect | all |
| Configuration, validation | read once, or none | defaults, file, environment, merge, schema; messages against their types | all |
| Theming, wiring, headers | none, or set once | | |

Hard behaviours, all listed with their lines under `hazards` in `PROJECT.json`:

* *timers racing with answers*: the connect timer, the upload timers, the open
  of an SFTP session, every call of the SFTP server, host keys, telnet login;
* *ids, copies and flags that are stale after an await*: the connection id stored
  after a disconnect, the cached session that another socket removed, the copy of
  an HTTP session that a request writes back, the size of a terminal that is
  being opened;
* *order of events and listeners*: error, close and ready of a client; a close of
  a log connection after its successor was made; the disconnect handlers;
  parallel reads that answer out of order;
* *shared mechanisms*: rate limit and backpressure pause the same stream;
  commands fill the same WebSocket; two logins of one user share a session; two
  verifications share a socket;
* *limits*: transfer slots, the WebSocket buffer, prompts, log queues, output of
  a command;
* *edges*: an empty file, a high water mark below 4, masks that end inside an
  octet, chunk limits, a packet that ends inside a telnet command.

What makes the components correct: a connection handed out is live and is ended
when its user goes; every call, request and round is answered once; store, pool
and sockets agree on who owns which connection; no login lands in somebody else's
session, and credentials that were removed stay removed; files, output and log
lines arrive whole and in order; handles, slots and buffers are released and
bounded; nothing that waits waits for ever; what the configuration says is what
the server does.

## 2. The modules

```
SessionReducers           the session state and its reducers
   SshService             connections: promise, timer, client events, pool, store
      SocketSession       sockets, authentication cache, terminals on top of it
ConnectionLease           abstract: what connect() promises its callers
Prompts                   prompts of one socket
   SshHandshake           host keys and keyboard-interactive rounds
TransferManager           the table of transfers
   SftpUpload             uploads
   SftpDownload           one download with its parallel reads
   ShellFiles             transfers over shell commands
FileRequests              what requests for files share: checks, answers, the connection
   SftpFiles              SFTP channels and directory operations
   ShellFiles
      FileService         one backend or the other
TerminalFlow              rate limit and backpressure of one shell
   TerminalRequests       terminal, window size, commands, control messages around it
TelnetNegotiation         the parser and the answers of option negotiation
   TelnetService          connection, login and shell over it
HttpSession               overlapping requests of one browser
   SocketAuth             the sockets its pages open
LogControls               sampling and rate limits
   StructuredLogger       logger over both transports
LogTransports             stdout and the collector
   StructuredLogger
ConfigSources             defaults, file and environment; merge; schema
   Configuration          the start of the server
Subnets, SftpMessages     matching of hosts; messages of file transfer
   ServerRequests         what the started server does with them
SocketProofs  HandshakeProofs  TransferProofs  FilesProofs  TerminalProofs
TelnetProofs  LoginProofs  LoggerProofs
MC*                       instances for TLC
```

Definitions keep the names of the code; `map` in `PROJECT.json` gives the lines
of each. A definition commented as a *seeded fault* is a variant with a plausible
bug; it is used by nothing but the mutation runs, which show that the property it
is paired with would notice.

### Connections and sockets

**SessionReducers** has the slices of a session that other components read
(authentication status and user, connection status and id, terminal) and one
operator per reducer. `dispatch` ignores a session that the store does not hold.

**SshService**. An element of `Conns` is one call of `connect`, its client and
its connection. `Connect` to `StartClient` and `ClientConnectThrows` are the call
itself; `ConnectTimeout` is the service's timer; `ClientReady`, `ClientError` and
`ClientClose` are the handlers of `connection-handlers.ts`; `Disconnect`,
`DisconnectSession` and `Cleanup` end clients, which close some time later. The
ssh2 client is external: it may be ready at most once, fail any number of times
and close once, in every order, also after `end()`. `OpenSession` and
`RemoveSession` stand for the store's other users. **ConnectionLease** is the
promise to the callers: one answer per call, lent only as that answer, never lent
again; `leaseOf` maps pool and promise to it.

**SocketSession** composes SshService with the adapters. `Auth` is the AUTH
handler up to the await of `connect` (a cached or a new session, `AuthUseCached`,
`AuthIssueNew`); `AuthFinish` is the rest. It runs in the microtasks of the event
that settled the promise, so no event of another actor comes between (`SshTurn`).
`stranded` is a history variable: the connections that `AuthFinish` leaves to
nobody (`strandedBy`), because it stores the id in a socket that has gone or over
the id of an earlier login.
`Terminal`, `ShellOpened`, `ShellFails`, `Resize`, `StreamClose` and
`SocketDisconnect` are the other handlers. Credentials are users: whether they
are right is decided by the ssh2 client, which may fail.

**Prompts** has the payloads, the tracker and the validator of prompts; a
response is what the checks look at: its id, action, keys and which of them are
filled. **SshHandshake** runs several handshakes on one socket, since a browser may
log in again while one is under way: the decision tree about the host key with its
timer and listeners, and the rounds of keyboard-interactive authentication,
answered with the stored password or by a prompt. ssh2 is external: it asks for
the key first, then for one round at a time, each with a number of prompts. The
history `announced` has those numbers, `finished` the calls of `finish()`: the
round that the called closure belongs to, the number of answers and who gave them.

### Terminal

**TerminalFlow** has the closure variables of `setupShellDataFlow`. Time is one
bit, `windowOver`; a rate-limit timer is due at the end of the window, or at once
when the window had already elapsed. `otherEmit` is whatever other handlers of the
socket emit (`others` counts it). External, and assumed: a paused stream delivers
no data; an emitted chunk counts in `bufferedAmount` at once; the transport only
changes from polling to WebSocket.

**TerminalRequests** adds what the browser asks of that terminal: the terminal
event, the two ways a shell opens or fails, resizes, commands with their output
limit and notice, credential replay and reauthentication, the loss of the
connection. A size is one value for rows and columns. `missed` records that the
browser told a size at a moment where the code keeps it nowhere: while the shell
is being opened, or with a shell that failed.

**TelnetNegotiation** parses bytes as `telnet-negotiation.ts` does, split anywhere
by TCP. **TelnetService** is one connection with its pool entry, the login that
waits for patterns in what the host writes, its two timers, the pauses of the
socket and the window size. A regular expression is a sequence of bytes that the
text must contain.

### Files

**TransferManager** is the table, with the calls that the application makes, in
any order (`ServiceSpec`). Nothing calls `failTransfer`, `pauseTransfer` or
`resumeTransfer`; they are left out.

**SftpUpload**. Per upload: where `startUpload` is, where the current chunk is,
the handle, the map `uploadHandles`, what the SFTP server has written. "late"
means that the timer fired and the server has yet to answer.

**SftpDownload**. `nextChunkToRead`, `chunkBuffer`, `nextChunkToEmit` and
`isEmitting` are the variables of `streamDownloadChunks`; `Drained` is the end of
`await onChunk` in the emitting loop. A read that gives fewer bytes than asked for
makes a chunk all the same (`sftp-service.ts:869`), so that chunks are counted and
not bytes. Two flags are kept apart: `cancelled` is the
one the loop reads, `downloadStreams` the entry that `cancelDownload` marks.

**FileRequests** has the order of the checks and the codes of the answers, and the
connection below. **SftpFiles** has requests that open a channel (or find one),
expand `~`, and make the calls of the operation; every call has a timer, a late
answer has no caller, but what the server did is done. All requests are about one
name, so that they meet. **ShellFiles** is the backend without SFTP: `ls` and
`echo` run with a timer, `cat` writes and reads a stream. Between the close of the
host's half of a connection and its end ("closing") the client is still looked up,
and `exec()` of ssh2 throws. Nothing in the shell backend catches that, so that the
job is "thrown", a rejection nobody handles, at which Node ends the process: no
step of any job follows. **FileService** is the
service that `createServices` makes: one of the two, for the life of the server.

### Login over HTTP

**HttpSession** has the session of one browser and the requests that overlap: each
works on the copy it loaded and writes that copy back at its end. A credential is
a password or a key, the host it is for, and the request that brought it.
**SocketAuth** adds the sockets: each copies the session when it connects, the
pipeline picks a provider, and the adapter connects by itself, asks, or refuses.

### Logging, configuration, messages

**LogControls** has sampling and the token buckets, **LogTransports** the stream
and the connection to the collector as records that their methods turn into one
another, **StructuredLogger** publishes to both. The stream and the connections
are external: a connection takes a line also when it answers false.

**ConfigSources** reads defaults, file and environment into documents and merges
and checks them, **Configuration** is the start of the process around it, with a
file that changes between the look and the read. **Subnets** and **SftpMessages**
are the functions the running server applies to hosts and messages;
**ServerRequests** puts one question to a started server. An address is the bits
of its word or of its segments, whose widths are constants, so that every address
can be tried; an entry of the list that spells no range stands for itself and lets
nobody in.

## 3. Runs

| run | instance | shows |
|---|---|---|
| `ssh_service` | 2 calls, 2 sessions | usable connections are live; refines ConnectionLease with its liveness; clients that left the pool close |
| `socket_session` | 2 sockets, 2 users, 2 logins, 2 sessions, symmetric | sockets hold only their own connections; pooled connections are known to an open socket or were stranded by `finalizeAuthentication`; one live session per user; a session stays with its user |
| `handshake` | 2 handshakes on one socket, 2 prompt ids, limit 1, 2 rounds, 5 configurations of host keys, 2 keys, 3 modes of authentication | a key is decided once and leaves no timer; a round is finished once, with as many answers as it has prompts or none, by the answer to its own prompt, and by the stored password only if it is the first; verifications end |
| `terminal_flow` | mark 4, 2 bytes per window, 5 bytes of shell output, a command with up to 4 bytes and a limit of 2, 2 sizes, 2 openings | bounded buffer, one owner per pause, the host knows the window, output whole or marked, the stream resumes |
| `telnet` | 4 writes of the host out of 5 kinds, split everywhere, buffer 3, 3 configurations, 2 sizes, 1 resize | no byte lost, doubled or reordered; nothing left of an ended shell; logins end |
| `upload` | 2 uploads, 2 sessions, limit 1, 2 chunks | handles tracked, complete means written; uploads under way keep the limit; every start and chunk answered |
| `download` | 5 chunks, 3 in parallel | chunks in order, every chunk sent before "complete", one answer, end |
| `files` | 2 requests or transfers on one name, a file of 3 units in chunks of 2, 3 chunk messages, either backend | answers tell the truth about the host; one channel unless opens overlap; a shell upload is whole; every request is answered, unless `exec` throws |
| `login` | 3 requests, 2 of them overlapping, 1 socket, 3 server configurations | removed credentials stay removed while requests that only read overlap; a page's socket connects to the host of its request while no other has written |
| `logging` | 4 entries, time to 4, a stream that is full twice and throws once, 3 connections of which one fails, queues of 1 and 2 | what was accepted is handed to a connection; order of stdout, a repeated line counted once; rates bounded; queues are flushed |
| `config` | 11 documents, one file place and its parent's, 4 bit words, 2 segments of 2 bits, every address and range | environment over file over default; ranges admit their members; accepted messages have the types the handlers rely on; chunks up to the default size are accepted, clearly larger ones refused though announced |

The bounds are the smallest in which the cases happen. Two calls of `connect`
make two connections of one session and a late event of one beside the use of
the other; two sockets are a pair that shares a cached session; limit 1 with two
uploads makes a refusal; five chunks with three in parallel give a gap, a
buffered run behind it and reads that start while a chunk is emitted; a prompt
limit of 1 with two handshakes makes one of their prompts refused; two openings
of a shell allow a failure and a second try, with a size told between them; four
writes fill a login through prompt, password and failure message, or overflow its
buffer of three, or split a command of three bytes; two requests suffice to
overlap, and a third follows what they left; four log entries overflow a queue of
one while the stream is full; two segments of two bits have a mask that ends in
the first, at the border, in the second and at the whole width. In `config` the
variables are set one group at a time: the groups are read independently of each
other. The proofs lift the bounds for the safety of connections and sockets,
handshakes, file operations, the terminal, telnet, the login over HTTP, the log
with its limits, and the ranges and messages of a started server.

Deadlock is checked where the system can always go on (`ssh_service`). It is off
elsewhere because an attempt, a socket, a transfer, a stream, a request or a
start has one life in a model, and a run may end with all of them over.

### Differences between the code and its documents

One run ends in a violation: `explicit_flag` states what
`DOCS/configuration/CONFIG-JSON.md:736` says, that explicit flags take precedence
over the mode of host key verification. `createServices` calls
`resolveHostKeyMode` without the options (`factory.ts:100`), so that they are
never explicit.

The models contain further differences, which have no run of their own:

Connections and sessions
* a browser that leaves while `connect` is pending, or logs in twice, leaves an
  SSH connection that nobody ends (`service-socket-authentication.ts:501`;
  `DOCS/reference/CHANGELOG.md:338`);
* the error of a timed-out attempt marks a session in use as failed and
  unauthenticated (`connection-handlers.ts:109`, called harmless in `:94-99`);
* `findCachedSession` (`auth-service.ts:119`) gives a login a session id that a
  disconnect of another socket has removed from the store, so that dispatches for
  it are dropped;
* a socket that opened its shell twice, or logged in again, keeps a shell whose
  end does not end the socket.

Handshakes and prompts
* a response about a host key names no question, so that one answer decides all
  verifications that wait on the socket (`host-key-verifier.ts:261`);
* the timer of a verification (30 s) is longer than that of `connect`;
* an expired prompt that nobody answers counts towards the limit until the socket
  ends, and its handler stays (`prompt-tracker.ts:98`, against the comment at `:84`);
* a prompt that is refused leaves its round open until the connect timer;
* a response `cancel` without inputs is refused for missing inputs
  (`prompt-validator.ts:211`), although the handler is written for it
  (`service-socket-authentication.ts:162`).

Terminal
* the chunk that reaches the rate limit is never sent
  (`service-socket-terminal.ts:325`; `ENVIRONMENT-VARIABLES.md:453`);
* with `socketHighWaterMark` below 4, which the schema accepts, the low water mark
  is 0 and a paused stream never resumes;
* a size told while the shell is being opened, or with a shell that failed, is
  kept by nothing; a size that TerminalService refuses still reaches `setWindow`;
* the limit of a command's output is per stream, and after the notice a later
  chunk that fits is appended behind it (`exec-command.ts:155`); commands have no
  timer and go past the backpressure of the shell;
* telnet: of a failed login only the packet with the message is forwarded
  (`telnet-auth.ts:195`); the pool entry stays after the host has closed, and a
  shell opened on it never ends (`telnet-service.ts:238`); a `DONT` does not reset
  the option, so that a later `DO` is not answered; a browser that leaves while
  `connect` is pending leaves a pooled connection.

Files
* the disconnect listener clears the ids before the SFTP handler runs
  (`service-socket-adapter.ts:152`), so that no channel is closed and no transfer
  cancelled, whose slots stay taken for the next login of that session;
* the read loop of a cancelled download goes on (`sftp-service.ts:932`; comment at
  `:924`); the download of an empty file never ends (`:911`); a read that gives
  fewer bytes than asked for is sent as it is and the rest is never read (`:869`),
  so that "complete" does not say that all bytes came;
* an `sftp.open` that answers after the timer of `startUpload` stores its handle
  (`:506`) for a transfer that is gone; two opens of a channel that overlap leave
  one of them out of the map (`:262`), one that answers late is stored all the same
  (`sftp-session.ts:148`); a channel that died with its connection is used as if
  it were alive;
* shell backend: an `exec` that answers after its timer stores a stream that nobody
  cleans (`shell-file-service.ts:252`); a failed write leaves its transfer in the
  table; a download has no timer, quotes an unresolved `~` and ignores the exit
  code, so that a file that is not there is an empty one; any error of `ls` counts
  as "not there"; an upload is complete when its bytes are handed to the channel;
* shell backend: `client.exec` is called without a `try` (`shell-file-service.ts:252`,
  `:460`, `:713`; `sftp-session.ts:183` and `exec-command.ts:86` have one). On a
  connection that is closing it throws, also when it went during the `ls` before:
  the request is not answered, and Node ends the process, because the handlers are
  called with `void` (`service-socket-adapter.ts:167`) and nothing listens to
  unhandled rejections. Where Node is told to go on, the timer of an upload later
  drops its transfer, but a download keeps its slot;
* `chunkSize` may be up to 1 MB (`CONFIG-JSON.md:502`, with 65536 as the example at
  `:575`) and `upload-ready` announces it, but the limit of a chunk's length is
  computed for the default size (`sftp.ts:493`): a chunk of the announced size is
  refused;
* `resumeTransfer`, should anything call it, does not look at the limit.

Login over HTTP
* credentials that failed are tried again by the next socket: the copy of a socket
  is never written back (`io.ts:25`), so that the branch for failed ones
  (`auth.middleware.ts:50`, `service-socket-authentication.ts:592-598`) is not
  reached;
* two tabs share one session, so that the later login is the one both connect with
  (`routes-v2.ts:152`); a request that changes the session and overlaps a removal
  writes back the credentials it had read (`:366`; `RemovedStaysRemoved` is about
  requests that only read); `/clear-credentials` changes nothing (`:336`;
  `ROUTES.md:147`);
* basic authentication with an empty password leaves credentials no socket can use,
  and the socket then neither asks nor fails (`service-socket-authentication.ts:38`);
* no route sets `csrfToken` (`csrf.middleware.ts:84`).

Logging and configuration
* a line answered with false stays in the queue and is written again, to the
  collector (`syslog-transport.ts:342`) and to stdout (`stdout-transport.ts:70-78`);
  with a collector that stays slow the buffer grows
  (`DOCS/logging.md:215`); the flush timer reconnects at once, past the backoff; a
  stale close lets go of the successor (`:293`); after a write that throws during a
  drain later lines overtake; tokens are spent on entries a transport refuses;
  every socket makes a logger and a connection that nobody closes
  (`service-socket-adapter.ts:79`);
* an empty variable for a required number or flag stops the start
  (`ENVIRONMENT-VARIABLES.md:784`), as does a collector's host without its `ENABLED`
  flag (`:532`, `:537`); additional themes of the file are only checked against the
  schema; an IPv4 range `/0` admits one address.

### Fairness

Only steps that the event loop or a timer guarantees are fair, never the remote
side, except as stated.

* `ssh_service`: the validation step of `connect`, its timer, the close of a client
  that is ending (ssh2 destroys the TCP socket). `ready` is not fair: a host may
  never answer. `socket_session` and `login` check safety only; `config` has
  nothing to wait for.
* `handshake`: the timers of the verifications. The browser is not fair.
* `terminal_flow`: timers, the passing of time, and a browser that keeps reading
  (one that stops is disconnected by the ping timeout of engine.io, which ends the
  stream).
* `telnet`: the two timers of the login and the outcome of a TCP connect, which the
  timer of `connect` or the socket brings about.
* `upload`: the setup and the two timers. The SFTP server is not fair, so that
  `UploadAnswered` holds with a server that never answers.
* `download`: the answers of the SFTP server and the drain. The read loop has no
  timer of its own, so a server that stops answering does stop the download; the
  property is about the loop and not about the server.
* `files`: the timers of the open, of the calls, of commands and of the start of an
  upload, as long as the process runs; the host is not fair.
* `logging`: the drain of the stream, the flush and reconnect timers, and that Node
  reports the outcome of a connection; the number of failing connections is
  bounded, so that `LogsFlushed` is about a collector that comes back.

## 4. Proofs

TLAPS proves the following for every value of the constants, from the named
assumptions about them: `NoneAssumption` (no connection, session or user is the
absent one), `PromptAssumption` and `HandshakeAssumption` (nor is a prompt's
id, payload or handler; the limits of prompts and rounds are numbers),
`TransferAssumption`, `DownloadAssumption`, `SftpFilesAssumption`,
`ShellAssumption`, `FlowAssumption`, `RequestsAssumption`, `HttpAssumption`,
`FormsAssumption` and `TransportsAssumption` (types and positivity of the constants,
finitely many requests), `HostAssumption` (a telnet host writes data, escaped bytes
255, commands, options and subnegotiations, as RFC 854 and 855 have them: of a host
that does not, nobody can say which bytes are data), `RulesAssumption` (rate limits
are what `config-schema.ts:308` admits) and `ControlsAssumption` (no bucket is the
absent one), `WidthAssumption` and `ChunkSizeAssumption` (widths and the default
chunk size are numbers) and `QuestionsAssumption` (what the entries of the list
spell are ranges, what a lookup gives are addresses, the messages belong to the
events of file transfer).
`StreamResumes` needs a mark of at least 4 and is checked with 4; the theorems
about the flow hold for every mark. Each theorem about a property has the form
`Init => Inv`, `Inv /\ [Next]_vars => Inv'`, with one step per action, where `Inv`
is the inductive invariant of its module; TLC checked each such invariant on the
instance of its run before it was proved.

* **SocketProofs**, the service: `SshInv` = the types, four safety properties (a pooled
  connection was established, index and pool agree, the store names real
  connections, usable connections are live) and `AttemptProgress`, which says how
  far one attempt is: its session is known from the call on, there is no client
  before the validation has passed, no client is going down while the promise is
  open, and a promise answered with ok has a client that was ready. The properties
  are not inductive without it: that a connection enters the pool live needs that
  the client of an open promise is not ending, and that the index files it under
  its session needs the owner. From the same invariant `SshImplementsLease` shows
  that every step is a step or a stutter of ConnectionLease.
* **SocketProofs**, what is on top of it: the sockets take steps of SshService, and two that are more
  than one: a login into a fresh session (issue, then `connect`), and the end of a
  socket (the end of its connection and the removal of its session). `SocketInv` is `SshInv`
  with the four properties of the run, `HandlerProgress` (the handler of an attempt
  is over only when its promise has settled), `HeldIsFinished` (what a socket holds
  came out of such a login) and `SessionsIssued` (the store holds issued sessions
  only, each naming the user of the cache). `SessionKeepsItsUser` is not inductive
  without the last: that no reducer of a connection or a terminal touches the name
  is a lemma about every action, but the session of a *new* attempt has the right
  name only because the cache and the store agree on all sessions. For
  `PooledIsKnown` the steps that matter are the two that replace what a socket holds:
  its end, which must have taken the connection out of the pool, and the end of a
  login, whose exact loss `strandedBy` names: its own connection when the socket has
  gone, the earlier one when the socket held one. That no other step loses one, a
  disconnect of another socket with the same session included, is what is proved.
  `SocketsImplementLease` carries the refinement of ConnectionLease over to the
  composed system.
* **HandshakeProofs**: `VerifiedOnce` is inductive by itself. About rounds,
  `OnePromptPerHandshake` says that no two prompts that can be answered are about
  one handshake: without it the answer to one would finish the round of the other.
  `RoundProgress` (a first round is still to come only before any was announced, and
  the round that waits is the last announced) places the automatic answer, and
  `PromptsRemember` (the handler of a prompt has the number its host asked for) gives
  the number of answers that the browser's response becomes. `AnsweredSoFar` carries
  the history over the announcement of the next round. The tracker is
  treated once, in lemmas about `sendPrompt` and `remove` that give the two indices
  in step, the limit, and the handlers of the prompts that stay.
* **FilesProofs**: for SFTP, `RequestProgress` says for each stage of a request
  which call is under way, what the server has replied and whether it has done the
  operation. That is what an answer must agree with, and a late answer changes
  neither, since its call has no request any more. `OneOpening` (without an overlap
  at most one open, of a request that waits for it, and only while the map is
  empty) makes `OneChannelUnlessOverlap` inductive: a late open is the one that
  could bring a second channel. For the shell backend, `ChunksFollow` says that the
  chunks written are 0, 1, ..., that those whose write is pending follow them as
  long as the stream was not destroyed, and that the next index of the table comes
  after both; `CompleteOnce` that a completed transfer is out of the table, which
  is why no second callback can complete it. `JobProgress` says that an upload
  that takes chunks has had its stream, and that a `cat` that answers late finds
  its transfer gone.
* **FilesProofs**, what the started server lets in: `AnswersHold` is the invariant.
  The answer to a question is what the checks give under the configuration in
  force, which is possible because a server that listens no longer changes its
  configuration. `HostsOfRanges` then rests on the masks: a shifted word of ones
  leaves exactly the leading bits of an IPv4 address (`Ipv4Range`, where the
  remainder of the shift excludes the mask 0), and the masks of the segments
  together leave those of an IPv6 address, whichever segment the mask ends in
  (`Ipv6Range`). `ChecksAgree` rests on `AcceptedMeets` (what the checks let through
  of any message meets the contract, field by field) and on `ChunkPasses`: the
  factor of 1.34 and the margin leave room for base64 at every default chunk size.
* **TransferProofs**, uploads: `LimitHolds`, by cardinality of the counted transfers (starting
  is the only call of the table that adds one, and it looks first), and
  `UploadProgress`, which relates the promise, the chunk, the transfer and the
  handle of one upload. A lemma, `UploadUsesManager`, says that the uploads call the
  table as `ServiceSpec` has it, so that `LimitHolds` carries over; `UploadsBounded`
  then counts what runs instead of what the table says: an upload that waits for its
  open or has a file open has an entry that counts, by `UploadProgress`.
* **TransferProofs**, one download: `EmittedOK` ties what was sent to `nextChunkToEmit` and
  `isEmitting`; `GapAfterError` says that a failed read leaves a gap that the
  emitting loop never passes, which is why nothing can complete a download that has
  failed, although the loop goes on emitting.
* **TerminalProofs**, the flow: `BelowMark` (what the shell put into a WebSocket that
  backpressure does not hold is below the mark), `EmptyWindow` (a timer that is due
  at once was set in an empty window) and `BytesConserved`. `FlowWindow` is an
  action property.
* **TerminalProofs**, what surrounds it: every step of `TerminalNext` is a step of the flow or leaves
  its variables alone (`TerminalImplementsFlow`), so that `TerminalBounded` and
  `TerminalOneOwner` follow from the theorems about the flow. `TerminalKnowsWindow` needs `WindowInv`:
  the size handed to a shell that is opening, the stored one and the host's agree
  with what the browser told, or `missed` is set. `TerminalOutputMarked` needs
  `OutputInv` about a command that is over.
* **TelnetProofs**: `OnlyOpenIsBusy`, that nothing but an open shell listens or has a
  timer of the login running, is inductive with the form of the authenticator's
  record: data and timers come only to an open shell, and every way a shell ends
  runs `cleanup`.
* **TelnetProofs**, the output: for `OutputReachesBrowser`, `Accounted` says that
  what the host wrote is what the login took, then what the browser was shown, then
  what the login holds back, then the data in what TCP has not delivered, where the
  last is what the parser would make of it from the state it is in. It needs that
  a login that waits has shown nothing and one that does not holds nothing back
  (`Withheld`), and that a socket before its shell is paused with all bytes in it
  (`BeforeShell`). That a packet may end anywhere rests on the parser: its recursion
  over a packet has its defining equation (`InboundEquation`), the data of two
  parts are those of the whole (`DecodedConcat`, `InboundSplit`), and what a host writes at once
  is parsed from "Data" back to "Data" (`HostDecoded`). The inductions are over
  sets of naturals (`SetInduction`, from the pigeonhole principle for finite sets),
  because the library's are stated for predicates.
* **LoginProofs**: requests overlap, and each writes the copy it read. `HttpInv`
  follows the request that wrote last: it finds in the store what it saved
  (`RequestProgress`), and the page it served is locked to the host of the stored
  credentials (`PageAgrees`). Both properties rest on it. A request that only reads
  finds its copy unchanged and only touches the store, so that it cannot bring back
  what was removed; and a socket whose page's request is still the last writer
  copies credentials for the host of that page. Each function of the middleware and
  the routes has a lemma that says which fields of the session it changes.
* **LoggerProofs**: the fact about both transports is `Split`: the lines out are the
  first of those taken and the queue is the rest, but for at most one line that is
  in both, because it was answered with false and stays. Lemmas show that taking a
  line, writing some of the queue and leaving one of them in it keep the split
  (`SplitAppend`, `SplitTake`), the second only because lines are taken in ascending
  order: that is how `Joined` tells the line written twice from two lines. For the
  stream `StdoutKeeps` adds that nothing is queued unless a drain is awaited, without
  which a line could pass the queue. For the collector `ConnectionsLeft` counts: a
  connection is made only when none is held, and the one before is let go of at most
  twice, by its error and by its close, so that with every bound on failures there is
  one more to make.
* **LoggerProofs**, the limits: `RateBounded` speaks of every window, and is not
  inductive, because it says nothing of the tokens left. `BucketBound` does: if the
  last refill lies at most `c` intervals past a moment, then the lines that passed
  since that moment and the tokens left are together at most the capacity and `c`
  limits, for every moment and every `c`. A refill moves on by whole intervals and
  adds at most a limit for each (`RefillAdds`). The sum stands that when a line
  passed since the moment, because no line is an interval younger than the refill
  before it (the other half of `BucketBound`), so that the moment is covered by the
  intervals; when none passed, because the bucket is capped at the capacity.
  `WindowBound` keeps the bound of windows that are closed. Several rules may name
  one target, and events without a rule of their own share the wildcard's bucket:
  `RuleSelected` and `FirstRuleFound` say that a bucket has one rule all the same,
  the first.

The theorems about types (`SshTypeOK`, `UploadTypeOK`, `DownloadTypeOK`,
`FlowTypeOK`), those about the inductive invariants of sockets, handshakes, files,
telnet, login and logger and about the answers of the server, and those about `PooledIsEstablished`, `IndexMatchesPool`,
`StoreNamesRealConnection`, `LimitRespected`, `OffsetFollowsWritten`,
`NoChunkStranded`, `EndReleases`, `ReadsBounded` and `WindowNotCutShort` need no
run beside them.

Only model-checked, because they are out of the prover's reach: liveness
(`ImplementsLease` as far as every call is answered, `UnpooledClientCloses`,
`VerificationEnds`, `StreamResumes`, `LoginEnds`, `UploadAnswered`, `DownloadEnds`,
`RequestsAnswered`, `LogsFlushed`), and `SourcesRanked`: what a fold over the
variables and a merge along paths make of documents of any depth is an induction
over data. All other invariants and action properties of the runs are proved.

## 5. Not modelled, and what could follow

* **Left out of the modelled parts.** Several terminal events of one socket with a
  shell open; a second `shell()` on a telnet connection, which would listen twice;
  commands with a pty; the capture of algorithms for the error page; the parameters
  of a login other than host and credentials (terminal, environment, recording);
  listing and directory operations of the shell backend, which are one command
  each; the normalisation of a path by characters; the pruning of old HTTP
  sessions; the text of log entries.
* **Code that nothing calls.** `failTransfer`, `pauseTransfer`, `resumeTransfer`,
  `closeSession` and `cleanup` of the file services (reached by nothing at run
  time), the history and the listeners of the store, most of SessionService,
  `write`, `updateEnvironment` and `cleanup` of TerminalService, `flush` and
  `updateControls` of the loggers, and the files of the component "Code without a
  caller". The SFTP rate limiter is called and its answer ignored.
* **No behaviour over time.** Theming, headers, static pages, wiring and wording;
  the counter of policy reports; the command line tool for the host key database.
* **Proofs to add.** `SourcesRanked`, by induction over the variables of the
  environment and over the paths of the merge, as the telnet parser was treated.
