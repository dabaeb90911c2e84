----------------------------- MODULE SftpMessages -----------------------------
(* The checks a file message of the browser passes before anything is done   *)
(* with it.  A message is a function from the fields it has to JSON values;  *)
(* of a string only its length is kept.                                      *)
EXTENDS Integers, Sequences

CONSTANTS
    MAX_PATH_LENGTH,
    DEFAULT_CHUNK_SIZE     \* SFTP_DEFAULTS.CHUNK_SIZE

ASSUME ChunkSizeAssumption == DEFAULT_CHUNK_SIZE \in Nat

Absentee == <<"undefined">>

Refused == <<"refused">>

Text(length) == <<"string", length>>

Whole(n) == <<"int", n>>

Flag(b) == <<"boolean", b>>

IsText(v, min, max) == v[1] = "string" /\ v[2] \in min..max

IsInt(v, min, max) == v[1] = "int" /\ v[2] >= min /\ v[2] <= max

Field(m, key) ==
    IF key \notin DOMAIN m \/ m[key] = <<"null">> THEN Absentee ELSE m[key]

-----------------------------------------------------------------------------
(* Each check gives the value it lets through, or Refused. *)

validateRequiredString(m, key, min, max) ==
    IF IsText(Field(m, key), min, max) THEN Field(m, key) ELSE Refused

validateOptionalString(m, key, max) ==
    IF Field(m, key) = Absentee \/ IsText(Field(m, key), 0, max) THEN Field(m, key) ELSE Refused

validateRequiredInt(m, key, min, max) ==
    IF IsInt(Field(m, key), min, max) THEN Field(m, key) ELSE Refused

validateOptionalInt(m, key, min, max) ==
    IF Field(m, key) = Absentee \/ IsInt(Field(m, key), min, max) THEN Field(m, key) ELSE Refused

\* Seeded fault: the value goes through as it is.
validateOptionalBooleanRaw(m, key) == Field(m, key)

(* Anything else than a Boolean is as good as absent. *)
validateOptionalBoolean(m, key) ==
    IF Field(m, key)[1] = "boolean" THEN Field(m, key) ELSE Absentee

validateRequiredBoolean(m, key) ==
    IF Field(m, key)[1] = "boolean" THEN Field(m, key) ELSE Refused

validateTransferId(m) == validateRequiredString(m, "transferId", 1, 128)

(* A request is refused with its first field that is; else it holds the      *)
(* fields that have a value.                                                 *)
Request(checked) ==
    IF \E key \in DOMAIN checked: checked[key] = Refused THEN Refused
    ELSE <<"request", [key \in {k \in DOMAIN checked: checked[k] # Absentee} |-> checked[key]]>>

ensureRecord(message, checked) ==
    IF message[1] = "object" THEN Request(checked) ELSE Refused

Path(m) == validateRequiredString(m, "path", 1, MAX_PATH_LENGTH)

RemotePath(m) == validateRequiredString(m, "remotePath", 1, MAX_PATH_LENGTH)

validateSftpListRequest(message) ==
    LET m == message[2] IN ensureRecord(message,
        [path |-> Path(m), showHidden |-> validateOptionalBoolean(m, "showHidden")])

validateSftpStatRequest(message) ==
    LET m == message[2] IN ensureRecord(message, [path |-> Path(m)])

validateSftpMkdirRequest(message) ==
    LET m == message[2] IN ensureRecord(message,
        [path |-> Path(m), mode |-> validateOptionalInt(m, "mode", 0, 511)])

validateSftpDeleteRequest(message) ==
    LET m == message[2] IN ensureRecord(message,
        [path |-> Path(m), recursive |-> validateOptionalBoolean(m, "recursive")])

validateSftpUploadStartRequest(message, maxFileSize) ==
    LET m == message[2] IN ensureRecord(message,
        [remotePath |-> RemotePath(m),
         fileName |-> validateRequiredString(m, "fileName", 1, 255),
         fileSize |-> validateRequiredInt(m, "fileSize", 0, maxFileSize),
         mimeType |-> validateOptionalString(m, "mimeType", 128),
         overwrite |-> validateOptionalBoolean(m, "overwrite")])

(* ceil(CHUNK_SIZE * 1.34) + 100 *)
maxDataLength == (DEFAULT_CHUNK_SIZE * 134 + 99) \div 100 + 100

validateSftpUploadChunkRequest(message) ==
    LET m == message[2] IN ensureRecord(message,
        [transferId |-> validateTransferId(m),
         chunkIndex |-> validateRequiredInt(m, "chunkIndex", 0, 1000000),
         data |-> validateRequiredString(m, "data", 0, maxDataLength),
         isLast |-> validateRequiredBoolean(m, "isLast")])

validateSftpDownloadStartRequest(message) ==
    LET m == message[2] IN ensureRecord(message, [remotePath |-> RemotePath(m)])

(* Upload and download cancel. *)
validateCancelRequest(message) ==
    LET m == message[2] IN ensureRecord(message, [transferId |-> validateTransferId(m)])

FileRequestNames ==
    {"list", "stat", "mkdir", "delete", "upload-start", "upload-chunk", "download-start",
     "upload-cancel", "download-cancel"}

validate(request, message, maxFileSize) ==
    CASE request = "list" -> validateSftpListRequest(message)
      [] request = "stat" -> validateSftpStatRequest(message)
      [] request = "mkdir" -> validateSftpMkdirRequest(message)
      [] request = "delete" -> validateSftpDeleteRequest(message)
      [] request = "upload-start" -> validateSftpUploadStartRequest(message, maxFileSize)
      [] request = "upload-chunk" -> validateSftpUploadChunkRequest(message)
      [] request = "download-start" -> validateSftpDownloadStartRequest(message)
      [] request \in {"upload-cancel", "download-cancel"} -> validateCancelRequest(message)

-----------------------------------------------------------------------------
(* What the contract (types/contracts/v1/sftp.ts) says of each request: the  *)
(* fields it must have and the ones it may have, with their types.           *)
Must(type) == <<type, "must">>

May(type) == <<type, "may">>

Contract(request) ==
    CASE request = "list" -> [path |-> Must("string"), showHidden |-> May("boolean")]
      [] request = "stat" -> [path |-> Must("string")]
      [] request = "mkdir" -> [path |-> Must("string"), mode |-> May("int")]
      [] request = "delete" -> [path |-> Must("string"), recursive |-> May("boolean")]
      [] request = "upload-start" ->
           [remotePath |-> Must("string"), fileName |-> Must("string"),
            fileSize |-> Must("int"), mimeType |-> May("string"),
            overwrite |-> May("boolean")]
      [] request = "upload-chunk" ->
           [transferId |-> Must("string"), chunkIndex |-> Must("int"),
            data |-> Must("string"), isLast |-> Must("boolean")]
      [] request = "download-start" -> [remotePath |-> Must("string")]
      [] request \in {"upload-cancel", "download-cancel"} -> [transferId |-> Must("string")]

MeetsContract(request, fields) ==
    /\ DOMAIN fields \subseteq DOMAIN Contract(request)
    /\ \A key \in DOMAIN Contract(request):
          LET rule == Contract(request)[key]
          IN IF key \in DOMAIN fields THEN fields[key][1] = rule[1] ELSE rule[2] = "may"

(* Length of the base64 text of n bytes. *)
EncodedLength(n) == 4 * ((n + 2) \div 3)
=============================================================================
