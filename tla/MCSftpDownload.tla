---------------------------- MODULE MCSftpDownload ----------------------------
(* One download of one session; MaxConcurrent 1 leaves room for it.         *)
EXTENDS SftpDownload
=============================================================================
