----------------------------- MODULE MCSftpUpload -----------------------------
(* Two uploads, so that one can find the slots of its session taken.        *)
EXTENDS SftpUpload
=============================================================================
