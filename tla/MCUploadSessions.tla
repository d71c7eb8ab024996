-------------------------- MODULE MCUploadSessions --------------------------
(* Values for the constants of UploadSessions.  The next chunk of a content *)
(* starts with a byte of its own, so a lost, doubled or swapped one shows.  *)
EXTENDS UploadSessions, TLC

CONSTANTS up1, up2

TwoContents == up1 :> <<1, 2, 3, 4>> @@ up2 :> <<1>>
=============================================================================
