--------------------------- MODULE MCTransferEngine ---------------------------
(* The instance of TransferEngine that the run checks. *)
EXTENDS TransferEngine

\* A download, an upload, and one of each kind of route without a direction.
OneOfEach == {<< "ftp", "local" >>, << "local", "ftp" >>, << "ftp", "ftp" >>,
              << "ftp", "unknown" >>}
=============================================================================
