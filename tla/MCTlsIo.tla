-------------------------------- MODULE MCTlsIo --------------------------------
(* A packet that fits into the buffer, and one that is dropped in two pieces. *)
EXTENDS TlsIo
MCFirst == <<1, 4, 10>>
=============================================================================
