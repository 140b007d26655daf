--------------------------- MODULE MCUrlProtocols ---------------------------
(* Small instances of UrlProtocols for TLC. *)
EXTENDS UrlProtocols

AsyncUrl == [prot |-> "async", nonblock |-> FALSE, rw_timeout |-> FALSE, fifo |-> FALSE,
          overrun_nonfatal |-> FALSE, timeout |-> FALSE]
UdpUrl == [AsyncUrl EXCEPT !.prot = "udp"]
SmbUrl == [AsyncUrl EXCEPT !.prot = "smb"]

(* udp with and without its buffer, blocking and not, surviving overruns   *)
(* or not, with and without rw_timeout; smb with and without timeout.      *)
MCOptions ==
  {AsyncUrl, SmbUrl, [SmbUrl EXCEPT !.timeout = TRUE],
   [UdpUrl EXCEPT !.fifo = TRUE],
   [UdpUrl EXCEPT !.fifo = TRUE, !.nonblock = TRUE, !.overrun_nonfatal = TRUE],
   [UdpUrl EXCEPT !.rw_timeout = TRUE],
   [UdpUrl EXCEPT !.nonblock = TRUE]}
=============================================================================
