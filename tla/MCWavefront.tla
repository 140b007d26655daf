---------------------------- MODULE MCWavefront ----------------------------
(* Small instances of Wavefront for TLC.  Pools of filters and of codecs   *)
(* other than HEVC: three threads without main_func, and two workers with  *)
(* it.  Wavefront pools: one slice with more rows than threads, and two    *)
(* slices one after the other.                                             *)
EXTENDS Wavefront

OtherPools == {[nb_threads |-> 3, main_func |-> FALSE, calls |-> 2],
               [nb_threads |-> 2, main_func |-> TRUE, calls |-> 2]}
MCWavePools == {[nb_threads |-> 3, main_func |-> FALSE, calls |-> 1],
                [nb_threads |-> 2, main_func |-> FALSE, calls |-> 2]}
MCPools == OtherPools \cup MCWavePools
=============================================================================
