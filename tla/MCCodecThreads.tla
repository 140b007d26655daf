--------------------------- MODULE MCCodecThreads ---------------------------
(* A small instance of CodecThreads for TLC, with the pools of             *)
(* MCWavefront and an encoder with two threads.                            *)
EXTENDS CodecThreads, MCWavefront
=============================================================================
