--------------------------- MODULE MCJitterBuffer ---------------------------
(* The jitter buffer under arbitrary arrivals, on a ring of eight sequence  *)
(* numbers, with PCM frames of two durations, empty PCM payloads and Opus.  *)
EXTENDS JitterBuffer

MCPackets ==
  {[seq |-> s, codec |-> k[1], ms |-> k[2], payload |-> "audio"] :
      s \in Seqs, k \in {<<"Pcm", 5>>, <<"Pcm", 10>>, <<"Pcm", 0>>, <<"Opus", 5>>}}

=============================================================================
