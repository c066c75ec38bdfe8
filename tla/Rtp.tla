-------------------------------- MODULE Rtp ---------------------------------
(***************************************************************************)
(* RTP L24 packets (src/src/rtp_l24.c): the sequence numbers that senders  *)
(* count modulo 2^16 and the payload, which turns planar samples (channel  *)
(* by channel) into interleaved ones (one sample of every channel after    *)
(* the other).  The order of the bytes in a sample is left out.            *)
(***************************************************************************)
EXTENDS Integers

CONSTANT SeqMod   \* values of an RTP sequence number (2^16 in the code)

ASSUME RtpAssumption == SeqMod \in Nat \ {0}

(* Fault: the stride is that of the flow and not of the planar block.      *)
BuildFlowByFlowStride(planar, ch_start, flow_nch, n_samples) ==
  [p \in 0 .. flow_nch * n_samples - 1 |->
     planar[(ch_start + p \div n_samples) * n_samples + (p % n_samples)]]

(* The payload rtp_l24_build_flow makes of the channels ch_start and up of *)
(* a planar block with n_samples samples per channel.                      *)
rtp_l24_build_flow(planar, ch_start, flow_nch, n_samples) ==
  [p \in 0 .. flow_nch * n_samples - 1 |->
     planar[(ch_start + (p % flow_nch)) * n_samples + p \div flow_nch]]
=============================================================================
