----------------------------- MODULE MCBuffers -----------------------------
(* Instances of BufferCache for TLC. *)
EXTENDS BufferCache

\* Two sectors of one device in the same bucket, one of them with the number
\* of a sector of another device, and two sectors in another bucket.
MCSectors == {<<0, 4>>, <<0, 5>>, <<0, 8>>, <<1, 4>>, <<1, 1>>}
MCSuper == <<0, 4>>

\* Any other thread is followed to its first hit, after which nothing is
\* claimed for it but types.
MCUntilHit == bkernel \/ ~bhits
=============================================================================
