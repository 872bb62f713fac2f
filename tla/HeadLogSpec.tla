---------------------------- MODULE HeadLogSpec ----------------------------
(***************************************************************************)
(* What `trait HeadLog` (safehub-storage/src/traits.rs) promises to the    *)
(* rest of the system, with no file, lock or process in sight: one ordered *)
(* log per repository that grows by one head at a time, each head naming   *)
(* the hash of the one before it, and whose acknowledgements are never     *)
(* taken back.                                                             *)
(*                                                                         *)
(* A head is reduced to its identity (the hash of its canonical bytes; two *)
(* different heads never share it), its sequence number and the hash it    *)
(* names as predecessor.                                                   *)
(***************************************************************************)
EXTENDS Naturals, Sequences

CONSTANTS HeadId,   \* the identities (hashes) heads can have
          ZeroHash, \* HeadHash::zero(), the predecessor of the first head
          MaxSeq    \* bound: heads are numbered up to MaxSeq

RefHead == [id : HeadId, seq : 0..MaxSeq, prev : HeadId \cup {ZeroHash}]

\* RefHead::hash, collision free.
Hash(h) == h.id

VARIABLES chain,  \* the heads appended so far, oldest first
          acked   \* the heads some caller was told were appended

specVars == <<chain, acked>>

\* A new repository, or one that an older version of the server left behind.
SpecInit ==
    /\ Len(chain) <= 1
    /\ Len(chain) = 1 => chain[1].seq = 1 /\ chain[1].prev = ZeroHash
    /\ acked = {}

TailHash == IF Len(chain) = 0 THEN ZeroHash ELSE Hash(chain[Len(chain)])

\* cas_append taking effect: only on the current tip, only with the next number.
AppendHead(h) ==
    /\ h.prev = TailHash
    /\ h.seq = Len(chain) + 1
    /\ chain' = Append(chain, h)
    /\ UNCHANGED acked

\* cas_append answering Ok.
Acknowledge(h) ==
    /\ \E s \in 1..Len(chain) : chain[s] = h
    /\ acked' = acked \cup {h}
    /\ UNCHANGED chain

SpecNext == \E h \in RefHead : AppendHead(h) \/ Acknowledge(h)

LogSpec == SpecInit /\ [][SpecNext]_specVars
=============================================================================
