----------------------------- MODULE TcpTxBuffer -----------------------------
(***************************************************************************)
(* TcpTxBuffer as a data structure: the items in flight with the flags of  *)
(* the SACK scoreboard, the counters kept beside them, and the operations  *)
(* of the socket.  A packet is the range of bytes it holds.  What is not   *)
(* yet sent has no flags, so of that list only the size counts.            *)
(*                                                                         *)
(* An operation never stops: an assertion of the code that fails is added  *)
(* to failed, and the counters go on as in a build without assertions.     *)
(***************************************************************************)
EXTENDS Integers, SequencesExt

NoSeq == 0   \* no byte of a flow: the first is 1

\* F(x) with x evaluated once.
Then(x, F(_)) == CHOOSE r \in {F(y) : y \in {x}} : TRUE

Item == [start : Nat, len : Nat \ {0}, lost : BOOLEAN, retrans : BOOLEAN, sacked : BOOLEAN]
Assertion == {"merge lost", "merge sacked", "copy sacked", "sacked head",
              "no highest", "sacked head discarded", "out of sync"}
Buffer == [first : Nat, sent : Seq(Item), unsent : Nat, sackedOut : Int, lostOut : Int,
           retrans : Int, highest : Nat, failed : SUBSET Assertion]

NewBuffer(size) ==
  [first |-> 1, sent |-> <<>>, unsent |-> size, sackedOut |-> 0, lostOut |-> 0,
   retrans |-> 0, highest |-> NoSeq, failed |-> {}]

Smaller(a, b) == IF a < b THEN a ELSE b
Larger(a, b) == IF a > b THEN a ELSE b

Fails(b, assertion, when) ==
  IF when THEN [b EXCEPT !.failed = @ \cup {assertion}] ELSE b

Indices(b) == 1..Len(b.sent)
End(item) == item.start + item.len
SentEnd(b) == IF b.sent = <<>> THEN b.first ELSE End(b.sent[Len(b.sent)])
SentSize(b) == SentEnd(b) - b.first
SizeFromSequence(b, seq) == Larger(SentEnd(b) + b.unsent - seq, 0)
Size(b) == SizeFromSequence(b, b.first)

\* The sum of the sequence w.
Total(w) ==
  LET sum[k \in 0..Len(w)] == IF k = 0 THEN 0 ELSE sum[k - 1] + w[k] IN sum[Len(w)]

\* Bytes of the items in S, and the list with these items changed by F.
SizeOf(b, S) == Total([i \in Indices(b) |-> IF i \in S THEN b.sent[i].len ELSE 0])
Changed(b, S, F(_)) ==
  [i \in Indices(b) |-> IF i \in S THEN F(b.sent[i]) ELSE b.sent[i]]

\* Bytes of the items of b that satisfy P.
Bytes(b, P(_)) == SizeOf(b, {i \in Indices(b) : P(b.sent[i])})
Sacked(item) == item.sacked
Lost(item) == item.lost
Retrans(item) == item.retrans

BytesInFlight(b) == SentSize(b) - (b.sackedOut + b.lostOut) + b.retrans

InSync(b) == Fails(b, "out of sync", b.sackedOut + b.lostOut > SentSize(b))
-----------------------------------------------------------------------------
\* Taking bytes out.

\* The item i and its successor become one.
MergeItems(b, i) ==
  LET s == b.sent[i]
      t == b.sent[i + 1]
      cancelled == IF s.retrans = t.retrans THEN 0 ELSE IF s.retrans THEN s.len ELSE t.len
      one == [s EXCEPT !.len = @ + t.len, !.retrans = @ /\ t.retrans]
      both == [b EXCEPT !.sent = SubSeq(@, 1, i - 1) \o <<one>> \o SubSeq(@, i + 2, Len(@)),
                        !.retrans = @ - cancelled]
  IN  Fails(Fails(both, "merge sacked", s.sacked # t.sacked), "merge lost", s.lost # t.lost)

\* The first n bytes of item i become an item with the same flags.
SplitItems(b, i, n) ==
  LET s == b.sent[i]
  IN  [b EXCEPT !.sent = SubSeq(@, 1, i - 1)
                         \o <<[s EXCEPT !.len = n],
                              [s EXCEPT !.start = @ + n, !.len = @ - n]>>
                         \o SubSeq(@, i + 1, Len(@))]

GetPacketFromList(b, i, n) ==
  Then(IF n > b.sent[i].len THEN MergeItems(b, i) ELSE b,
       LAMBDA c : IF n < c.sent[i].len THEN SplitItems(c, i, n) ELSE c)

\* At most n bytes from item i on, joined with the next item unless that is
\* sacked, are retransmitted.
GetTransmittedSegment(b, i, n) ==
  Then(GetPacketFromList(b, i, n),
       LAMBDA c : Fails([c EXCEPT !.sent[i].retrans = TRUE,
                                  !.retrans = @ + IF c.sent[i].retrans THEN 0 ELSE c.sent[i].len],
                        "copy sacked", c.sent[i].sacked))

ItemAt(b, seq) == CHOOSE i \in Indices(b) : b.sent[i].start = seq

\* Faulty form: an item is joined with the next one even when that is sacked.
PacketSizeJoinsSacked(b, n, seq) ==
  IF seq >= SentEnd(b) THEN Smaller(n, b.unsent)
  ELSE LET i == ItemAt(b, seq)
           alone == i = Len(b.sent)
       IN  Smaller(n, b.sent[i].len + IF alone THEN 0 ELSE b.sent[i + 1].len)

\* How many of n bytes at seq one packet takes: sent and new bytes never mix,
\* and of the sent ones an item with at most one successor.
PacketSize(b, n, seq) ==
  IF seq >= SentEnd(b) THEN Smaller(n, b.unsent)
  ELSE LET i == ItemAt(b, seq)
           alone == i = Len(b.sent) \/ b.sent[i + 1].sacked
       IN  Smaller(n, b.sent[i].len + IF alone THEN 0 ELSE b.sent[i + 1].len)

GetNewSegment(b, n) ==
  [b EXCEPT !.sent = Append(@, [start |-> SentEnd(b), len |-> n, lost |-> FALSE,
                                retrans |-> FALSE, sacked |-> FALSE]),
            !.unsent = @ - n]

\* seq is the start of an item or the first byte that was not sent.
CopyFromSequence(b, n, seq) ==
  Then(PacketSize(b, n, seq),
       LAMBDA len : IF seq >= SentEnd(b) THEN GetNewSegment(b, len)
                    ELSE Then(ItemAt(b, seq), LAMBDA i : GetTransmittedSegment(b, i, len)))

\* Where the next segment starts: lost bytes, then new ones, and in a recovery
\* what was not sent twice.
NextSeg(b, isRecovery) ==
  LET once == {i \in Indices(b) : ~b.sent[i].retrans /\ ~b.sent[i].sacked}
      lost == {i \in once : b.sent[i].lost}
  IN  IF lost # {} THEN b.sent[Min(lost)].start
      ELSE IF b.unsent > 0 THEN SentEnd(b)
      ELSE IF isRecovery /\ once # {} THEN b.sent[Min(once)].start
      ELSE NoSeq
-----------------------------------------------------------------------------
\* Acknowledgements.

\* Bytes before seq of the items that satisfy P.
BytesBefore(b, seq, P(_)) ==
  Total([i \in Indices(b) |-> IF b.sent[i].start < seq /\ P(b.sent[i])
                              THEN Smaller(End(b.sent[i]), seq) - b.sent[i].start ELSE 0])

\* Faulty form: a discarded item leaves its retransmission in the count.
RemoveFromCountsNotRetrans(b, seq) ==
  [b EXCEPT !.sackedOut = @ - BytesBefore(b, seq, Sacked),
            !.lostOut = @ - BytesBefore(b, seq, Lost)]

RemoveFromCounts(b, seq) ==
  [b EXCEPT !.sackedOut = @ - BytesBefore(b, seq, Sacked),
            !.retrans = @ - BytesBefore(b, seq, Retrans),
            !.lostOut = @ - BytesBefore(b, seq, Lost)]

\* The item without the bytes before seq.
CutAt(item, seq) ==
  LET start == Larger(item.start, seq)
  IN  [item EXCEPT !.start = start, !.len = End(item) - start]

\* All before seq leaves the list; an item across it is cut.
ListFrom(sent, seq) ==
  Then({i \in DOMAIN sent : End(sent[i]) > seq},
       LAMBDA kept : [i \in 1..(IF kept = {} THEN 0 ELSE Len(sent) + 1 - Min(kept)) |->
                        CutAt(sent[Min(kept) - 1 + i], seq)])

(* A sacked item at the head makes the code fall back on guesses of a      *)
(* sender without SACK; as a failure here, because it never happens.       *)
DiscardUpTo(b, seq) ==
  IF seq <= b.first THEN b
  ELSE Then([RemoveFromCounts(b, seq) EXCEPT
               !.first = seq, !.sent = ListFrom(@, seq),
               !.highest = IF @ <= seq THEN NoSeq ELSE @],
            LAMBDA c : InSync(Fails(c, "sacked head discarded",
                                    c.sent # <<>> /\ Head(c.sent).sacked)))

\* Sacked items from i up to the one that counts as the highest.
SackedFrom(b, i) ==
  Cardinality({j \in i..Len(b.sent) : b.sent[j].sacked /\ b.sent[j].start <= b.highest})

MarkLost(item) == [item EXCEPT !.lost = TRUE]

\* Faulty form: the head is left out.
UpdateLostCountNotHead(b, dupThresh) ==
  Then({i \in Indices(b) \ {1} : /\ ~b.sent[i].sacked /\ ~b.sent[i].lost
                                 /\ SackedFrom(b, i) >= dupThresh},
       LAMBDA missing : [b EXCEPT !.sent = Changed(b, missing, MarkLost),
                                  !.lostOut = @ + SizeOf(b, missing)])

UpdateLostCount(b, dupThresh) ==
  Then({i \in Indices(b) : /\ ~b.sent[i].sacked /\ ~b.sent[i].lost
                           /\ SackedFrom(b, i) >= dupThresh},
       LAMBDA missing : [b EXCEPT !.sent = Changed(b, missing, MarkLost),
                                  !.lostOut = @ + SizeOf(b, missing)])

\* Faulty form: a block that holds a part of an item covers it.
CoversPart(block, item) == block.first < End(item) /\ item.start < block.second

Covers(block, item) == block.first <= item.start /\ End(item) <= block.second

MarkSacked(item) == [item EXCEPT !.sacked = TRUE, !.lost = FALSE]

\* An item that ends where the highest one starts takes its place.
SackItems(b, new) ==
  LET top == b.sent[Max(new)]
  IN  [b EXCEPT !.sent = Changed(b, new, MarkSacked),
                !.sackedOut = @ + SizeOf(b, new),
                !.lostOut = @ - SizeOf(b, {i \in new : b.sent[i].lost}),
                !.highest = IF @ = NoSeq \/ @ <= End(top) THEN top.start ELSE @]

\* The items a block covers as a whole are sacked.
SackBlock(b, block) ==
  Then({i \in Indices(b) : Covers(block, b.sent[i]) /\ ~b.sent[i].sacked},
       LAMBDA new : IF new = {} THEN b ELSE SackItems(b, new))

\* The blocks one after the other, the first one first.
SackBlocks(b, blocks) ==
  LET after[k \in 0..Len(blocks)] ==
        IF k = 0 THEN b ELSE SackBlock(after[k - 1], blocks[k])
  IN  after[Len(blocks)]

\* Some item is covered: also one that was sacked before.
Modifies(b, blocks) ==
  \E k \in DOMAIN blocks, i \in Indices(b) : Covers(blocks[k], b.sent[i])

Update(b, blocks, dupThresh) ==
  IF ~Modifies(b, blocks) THEN b
  ELSE Then(SackBlocks(b, blocks),
            LAMBDA c : Then(UpdateLostCount(c, dupThresh),
                            LAMBDA d : InSync(Fails(Fails(d, "no highest", c.highest = NoSeq),
                                                    "sacked head", Head(c.sent).sacked))))
-----------------------------------------------------------------------------
\* Loss.

\* Of the items from seq on, the first that is lost or sacked is lost.
IsLost(b, seq) ==
  LET flagged == {i \in Indices(b) : b.sent[i].start >= seq /\ (b.sent[i].lost \/ b.sent[i].sacked)}
  IN  seq < b.highest /\ flagged # {} /\ b.sent[Min(flagged)].lost

MarkHeadAsLost(b) ==
  LET head == Head(b.sent)
  IN  IF b.sent = <<>> THEN b
      ELSE [b EXCEPT !.sent[1] = [head EXCEPT !.sacked = FALSE, !.retrans = FALSE, !.lost = TRUE],
                     !.sackedOut = @ - IF head.sacked THEN head.len ELSE 0,
                     !.retrans = @ - IF head.retrans THEN head.len ELSE 0,
                     !.lostOut = @ + IF head.lost THEN 0 ELSE head.len]

DeleteRetransmittedFlagFromHead(b) ==
  IF b.sent # <<>> /\ Head(b.sent).retrans
  THEN [b EXCEPT !.sent[1].retrans = FALSE, !.retrans = @ - Head(b.sent).len]
  ELSE b

\* Faulty form: the flags of what was sent twice stay.
SetSentListLostKeepsRetrans(b) ==
  Then({i \in Indices(b) : ~b.sent[i].sacked},
       LAMBDA unsacked : InSync([b EXCEPT !.sent = Changed(b, unsacked, MarkLost),
                                          !.lostOut = SizeOf(b, unsacked),
                                          !.retrans = 0]))

NotRetrans(item) == [item EXCEPT !.retrans = FALSE]

\* After a timeout all is lost but what is sacked.
SetSentListLost(b) ==
  Then([b EXCEPT !.sent = Changed(b, Indices(b), NotRetrans), !.retrans = 0],
       LAMBDA c : Then({i \in Indices(c) : ~c.sent[i].sacked},
                       LAMBDA unsacked : InSync([c EXCEPT !.sent = Changed(c, unsacked, MarkLost),
                                                          !.lostOut = SizeOf(c, unsacked)])))

\* What ConsistencyCheck, which is switched off, would compare.
Consistent(b) ==
  /\ b.sackedOut = Bytes(b, Sacked)
  /\ b.lostOut = Bytes(b, Lost)
  /\ b.retrans = Bytes(b, Retrans)
=============================================================================
