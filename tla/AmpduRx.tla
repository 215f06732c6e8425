------------------------------- MODULE AmpduRx -------------------------------
(***************************************************************************)
(* The A-MPDU reorder buffer of one traffic identifier (ieee80211_ht.c):    *)
(* frames of a block-ack agreement that arrive out of order wait in a       *)
(* window of slots until the frames before them have come, the peer says it *)
(* has given them up (BAR), the window has to move, or they get too old.    *)
(*                                                                          *)
(* The agreement is that of a station with its access point, so the receive *)
(* worker alone touches it and each handler is one step.  An access point   *)
(* also ages the agreements of its stations from a timer                    *)
(* (ieee80211_ht_node_age), which shares no lock with the worker:           *)
(* ieee80211_timeout_stations skips iv_bss, a station's only peer.          *)
(*                                                                          *)
(* Frames are numbered 0, 1, ... by the peer; what arrives with them is the *)
(* number modulo SEQ_RANGE.  The peer (external) keeps at most PeerWindow   *)
(* frames outstanding; the order in which they arrive is arbitrary, they    *)
(* and their acks may get lost.                                             *)
(***************************************************************************)
EXTENDS Integers, Sequences, FiniteSets, FiniteSetsExt

CONSTANTS
  BA_RANGE,    \* IEEE80211_SEQ_BA_RANGE, half of the sequence numbers
  Windows,     \* the values of rxa_wnd an ADDBA request can lead to
  PeerWindow,  \* frames the peer keeps outstanding
  MaxSeq       \* bound on the frame numbers

ASSUME WindowAssumption ==
  /\ BA_RANGE \in Nat \ {0} /\ PeerWindow \in Nat \ {0} /\ MaxSeq \in Nat
  /\ Windows \subseteq Nat \ {0} /\ \A wnd \in Windows : wnd + PeerWindow <= BA_RANGE

SEQ_RANGE == 2 * BA_RANGE

VARIABLES
  rap,       \* struct ieee80211_rx_ampdu
  base,      \* the peer: its oldest outstanding frame
  acked,     \* the peer: outstanding frames it knows to have arrived
  ackLost,   \* the peer: outstanding frames that arrived without its knowing
  last,      \* history: the last frame passed up
  inOrder,   \* history: was every frame passed up later in the peer's order than the one before?
  waiting,   \* history: frames that arrived and were neither passed up nor purged
  excused    \* history: has a flush by age cut through the order, or is the window too small?

peerVars    == <<base, acked, ackLost>>
historyVars == <<last, inOrder, waiting, excused>>
vars        == <<rap, peerVars, historyVars>>

None == -1

(***************************************************************************)
(* Mutant: the sum is not cut to the 12 bits of a sequence number.          *)
(***************************************************************************)
Bug_SeqAdd(a, n) == a + n

\* IEEE80211_SEQ_ADD, IEEE80211_SEQ_SUB and IEEE80211_SEQ_BA_BEFORE.
SeqAdd(a, n) == (a + n) % SEQ_RANGE
SeqSub(a, b) == (a + SEQ_RANGE - b) % SEQ_RANGE
BaBefore(a, b) == (b + SEQ_RANGE - (a + 1)) % SEQ_RANGE < BA_RANGE - 1

Slots(r) == 0 .. r.wnd - 1
Held(r) == {i \in Slots(r) : r.m[i] # None}
HeldFrames(r) == {r.m[i] : i \in Held(r)}

EmptyWindow(wnd) == [i \in 0 .. wnd - 1 |-> None]

Agreement(start, wnd, xchgpend) ==
  [start |-> start, wnd |-> wnd, m |-> EmptyWindow(wnd), qframes |-> 0,
   xchgpend |-> xchgpend, out |-> <<>>]

Init ==
  /\ rap = Agreement(0, 0, FALSE)
  /\ base = 0 /\ acked = {} /\ ackLost = {}
  /\ last = None /\ inOrder = TRUE /\ waiting = {} /\ excused = FALSE

-----------------------------------------------------------------------------
(***************************************************************************)
(* The steps of the handlers work on the agreement r; r.out collects what   *)
(* ampdu_dispatch, or the caller, passes up, with None for an empty slot    *)
(* that a loop goes over.                                                   *)
(***************************************************************************)
PassUp(r, n) == [r EXCEPT !.out = Append(@, n)]

\* Dispatch the frames in slots lo .. hi - 1.
DispatchSlots(r, lo, hi) ==
  [r EXCEPT !.m = [i \in Slots(r) |-> IF lo <= i /\ i < hi THEN None ELSE r.m[i]],
            !.qframes = @ - Cardinality({i \in Held(r) : lo <= i /\ i < hi}),
            !.out = @ \o [k \in 1 .. hi - lo |-> r.m[lo + k - 1]]]

(***************************************************************************)
(* Mutant: the frames that remain keep their slots.                         *)
(***************************************************************************)
Bug_MoveWindow(r, n) == [r EXCEPT !.start = SeqAdd(@, n)]

(***************************************************************************)
(* Copy the frames that remain down by n slots and move the window start.   *)
(* The loop copies slot j to j - n and clears slot j, so n = 0 would lose   *)
(* the frames.                                                              *)
(***************************************************************************)
MoveWindow(r, n) ==
  [r EXCEPT
    !.m = IF r.qframes = 0 THEN @
          ELSE [i \in Slots(r) |-> IF n # 0 /\ i + n \in Slots(r) THEN r.m[i + n] ELSE None],
    !.start = SeqAdd(@, n)]

\* Slot 0 was handled by the caller.
ampdu_rx_dispatch(r) ==
  LET gap == Min({i \in 1 .. r.wnd : i = r.wnd \/ r.m[i] = None})
  IN MoveWindow(DispatchSlots(r, 1, gap), gap)

ampdu_rx_flush(r) == DispatchSlots(r, 0, r.wnd)

\* Up to the first empty slot that is not before winstart.
ampdu_rx_flush_upto(r, winstart) ==
  LET i == Min({k \in 0 .. r.wnd :
                  \/ k = r.wnd
                  \/ r.m[k] = None /\ ~BaBefore(SeqAdd(r.start, k), winstart)})
  IN MoveWindow(DispatchSlots(r, 0, i), i)

(***************************************************************************)
(* Mutant: the frames behind a gap are passed up before the one that fills  *)
(* it.                                                                      *)
(***************************************************************************)
Bug_FirstInWindow(r, n) ==
  IF r.qframes # 0
  THEN PassUp(ampdu_rx_dispatch(r), n)
  ELSE PassUp([r EXCEPT !.start = SeqAdd(@, 1)], n)

FirstInWindow(r, n) ==
  IF r.qframes # 0
  THEN ampdu_rx_dispatch(PassUp(r, n))
  ELSE PassUp([r EXCEPT !.start = SeqAdd(@, 1)], n)

Save(r, n, off) ==
  IF r.m[off] = None THEN [r EXCEPT !.m[off] = n, !.qframes = @ + 1] ELSE r

FlushByAge(r, n) ==
  PassUp([ampdu_rx_flush(r) EXCEPT !.start = SeqAdd(n % SEQ_RANGE, 1)], n)

(***************************************************************************)
(* A frame in the window of r.  old: the oldest waiting frame has waited    *)
(* for more than ieee80211_ampdu_age.                                       *)
(***************************************************************************)
InWindow(r, n, old) ==
  LET off == SeqSub(n % SEQ_RANGE, r.start)
  IN CASE off = 0                             -> FirstInWindow(r, n)
       [] off # 0 /\ r.qframes # 0 /\ old     -> FlushByAge(r, n)
       [] off # 0 /\ ~(r.qframes # 0 /\ old)  -> Save(r, n, off)

(***************************************************************************)
(* A frame beyond the window: flush up to winstart and look again.  If the  *)
(* frame is still beyond it the window is empty, and the following rounds   *)
(* take it to winstart.                                                     *)
(***************************************************************************)
WindowFor(r, n) ==
  LET rxseq    == n % SEQ_RANGE
      winstart == SeqSub(rxseq, r.wnd - 1)
      flushed  == ampdu_rx_flush_upto(r, winstart)
  IN IF SeqSub(rxseq, flushed.start) < r.wnd THEN flushed ELSE [flushed EXCEPT !.start = winstart]

(***************************************************************************)
(* Mutant: a frame beyond the window is tossed.                             *)
(***************************************************************************)
Bug_ieee80211_ampdu_reorder(r, n, old) ==
  IF ~r.xchgpend THEN PassUp(r, n)
  ELSE IF SeqSub(n % SEQ_RANGE, r.start) < r.wnd THEN InWindow(r, n, old) ELSE r

ieee80211_ampdu_reorder(r, n, old) ==
  LET off == SeqSub(n % SEQ_RANGE, r.start)
  IN CASE ~r.xchgpend                              -> PassUp(r, n)
       [] r.xchgpend /\ off < r.wnd                -> InWindow(r, n, old)
       [] r.xchgpend /\ r.wnd <= off /\ off < BA_RANGE -> InWindow(WindowFor(r, n), n, old)
       [] r.xchgpend /\ BA_RANGE <= off            -> r

(***************************************************************************)
(* Mutant: an old BAR takes the window back.                                *)
(***************************************************************************)
Bug_ieee80211_recv_bar(r, rxseq) ==
  LET off == SeqSub(rxseq, r.start)
  IN IF r.xchgpend /\ off # 0
     THEN [ampdu_rx_flush_upto(r, rxseq) EXCEPT !.start = IF off < r.wnd THEN @ ELSE rxseq]
     ELSE r

ieee80211_recv_bar(r, rxseq) ==
  LET off == SeqSub(rxseq, r.start)
  IN IF r.xchgpend /\ off # 0 /\ off < BA_RANGE
     THEN [ampdu_rx_flush_upto(r, rxseq) EXCEPT !.start = IF off < r.wnd THEN @ ELSE rxseq]
     ELSE r

-----------------------------------------------------------------------------
Ups(r) == {i \in 1 .. Len(r.out) : r.out[i] # None}
Passed(r) == {r.out[i] : i \in Ups(r)}

\* Every frame passed up comes after the frame l and after those before it.
Increasing(r, l) ==
  \A i \in Ups(r) : r.out[i] > l /\ \A j \in Ups(r) : j < i => r.out[j] < r.out[i]

\* The handler leaves r and passes r.out up; after an excuse no history is kept.
Result(r, excuse) ==
  /\ rap' = [r EXCEPT !.out = <<>>]
  /\ excused' = excuse
  /\ last' = IF excuse \/ Ups(r) = {} THEN last ELSE r.out[Max(Ups(r))]
  /\ inOrder' = (inOrder /\ (excuse \/ Increasing(r, last)))

(***************************************************************************)
(* Frame n arrives, maybe once more because the ack of its first arrival    *)
(* was lost.  Outside an agreement the peer sends one frame at a time.      *)
(***************************************************************************)
Receive(n, old, heard) ==
  LET r      == ieee80211_ampdu_reorder(rap, n, old)
      excuse == excused \/ (old /\ rap.xchgpend /\ rap.qframes # 0)
  IN /\ n \in base .. base + (IF rap.xchgpend THEN PeerWindow ELSE 1) - 1
     /\ n <= MaxSeq /\ n \notin acked
     /\ rap.xchgpend \/ heard
     /\ Result(r, excuse)
     /\ waiting' = IF excuse THEN {}
                   ELSE (waiting \cup ({n} \ ackLost)) \ Passed(r)
     /\ acked' = IF heard THEN acked \cup {n} ELSE acked
     /\ ackLost' = IF heard THEN ackLost \ {n} ELSE ackLost \cup {n}
     /\ UNCHANGED base

Bar ==
  LET r == ieee80211_recv_bar(rap, base % SEQ_RANGE)
  IN /\ Result(r, excused)
     /\ waiting' = waiting \ Passed(r)
     /\ UNCHANGED peerVars

NothingOutstanding == acked = {} /\ ackLost = {}

\* An ADDBA request; the peer has nothing outstanding.  What waits is purged.
ampdu_rx_start(wnd) ==
  /\ NothingOutstanding
  /\ rap' = Agreement(base % SEQ_RANGE, wnd, TRUE)
  /\ waiting' = waiting \ HeldFrames(rap)
  /\ last' = base - 1
  /\ excused' = (wnd < PeerWindow)
  /\ UNCHANGED <<peerVars, inOrder>>

\* A DELBA of the peer.  What waits is purged.
ampdu_rx_stop ==
  /\ NothingOutstanding
  /\ rap' = [rap EXCEPT !.m = EmptyWindow(rap.wnd), !.qframes = @ - Cardinality(Held(rap)),
                        !.xchgpend = FALSE]
  /\ waiting' = waiting \ HeldFrames(rap)
  /\ UNCHANGED <<peerVars, last, inOrder, excused>>

(***************************************************************************)
(* The peer (external) moves on past a frame it knows to have arrived, or   *)
(* one it gives up.  It does not give up half of the sequence numbers in a  *)
(* row without a frame or BAR of it arriving.                               *)
(***************************************************************************)
PeerAdvance ==
  /\ base <= MaxSeq
  /\ base \in acked \/ SeqSub((base + PeerWindow) % SEQ_RANGE, rap.start) < BA_RANGE
  /\ base' = base + 1
  /\ acked' = acked \ {base}
  /\ ackLost' = ackLost \ {base}
  /\ UNCHANGED <<rap, historyVars>>

Next ==
  \/ \E n \in 0 .. MaxSeq, old, heard \in BOOLEAN : Receive(n, old, heard)
  \/ Bar
  \/ \E wnd \in Windows : ampdu_rx_start(wnd)
  \/ ampdu_rx_stop
  \/ PeerAdvance

Spec == Init /\ [][Next]_vars

-----------------------------------------------------------------------------
(***************************************************************************)
(* The agreement, the peer and the histories keep their types.              *)
(***************************************************************************)
TypeOK ==
  /\ rap.wnd \in Windows \cup {0} /\ rap.start \in 0 .. SEQ_RANGE - 1
  /\ rap.m \in [Slots(rap) -> 0 .. MaxSeq \cup {None}]
  /\ rap.qframes \in 0 .. rap.wnd /\ rap.xchgpend \in BOOLEAN /\ rap.out = <<>>
  /\ base \in 0 .. MaxSeq + 1 /\ acked \subseteq 0 .. MaxSeq /\ ackLost \subseteq 0 .. MaxSeq
  /\ last \in 0 .. MaxSeq \cup {None} /\ waiting \subseteq 0 .. MaxSeq
  /\ inOrder \in BOOLEAN /\ excused \in BOOLEAN

(***************************************************************************)
(* What the assertions of ieee80211_ht.c rely on ("unexpected dup", "BA     *)
(* window slot 0 occupied", "lost %d frames"): slot 0 is empty between two  *)
(* frames, rxa_qframes counts the occupied slots, and slot i holds the      *)
(* frame i after the window start, for every order of arrival, BARs, window *)
(* moves and flushes by age that a received frame sets off.                 *)
(***************************************************************************)
SlotsMatchWindow ==
  /\ rap.wnd > 0 => rap.m[0] = None
  /\ rap.qframes = Cardinality(Held(rap))
  /\ \A i \in Held(rap) : rap.m[i] % SEQ_RANGE = SeqAdd(rap.start, i)

(***************************************************************************)
(* The point of the buffer: for a peer that keeps within rxa_wnd, and until *)
(* a flush by age, frames are passed up in the peer's order, each once.     *)
(***************************************************************************)
InOrderOnce == inOrder

(***************************************************************************)
(* And none is lost: a frame that arrived was passed up, waits in a slot,   *)
(* or was freed with its agreement.  Only copies are tossed.                *)
(***************************************************************************)
NothingLost == ~excused => waiting = HeldFrames(rap)

(***************************************************************************)
(* Within an agreement the window start never moves back, whatever old      *)
(* frames and BARs arrive: it moves by half of the sequence numbers at      *)
(* most, which is how far ahead a frame counts as new.                      *)
(***************************************************************************)
WindowMovesForward ==
  [][\/ SeqSub(rap'.start, rap.start) <= BA_RANGE
     \/ \E wnd \in Windows : ampdu_rx_start(wnd)]_vars
=============================================================================
