---------------------------- MODULE ToolCallsProofs ----------------------------
(***************************************************************************)
(* The tool calls of ToolCalls, for every number of rounds, calls,         *)
(* fragments, results and pages. The sequences of the model are put        *)
(* together by FlattenSeq and by sorting, see AlgorithmProofs.             *)
(***************************************************************************)
EXTENDS ToolCalls, AlgorithmProofs

-----------------------------------------------------------------------------
(* The invariant. *)

CallIds == Nat \X Nat
Calls == [id : CallIds, args : Seq(Nat)]
Slots == [call : Nat, id : CallIds, args : Seq(Nat)]
Marks == [head : BOOLEAN, parts : Nat, done : BOOLEAN]
Sources == [index : Nat, kind : Tools, url : Urls \cup {""}, shown : Nat, text : CallIds]
Messages == [role : {"user", "assistant", "tool"}, text : BOOLEAN, calls : Seq(Calls), id : CallIds]

ToolTypeOK ==
  /\ api \in {"chat", "responses"}
  /\ phase \in {"idle", "streaming", "calling", "ended"}
  /\ round \in Nat
  /\ written \in Seq(Nat)
  /\ heard \in [DOMAIN written -> Marks]
  /\ slots \in Seq(Slots)
  /\ cut \in BOOLEAN
  /\ pending \in Seq(Calls)
  /\ messages \in Seq(Messages)
  /\ sources \in Seq(Sources)
  /\ ran \in SUBSET Calls

\* The accumulator has one slot per call begun, with the fragments streamed so far.
Accumulated ==
  phase = "streaming" =>
    /\ \A i \in DOMAIN slots :
         LET c == slots[i].call IN
         /\ c \in DOMAIN written /\ heard[c].head
         /\ slots[i].id = Id(c)
         /\ slots[i].args = [j \in 1 .. heard[c].parts |-> j]
    /\ \A i, j \in DOMAIN slots : slots[i].call = slots[j].call => i = j
    /\ \A c \in DOMAIN written :
         /\ heard[c].parts <= written[c]
         /\ heard[c].head => \E i \in DOMAIN slots : slots[i].call = c
         /\ ~heard[c].head => heard[c].parts = 0 /\ ~heard[c].done

\* A name given before the generation that is under way.
Old(id) == IF phase \in {"streaming", "calling"} THEN id[1] < round ELSE id[1] <= round

\* What the messages hold: each call that ran once, and one result later on; and the
\* names there, like those among the sources, are old.
Replayed ==
  /\ \A i \in DOMAIN messages : messages[i].role = "tool" => messages[i].calls = <<>>
  /\ ran = UNION {{messages[i].calls[k] : k \in DOMAIN messages[i].calls} : i \in DOMAIN messages}
  /\ \A i, j \in DOMAIN messages : \A k \in DOMAIN messages[i].calls, l \in DOMAIN messages[j].calls :
       messages[i].calls[k].id = messages[j].calls[l].id => i = j /\ k = l
  /\ \A i \in DOMAIN messages : \A k \in DOMAIN messages[i].calls :
       \E j \in DOMAIN messages : /\ i < j /\ messages[j].role = "tool"
                                  /\ messages[j].id = messages[i].calls[k].id
  /\ \A i, j \in DOMAIN messages :
       messages[i].role = "tool" /\ messages[j].role = "tool" /\ messages[i].id = messages[j].id =>
         i = j

Named ==
  /\ \A i \in DOMAIN messages : /\ Old(messages[i].id)
                                /\ \A k \in DOMAIN messages[i].calls : Old(messages[i].calls[k].id)
  /\ \A i \in DOMAIN sources : Old(sources[i].text)
  /\ Old(NoId)

ToolInv ==
  /\ ToolTypeOK /\ Accumulated /\ PendingAsWritten /\ Replayed /\ Named
  /\ NumbersStand(sources, sources)

-----------------------------------------------------------------------------
(* Streaming. *)

\* setdefault: the slot of the call is there, as it was or empty.
LEMMA SlotThere ==
  ASSUME ToolTypeOK, Accumulated, phase = "streaming", NEW c \in DOMAIN written
  PROVE  /\ WithSlot(c) \in Seq(Slots)
         /\ \E i \in DOMAIN WithSlot(c) : WithSlot(c)[i].call = c
         /\ \A i, j \in DOMAIN WithSlot(c) : WithSlot(c)[i].call = WithSlot(c)[j].call => i = j
         /\ \A i \in DOMAIN slots : i \in DOMAIN WithSlot(c) /\ WithSlot(c)[i] = slots[i]
         /\ \A i \in DOMAIN WithSlot(c) :
              /\ WithSlot(c)[i].call # c => i \in DOMAIN slots /\ WithSlot(c)[i] = slots[i]
              /\ WithSlot(c)[i].call = c /\ ~heard[c].head => WithSlot(c)[i].args = <<>>
              /\ WithSlot(c)[i].call = c /\ heard[c].head =>
                   /\ WithSlot(c)[i].id = Id(c)
                   /\ WithSlot(c)[i].args = [j \in 1 .. heard[c].parts |-> j]
<1>1. slots \in Seq(Slots) /\ c \in Nat
  BY DEF ToolTypeOK
<1>2. CASE \E i \in DOMAIN slots : slots[i].call = c
  <2>1. WithSlot(c) = slots
    BY <1>2 DEF WithSlot
  <2> QED
    BY <1>1, <1>2, <2>1 DEF Accumulated
<1>3. CASE ~ \E i \in DOMAIN slots : slots[i].call = c
  <2> DEFINE new == [call |-> c, id |-> NoId, args |-> <<>>]
             w == Append(slots, new)
  <2>1. WithSlot(c) = w
    BY <1>3 DEF WithSlot
  <2>2. new \in Slots /\ new.call = c /\ new.args = <<>>
    BY <1>1 DEF Slots, CallIds, NoId
  <2> HIDE DEF new
  <2>3. /\ w \in Seq(Slots) /\ DOMAIN w = DOMAIN slots \cup {Len(slots) + 1}
        /\ Len(slots) + 1 \notin DOMAIN slots /\ w[Len(slots) + 1] = new
        /\ \A i \in DOMAIN slots : w[i] = slots[i]
    BY <1>1, <2>2
  <2> HIDE DEF w
  <2>4. ~heard[c].head
    BY <1>3 DEF Accumulated
  <2>5. \A i, j \in DOMAIN w : w[i].call = w[j].call => i = j
    BY <1>3, <2>2, <2>3 DEF Accumulated
  <2> QED
    BY <1>3, <2>1, <2>2, <2>3, <2>4, <2>5
<1> QED
  BY <1>2, <1>3

\* One call has come further, and its slot with it.
LEMMA SlotMoves ==
  ASSUME ToolTypeOK, Accumulated, phase = "streaming", NEW c \in DOMAIN written,
         NEW mark \in Marks, mark.head, mark.parts <= written[c],
         NEW slot, slot = [call |-> c, id |-> Id(c), args |-> [j \in 1 .. mark.parts |-> j]],
         heard' = [heard EXCEPT ![c] = mark],
         slots' = [i \in DOMAIN WithSlot(c) |->
                     IF WithSlot(c)[i].call = c THEN slot ELSE WithSlot(c)[i]],
         Same
  PROVE  ToolTypeOK' /\ Accumulated'
<1> DEFINE w == WithSlot(c)
<1>1. /\ w \in Seq(Slots)
      /\ \E i \in DOMAIN w : w[i].call = c
      /\ \A i, j \in DOMAIN w : w[i].call = w[j].call => i = j
      /\ \A i \in DOMAIN slots : i \in DOMAIN w /\ w[i] = slots[i]
      /\ \A i \in DOMAIN w : w[i].call # c => i \in DOMAIN slots /\ w[i] = slots[i]
  BY SlotThere
<1>2. slots' = [i \in DOMAIN w |-> IF w[i].call = c THEN slot ELSE w[i]]
  OBVIOUS
<1> DEFINE s == slots'
           h == heard'
<1>3. slot \in Slots /\ slot.call = c /\ slot.id = Id(c) /\ slot.args = [j \in 1 .. mark.parts |-> j]
  <2>1. c \in Nat
    <3>1. written \in Seq(Nat)
      BY DEF ToolTypeOK
    <3> QED
      BY <3>1
  <2>2. round \in Nat /\ mark.parts \in Nat
    BY DEF ToolTypeOK, Marks
  <2>3. [j \in 1 .. mark.parts |-> j] \in Seq(Nat)
    BY <2>2
  <2> QED
    BY <2>1, <2>2, <2>3 DEF Slots, CallIds, Id
<1>4. /\ s = [i \in DOMAIN w |-> IF w[i].call = c THEN slot ELSE w[i]]
      /\ Len(w) \in Nat /\ DOMAIN w = 1 .. Len(w) /\ \A i \in DOMAIN w : w[i] \in Slots
  BY <1>1, <1>2
<1>5. /\ h \in [DOMAIN written -> Marks]
      /\ h[c] = mark /\ \A d \in DOMAIN written : d # c => h[d] = heard[d]
  BY DEF ToolTypeOK
<1> HIDE DEF w, s, h
<1>6. /\ DOMAIN s = DOMAIN w
      /\ \A i \in DOMAIN w : /\ s[i] \in Slots /\ s[i].call = w[i].call
                             /\ w[i].call = c => s[i] = slot
                             /\ w[i].call # c => s[i] = w[i]
  BY <1>3, <1>4
<1>7. s \in Seq(Slots)
  <2>1. s \in [1 .. Len(w) -> Slots]
    BY <1>4, <1>6
  <2> QED
    BY <1>4, <2>1
<1>8. ToolTypeOK'
  BY <1>5, <1>7 DEF ToolTypeOK, Same, s, h
<1>9. ASSUME NEW i \in DOMAIN s
      PROVE  /\ s[i].call \in DOMAIN written /\ h[s[i].call].head
             /\ s[i].id = Id(s[i].call)
             /\ s[i].args = [j \in 1 .. h[s[i].call].parts |-> j]
  <2>1. CASE w[i].call = c
    BY <1>3, <1>5, <1>6, <2>1
  <2>2. CASE w[i].call # c
    <3>1. i \in DOMAIN slots /\ s[i] = slots[i] /\ slots[i].call # c
      BY <1>1, <1>6, <2>2
    <3>2. /\ slots[i].call \in DOMAIN written /\ heard[slots[i].call].head
          /\ slots[i].id = Id(slots[i].call)
          /\ slots[i].args = [j \in 1 .. heard[slots[i].call].parts |-> j]
      BY <3>1 DEF Accumulated
    <3>3. h[slots[i].call] = heard[slots[i].call]
      BY <1>5, <3>1, <3>2
    <3> QED
      BY <3>1, <3>2, <3>3
  <2> QED
    BY <2>1, <2>2
<1>10. \A i, j \in DOMAIN s : s[i].call = s[j].call => i = j
  BY <1>1, <1>6
<1>11. ASSUME NEW d \in DOMAIN written
       PROVE  /\ h[d].parts <= written[d]
              /\ h[d].head => \E i \in DOMAIN s : s[i].call = d
              /\ ~h[d].head => h[d].parts = 0 /\ ~h[d].done
  <2>1. CASE d = c
    BY <1>1, <1>5, <1>6, <2>1
  <2>2. CASE d # c
    <3>1. h[d] = heard[d]
      BY <1>5, <2>2
    <3>2. ASSUME heard[d].head PROVE \E i \in DOMAIN s : s[i].call = d
      <4>1. PICK i \in DOMAIN slots : slots[i].call = d
        BY <3>2 DEF Accumulated
      <4>2. i \in DOMAIN w /\ w[i].call = d
        BY <1>1, <4>1
      <4> QED
        BY <1>6, <4>2
    <3> QED
      BY <3>1, <3>2 DEF Accumulated
  <2> QED
    BY <2>1, <2>2
<1>12. /\ written' = written /\ phase' = phase /\ round' = round
       /\ heard' = h /\ slots' = s
  BY DEF Same, h, s
<1>13. Accumulated'
  <2>1. \A d : <<round', d>> = Id(d)
    BY <1>12 DEF Id
  <2>2. /\ \A i \in DOMAIN slots' :
             /\ slots'[i].call \in DOMAIN written' /\ heard'[slots'[i].call].head
             /\ slots'[i].id = <<round', slots'[i].call>>
             /\ slots'[i].args = [j \in 1 .. heard'[slots'[i].call].parts |-> j]
        /\ \A i, j \in DOMAIN slots' : slots'[i].call = slots'[j].call => i = j
        /\ \A d \in DOMAIN written' :
             /\ heard'[d].parts <= written'[d]
             /\ heard'[d].head => \E i \in DOMAIN slots' : slots'[i].call = d
             /\ ~heard'[d].head => heard'[d].parts = 0 /\ ~heard'[d].done
    <3>1. written' = written
      BY <1>12
    <3> QED
      BY <1>9, <1>10, <1>11, <2>1, <3>1 DEF s, h
  <2> QED
    BY <2>2 DEF Accumulated, Id
<1> QED
  BY <1>8, <1>13


\* What a fragment does not touch.
LEMMA FragmentKeeps ==
  ASSUME ToolInv, phase = "streaming", Same
  PROVE  PendingAsWritten' /\ Replayed' /\ Named' /\ NumbersStand(sources, sources)'
<1>1. /\ phase' = phase /\ round' = round /\ messages' = messages /\ sources' = sources /\ ran' = ran
  BY DEF Same
<1>2. PendingAsWritten'
  BY <1>1 DEF PendingAsWritten
<1>3. Replayed'
  BY <1>1 DEF ToolInv, Replayed
<1>4. Named'
  <2>1. \A id : Old(id)' <=> Old(id)
    BY <1>1 DEF Old
  <2> QED
    BY <1>1, <2>1 DEF ToolInv, Named, Old
<1>5. NumbersStand(sources, sources)'
  BY <1>1 DEF ToolInv
<1> QED
  BY <1>2, <1>3, <1>4, <1>5

\* The numbers of the fragments streamed, and one more.
LEMMA Fragments ==
  ASSUME NEW n \in Nat
  PROVE  /\ [j \in 1 .. n |-> j] \in Seq(Nat)
         /\ Append([j \in 1 .. n |-> j], n + 1) = [j \in 1 .. n + 1 |-> j]
  OBVIOUS

LEMMA CallTyped ==
  ASSUME ToolTypeOK, NEW c \in DOMAIN written
  PROVE  /\ c \in Nat /\ Id(c) \in CallIds /\ written[c] \in Nat /\ Wrote(c) \in Seq(Nat)
         /\ heard[c] \in Marks /\ heard[c].parts \in Nat
<1>1. written \in Seq(Nat) /\ round \in Nat /\ heard \in [DOMAIN written -> Marks]
  BY DEF ToolTypeOK
<1>2. c \in Nat /\ written[c] \in Nat
  BY <1>1
<1>3. heard[c] \in Marks /\ heard[c].parts \in Nat
  BY <1>1 DEF Marks
<1> QED
  BY <1>1, <1>2, <1>3, Fragments DEF CallIds, Id, Wrote

\* The slot of a call holds the fragments streamed.
LEMMA SlotHolds ==
  ASSUME ToolTypeOK, Accumulated, phase = "streaming", NEW c \in DOMAIN written,
         NEW i \in DOMAIN WithSlot(c), WithSlot(c)[i].call = c
  PROVE  /\ WithSlot(c)[i] \in Slots
         /\ WithSlot(c)[i].args = [j \in 1 .. heard[c].parts |-> j]
         /\ heard[c].head => WithSlot(c)[i].id = Id(c)
<1>1. /\ WithSlot(c) \in Seq(Slots)
      /\ ~heard[c].head => WithSlot(c)[i].args = <<>>
      /\ heard[c].head => /\ WithSlot(c)[i].id = Id(c)
                          /\ WithSlot(c)[i].args = [j \in 1 .. heard[c].parts |-> j]
  BY SlotThere
<1>2. WithSlot(c)[i] \in Slots
  BY <1>1
<1>3. ~heard[c].head => heard[c].parts = 0
  BY DEF Accumulated
<1> QED
  BY <1>1, <1>2, <1>3

LEMMA SlotFields ==
  ASSUME NEW s \in Slots PROVE s = [call |-> s.call, id |-> s.id, args |-> s.args]
  BY DEF Slots

\* Each fragment adds to its own call.
LEMMA ChatDeltaKeeps ==
  ASSUME ToolInv, NEW c \in 1 .. MaxCalls, ChatDelta(c) PROVE ToolInv'
<1>1. /\ ToolTypeOK /\ Accumulated /\ phase = "streaming" /\ Same
      /\ c \in DOMAIN written /\ ~heard[c].done
  BY DEF ToolInv, ChatDelta, Hears
<1>2. PICK more \in BOOLEAN :
        /\ more => heard[c].parts + 1 <= written[c]
        /\ heard' = [heard EXCEPT ![c].head = TRUE,
                                  ![c].parts = IF more THEN heard[c].parts + 1 ELSE @]
        /\ InSlot(c, LAMBDA s : [s EXCEPT !.id = Id(c),
                      !.args = IF more THEN Append(@, heard[c].parts + 1) ELSE @])
  BY DEF ChatDelta
<1>3. /\ heard \in [DOMAIN written -> Marks] /\ heard[c] \in Marks /\ heard[c].parts \in Nat
      /\ c \in Nat /\ Id(c) \in CallIds /\ written[c] \in Nat
  BY <1>1, CallTyped DEF ToolTypeOK
<1> DEFINE n == IF more THEN heard[c].parts + 1 ELSE heard[c].parts
           mark == [heard[c] EXCEPT !.head = TRUE, !.parts = n]
           slot == [call |-> c, id |-> Id(c), args |-> [j \in 1 .. n |-> j]]
<1>4. n \in Nat /\ n <= written[c]
  BY <1>1, <1>2, <1>3 DEF Accumulated
<1>5. heard' = [heard EXCEPT ![c] = mark]
  BY <1>1, <1>2, <1>3
<1>6. ASSUME NEW s \in Slots, s.call = c, s.args = [j \in 1 .. heard[c].parts |-> j]
      PROVE  [s EXCEPT !.id = Id(c),
                       !.args = IF more THEN Append(s.args, heard[c].parts + 1) ELSE s.args] = slot
  <2> DEFINE a == IF more THEN Append(s.args, heard[c].parts + 1) ELSE s.args
             r == [s EXCEPT !.id = Id(c), !.args = a]
  <2>1. a = [j \in 1 .. n |-> j]
    BY <1>3, <1>6, Fragments
  <2>2. a \in Seq(Nat)
    BY <1>4, <2>1, Fragments
  <2> HIDE DEF n, a
  <2>3. r \in Slots /\ r.call = c /\ r.id = Id(c) /\ r.args = a
    BY <1>3, <1>6, <2>2 DEF Slots
  <2> HIDE DEF r
  <2>4. r = slot
    BY <2>1, <2>3, SlotFields
  <2> QED
    BY <2>4 DEF r, a
<1>7. slots' = [i \in DOMAIN WithSlot(c) |->
                  IF WithSlot(c)[i].call = c THEN slot ELSE WithSlot(c)[i]]
  <2>1. \A i \in DOMAIN WithSlot(c) : WithSlot(c)[i].call = c =>
          WithSlot(c)[i] \in Slots /\ WithSlot(c)[i].args = [j \in 1 .. heard[c].parts |-> j]
    BY <1>1, SlotHolds
  <2> HIDE DEF slot
  <2> QED
    BY <1>2, <1>6, <2>1 DEF InSlot
<1>8. mark \in Marks /\ mark.head /\ mark.parts = n
  BY <1>3, <1>4 DEF Marks
<1> HIDE DEF slot, mark, n
<1>9. slot = [call |-> c, id |-> Id(c), args |-> [j \in 1 .. mark.parts |-> j]]
  BY <1>8 DEF slot
<1>10. ToolTypeOK' /\ Accumulated'
  BY <1>1, <1>4, <1>5, <1>7, <1>8, <1>9, SlotMoves
<1> QED
  BY <1>1, <1>10, FragmentKeeps DEF ToolInv

LEMMA ItemAddedKeeps ==
  ASSUME ToolInv, NEW c \in 1 .. MaxCalls, ItemAdded(c) PROVE ToolInv'
<1>1. /\ ToolTypeOK /\ Accumulated /\ phase = "streaming" /\ Same
      /\ c \in DOMAIN written /\ ~heard[c].head
      /\ heard' = [heard EXCEPT ![c].head = TRUE]
      /\ InSlot(c, LAMBDA s : [s EXCEPT !.id = Id(c), !.args = <<>>])
  BY DEF ToolInv, ItemAdded, Hears
<1>2. /\ heard \in [DOMAIN written -> Marks] /\ heard[c] \in Marks /\ heard[c].parts = 0
      /\ c \in Nat /\ Id(c) \in CallIds /\ written[c] \in Nat
  BY <1>1, CallTyped DEF ToolTypeOK, Accumulated
<1> DEFINE mark == [heard[c] EXCEPT !.head = TRUE]
           slot == [call |-> c, id |-> Id(c), args |-> <<>>]
<1>3. heard' = [heard EXCEPT ![c] = mark]
  BY <1>1, <1>2
<1>4. ASSUME NEW s \in Slots, s.call = c PROVE [s EXCEPT !.id = Id(c), !.args = <<>>] = slot
  <2> DEFINE r == [s EXCEPT !.id = Id(c), !.args = <<>>]
  <2>1. r \in Slots /\ r.call = c /\ r.id = Id(c) /\ r.args = <<>>
    <3>1. <<>> \in Seq(Nat)
      OBVIOUS
    <3> QED
      BY <1>2, <1>4, <3>1 DEF Slots
  <2> HIDE DEF r
  <2>2. r = slot
    BY <2>1, SlotFields
  <2> QED
    BY <2>2 DEF r
<1>5. slots' = [i \in DOMAIN WithSlot(c) |->
                  IF WithSlot(c)[i].call = c THEN slot ELSE WithSlot(c)[i]]
  <2>1. \A i \in DOMAIN WithSlot(c) : WithSlot(c)[i].call = c => WithSlot(c)[i] \in Slots
    BY <1>1, SlotHolds
  <2> HIDE DEF slot
  <2> QED
    BY <1>1, <1>4, <2>1 DEF InSlot
<1>6. mark \in Marks /\ mark.head /\ mark.parts = 0 /\ mark.parts <= written[c]
  <2>1. mark \in Marks
    BY <1>2 DEF Marks
  <2>2. mark.head = TRUE /\ mark.parts = heard[c].parts
    BY <1>2 DEF Marks
  <2> HIDE DEF mark
  <2> QED
    BY <1>2, <2>1, <2>2
<1> HIDE DEF slot, mark
<1>7. slot = [call |-> c, id |-> Id(c), args |-> [j \in 1 .. mark.parts |-> j]]
  BY <1>6 DEF slot
<1>8. ToolTypeOK' /\ Accumulated'
  <2>1. ToolTypeOK /\ Accumulated /\ phase = "streaming" /\ Same /\ c \in DOMAIN written
    BY <1>1
  <2> QED
    BY <1>3, <1>5, <1>6, <1>7, <2>1, SlotMoves
<1> QED
  BY <1>1, <1>8, FragmentKeeps DEF ToolInv

LEMMA ArgumentsDeltaKeeps ==
  ASSUME ToolInv, NEW c \in 1 .. MaxCalls, ArgumentsDelta(c) PROVE ToolInv'
<1>1. /\ ToolTypeOK /\ Accumulated /\ phase = "streaming" /\ Same
      /\ c \in DOMAIN written /\ heard[c].head /\ heard[c].parts < written[c]
      /\ heard' = [heard EXCEPT ![c].parts = @ + 1]
      /\ InSlot(c, LAMBDA s : [s EXCEPT !.args = Append(@, heard[c].parts + 1)])
  BY DEF ToolInv, ArgumentsDelta, Hears
<1>2. /\ heard \in [DOMAIN written -> Marks] /\ heard[c] \in Marks /\ heard[c].parts \in Nat
      /\ c \in Nat /\ Id(c) \in CallIds /\ written[c] \in Nat
  BY <1>1, CallTyped DEF ToolTypeOK
<1> DEFINE n == heard[c].parts + 1
           mark == [heard[c] EXCEPT !.parts = n]
           slot == [call |-> c, id |-> Id(c), args |-> [j \in 1 .. n |-> j]]
<1>3. heard' = [heard EXCEPT ![c] = mark]
  BY <1>1, <1>2
<1>4. ASSUME NEW s \in Slots, s.call = c, s.id = Id(c),
             s.args = [j \in 1 .. heard[c].parts |-> j]
      PROVE  [s EXCEPT !.args = Append(s.args, heard[c].parts + 1)] = slot
  <2> DEFINE a == Append(s.args, heard[c].parts + 1)
             r == [s EXCEPT !.args = a]
  <2>1. a = [j \in 1 .. n |-> j] /\ a \in Seq(Nat)
    BY <1>2, <1>4, Fragments
  <2> HIDE DEF n, a
  <2>2. r \in Slots /\ r.call = c /\ r.id = Id(c) /\ r.args = a
    BY <1>4, <2>1 DEF Slots
  <2> HIDE DEF r
  <2>3. r = slot
    BY <2>1, <2>2, SlotFields
  <2> QED
    BY <2>3 DEF r, a
<1>5. slots' = [i \in DOMAIN WithSlot(c) |->
                  IF WithSlot(c)[i].call = c THEN slot ELSE WithSlot(c)[i]]
  <2>1. \A i \in DOMAIN WithSlot(c) : WithSlot(c)[i].call = c =>
          /\ WithSlot(c)[i] \in Slots /\ WithSlot(c)[i].id = Id(c)
          /\ WithSlot(c)[i].args = [j \in 1 .. heard[c].parts |-> j]
    BY <1>1, SlotHolds
  <2> HIDE DEF slot
  <2> QED
    BY <1>1, <1>4, <2>1 DEF InSlot
<1>6. mark \in Marks /\ mark.head /\ mark.parts = n /\ mark.parts <= written[c]
  BY <1>1, <1>2 DEF Marks
<1> HIDE DEF slot, mark, n
<1>7. slot = [call |-> c, id |-> Id(c), args |-> [j \in 1 .. mark.parts |-> j]]
  BY <1>6 DEF slot
<1>8. ToolTypeOK' /\ Accumulated'
  <2>1. ToolTypeOK /\ Accumulated /\ phase = "streaming" /\ Same /\ c \in DOMAIN written
    BY <1>1
  <2> QED
    BY <1>3, <1>5, <1>6, <1>7, <2>1, SlotMoves
<1> QED
  BY <1>1, <1>8, FragmentKeeps DEF ToolInv

LEMMA ItemDoneKeeps ==
  ASSUME ToolInv, NEW c \in 1 .. MaxCalls, ItemDone(c) PROVE ToolInv'
<1>1. /\ ToolTypeOK /\ Accumulated /\ phase = "streaming" /\ Same
      /\ c \in DOMAIN written /\ heard[c].head /\ heard[c].parts = written[c]
      /\ heard' = [heard EXCEPT ![c].done = TRUE]
      /\ InSlot(c, LAMBDA s : [s EXCEPT !.id = Id(c), !.args = CompletedArgs(s, Wrote(c))])
  BY DEF ToolInv, ItemDone, Hears
<1>2. /\ heard \in [DOMAIN written -> Marks] /\ heard[c] \in Marks
      /\ c \in Nat /\ Id(c) \in CallIds /\ written[c] \in Nat /\ Wrote(c) \in Seq(Nat)
  BY <1>1, CallTyped DEF ToolTypeOK
<1> DEFINE mark == [heard[c] EXCEPT !.done = TRUE]
           slot == [call |-> c, id |-> Id(c), args |-> Wrote(c)]
<1>3. heard' = [heard EXCEPT ![c] = mark]
  BY <1>1, <1>2
<1>4. ASSUME NEW s \in Slots, s.call = c, s.args = [j \in 1 .. heard[c].parts |-> j]
      PROVE  [s EXCEPT !.id = Id(c), !.args = CompletedArgs(s, Wrote(c))] = slot
  <2> DEFINE r == [s EXCEPT !.id = Id(c), !.args = CompletedArgs(s, Wrote(c))]
  <2>1. CompletedArgs(s, Wrote(c)) = Wrote(c)
    BY <1>1, <1>4 DEF CompletedArgs, Wrote
  <2>2. r \in Slots /\ r.call = c /\ r.id = Id(c) /\ r.args = Wrote(c)
    BY <1>2, <1>4, <2>1 DEF Slots
  <2> HIDE DEF r
  <2>3. r = slot
    BY <2>2, SlotFields
  <2> QED
    BY <2>3 DEF r
<1>5. slots' = [i \in DOMAIN WithSlot(c) |->
                  IF WithSlot(c)[i].call = c THEN slot ELSE WithSlot(c)[i]]
  <2>1. \A i \in DOMAIN WithSlot(c) : WithSlot(c)[i].call = c =>
          WithSlot(c)[i] \in Slots /\ WithSlot(c)[i].args = [j \in 1 .. heard[c].parts |-> j]
    BY <1>1, SlotHolds
  <2> HIDE DEF slot
  <2> QED
    BY <1>1, <1>4, <2>1 DEF InSlot
<1>6. mark \in Marks /\ mark.head /\ mark.parts = written[c] /\ mark.parts <= written[c]
  <2>1. mark \in Marks
    BY <1>2 DEF Marks
  <2>2. mark.head = heard[c].head /\ mark.parts = heard[c].parts
    BY <1>2 DEF Marks
  <2> HIDE DEF mark
  <2> QED
    BY <1>1, <1>2, <2>1, <2>2
<1> HIDE DEF slot, mark
<1>7. slot = [call |-> c, id |-> Id(c), args |-> [j \in 1 .. mark.parts |-> j]]
  BY <1>6 DEF slot, Wrote
<1>8. ToolTypeOK' /\ Accumulated'
  <2>1. ToolTypeOK /\ Accumulated /\ phase = "streaming" /\ Same /\ c \in DOMAIN written
    BY <1>1
  <2> QED
    BY <1>3, <1>5, <1>6, <1>7, <2>1, SlotMoves
<1> QED
  BY <1>1, <1>8, FragmentKeeps DEF ToolInv


-----------------------------------------------------------------------------
(* The ends of a generation. *)

\* The names and calls of the messages are typed.
LEMMA MessagesTyped ==
  ASSUME ToolTypeOK
  PROVE  /\ \A i \in DOMAIN messages :
              /\ messages[i].id \in CallIds /\ messages[i].calls \in Seq(Calls)
              /\ \A k \in DOMAIN messages[i].calls :
                   messages[i].calls[k] \in Calls /\ messages[i].calls[k].id \in CallIds
         /\ \A i \in DOMAIN sources : sources[i] \in Sources /\ sources[i].text \in CallIds
<1>1. messages \in Seq(Messages) /\ sources \in Seq(Sources)
  BY DEF ToolTypeOK
<1>2. \A i \in DOMAIN messages : messages[i].id \in CallIds /\ messages[i].calls \in Seq(Calls)
  <2>1. \A i \in DOMAIN messages : messages[i] \in Messages
    BY <1>1
  <2> QED
    BY <2>1 DEF Messages
<1>3. \A calls \in Seq(Calls) : \A k \in DOMAIN calls : calls[k] \in Calls /\ calls[k].id \in CallIds
  <2>1. \A call \in Calls : call.id \in CallIds
    BY DEF Calls
  <2>2. \A calls \in Seq(Calls) : \A k \in DOMAIN calls : calls[k] \in Calls
    OBVIOUS
  <2> QED
    BY <2>1, <2>2
<1>4. \A i \in DOMAIN sources : sources[i] \in Sources
  BY <1>1
<1> QED
  BY <1>2, <1>3, <1>4 DEF Sources

\* Old names stay old.
LEMMA NamesAge ==
  ASSUME ToolTypeOK, Named, messages' = messages, sources' = sources,
         \A id \in CallIds : Old(id) => Old(id)'
  PROVE  Named'
<1>1. ASSUME NEW i \in DOMAIN messages
      PROVE  /\ Old(messages[i].id)'
             /\ \A k \in DOMAIN messages'[i].calls : Old(messages[i].calls[k].id)'
  BY MessagesTyped DEF Named, Old
<1>2. ASSUME NEW i \in DOMAIN sources PROVE Old(sources[i].text)'
  BY MessagesTyped DEF Named, Old
<1>3. Old(NoId)'
  BY DEF Named, NoId, CallIds
<1> QED
  BY <1>1, <1>2, <1>3 DEF Named, Old

LEMMA BeginKeeps == ASSUME ToolInv, Begin PROVE ToolInv'
<1>1. /\ phase' = "streaming" /\ round' = round + 1 /\ phase = "idle"
      /\ heard' = [c \in DOMAIN written' |-> [head |-> FALSE, parts |-> 0, done |-> FALSE]]
      /\ slots' = <<>> /\ cut' = FALSE
      /\ UNCHANGED <<api, pending, messages, sources, ran>>
  BY DEF Begin
<1>2. written' \in Seq(Nat)
  <2>1. PICK n \in 0 .. MaxCalls : written' \in [1 .. n -> 0 .. MaxParts]
    BY DEF Begin
  <2>2. n \in Nat /\ 0 .. MaxParts \subseteq Nat
    BY ToolCallsAssumption
  <2>3. written' \in [1 .. n -> Nat]
    BY <2>1, <2>2
  <2> QED
    BY <2>2, <2>3
<1>3. \A d \in DOMAIN written' : /\ ~heard'[d].head /\ heard'[d].parts = 0 /\ ~heard'[d].done
                                 /\ heard'[d] \in Marks
  BY <1>1 DEF Marks
<1>4. ToolTypeOK'
  <2>1. heard' \in [DOMAIN written' -> Marks]
    BY <1>1, <1>3
  <2>2. slots' \in Seq(Slots)
    BY <1>1
  <2>3. round' \in Nat
    BY <1>1 DEF ToolInv, ToolTypeOK
  <2> QED
    BY <1>1, <1>2, <2>1, <2>2, <2>3 DEF ToolInv, ToolTypeOK
<1>5. Accumulated'
  <2>1. \A d \in DOMAIN written' : heard'[d].parts <= written'[d]
    <3> DEFINE w == written'
    <3>1. \A d \in DOMAIN w : w[d] \in Nat /\ 0 <= w[d]
      <4>1. w \in Seq(Nat)
        BY <1>2
      <4> HIDE DEF w
      <4> QED
        BY <4>1
    <3> QED
      BY <1>3, <3>1
  <2>2. DOMAIN slots' = {}
    BY <1>1
  <2> QED
    BY <1>3, <2>1, <2>2 DEF Accumulated
<1>6. PendingAsWritten'
  BY <1>1 DEF PendingAsWritten
<1>7. Replayed'
  BY <1>1 DEF ToolInv, Replayed
<1>8. Named'
  <2>1. \A id \in CallIds : Old(id) => Old(id)'
    BY <1>1 DEF Old, CallIds, ToolInv, ToolTypeOK
  <2> QED
    BY <1>1, <2>1, NamesAge DEF ToolInv
<1>9. NumbersStand(sources, sources)'
  BY <1>1 DEF ToolInv
<1> QED
  BY <1>4, <1>5, <1>6, <1>7, <1>8, <1>9 DEF ToolInv

LEMMA StreamFailsKeeps == ASSUME ToolInv, StreamFails PROVE ToolInv'
<1>1. /\ phase = "streaming" /\ phase' = "ended" /\ Forget
      /\ UNCHANGED <<api, round, pending, messages, sources, ran>>
  BY DEF StreamFails
<1>2. ToolTypeOK'
  <2>1. <<>> \in Seq(Nat) /\ <<>> \in Seq(Slots) /\ <<>> \in [DOMAIN <<>> -> Marks]
    OBVIOUS
  <2> QED
    BY <1>1, <2>1 DEF ToolInv, ToolTypeOK, Forget
<1>3. Accumulated' /\ PendingAsWritten'
  BY <1>1 DEF Accumulated, PendingAsWritten
<1>4. Replayed'
  BY <1>1 DEF ToolInv, Replayed
<1>5. Named'
  <2>1. \A id \in CallIds : Old(id) => Old(id)'
    BY <1>1 DEF Old, CallIds, ToolInv, ToolTypeOK
  <2> QED
    BY <1>1, <2>1, NamesAge DEF ToolInv
<1>6. NumbersStand(sources, sources)'
  BY <1>1 DEF ToolInv
<1> QED
  BY <1>2, <1>3, <1>4, <1>5, <1>6 DEF ToolInv

\* The numbers of the list are its places, and its highest is its length.
LEMMA HighestIsLast ==
  ASSUME ToolTypeOK, NumbersStand(sources, sources) PROVE Highest = Len(sources)
<1> DEFINE S == {0} \cup {sources[i].index : i \in DOMAIN sources}
<1>1. Len(sources) \in Nat /\ DOMAIN sources = 1 .. Len(sources)
  <2>1. sources \in Seq(Sources)
    BY DEF ToolTypeOK
  <2> QED
    BY <2>1
<1>2. \A i \in DOMAIN sources : sources[i].index = i
  BY DEF NumbersStand
<1>3. S = 0 .. Len(sources)
  BY <1>1, <1>2
<1> HIDE DEF S
<1>4. Highest = CHOOSE x \in S : \A y \in S : x >= y
  BY DEF Highest, Max, S
<1>5. Len(sources) \in S /\ \A y \in S : Len(sources) >= y
  BY <1>1, <1>3
<1> DEFINE m == CHOOSE x \in S : \A y \in S : x >= y
<1>6. m \in S /\ \A y \in S : m >= y
  BY <1>5
<1> HIDE DEF m
<1>7. m = Len(sources)
  <2>1. m \in Int /\ m <= Len(sources) /\ m >= Len(sources) /\ Len(sources) \in Int
    BY <1>1, <1>3, <1>5, <1>6
  <2> QED
    BY <2>1
<1> QED
  BY <1>4, <1>7 DEF m

\* What goes on from the highest number, and keeps its own texts in order, makes the
\* numbers stand.
LEMMA NumbersGoOn ==
  ASSUME NEW old \in Seq(Sources), NEW added \in Seq(Sources), NumbersStand(old, old),
         \A i \in DOMAIN added : added[i].index = Len(old) + i,
         \A i, j \in DOMAIN added :
           added[i].shown # 0 /\ added[j].shown # 0 /\ added[i].text = added[j].text =>
             i + added[j].shown = j + added[i].shown,
         \A i \in DOMAIN old, j \in DOMAIN added :
           added[j].shown # 0 => old[i].text # added[j].text
  PROVE  NumbersStand(old, old \o added) /\ NumbersStand(old \o added, old \o added)
<1> DEFINE new == old \o added
<1>1. /\ new \in Seq(Sources) /\ Len(old) \in Nat /\ Len(added) \in Nat
      /\ Len(new) = Len(old) + Len(added)
      /\ DOMAIN new = 1 .. Len(new) /\ DOMAIN old = 1 .. Len(old) /\ DOMAIN added = 1 .. Len(added)
      /\ \A i \in DOMAIN old : new[i] = old[i]
      /\ \A j \in DOMAIN added : new[Len(old) + j] = added[j]
  OBVIOUS
<1>2. SubSeq(new, 1, Len(old)) = old /\ SubSeq(new, 1, Len(new)) = new
  BY SMT
<1> HIDE DEF new
<1>3. \A i \in DOMAIN new : i \notin DOMAIN old => i - Len(old) \in DOMAIN added
                                                   /\ i = Len(old) + (i - Len(old))
  BY <1>1
<1>4. \A i \in DOMAIN new : new[i].index = i
  BY <1>1, <1>3 DEF NumbersStand
<1>5. \A s \in Sources : s.shown \in Nat
  BY DEF Sources
<1>6. \A i \in DOMAIN added : added[i].shown \in Nat
  <2>1. \A i \in DOMAIN added : added[i] \in Sources
    OBVIOUS
  <2> QED
    BY <1>5, <2>1
<1>7. ASSUME NEW i \in DOMAIN new, NEW j \in DOMAIN new,
             new[i].shown # 0, new[j].shown # 0, new[i].text = new[j].text
      PROVE  i + new[j].shown = j + new[i].shown
  <2>1. CASE i \in DOMAIN old /\ j \in DOMAIN old
    BY <1>1, <1>7, <2>1 DEF NumbersStand
  <2>2. CASE i \in DOMAIN old /\ j \notin DOMAIN old
    BY <1>1, <1>3, <1>7, <2>2
  <2>3. CASE i \notin DOMAIN old /\ j \in DOMAIN old
    BY <1>1, <1>3, <1>7, <2>3
  <2>4. CASE i \notin DOMAIN old /\ j \notin DOMAIN old
    <3> DEFINE a == i - Len(old)
               b == j - Len(old)
    <3>1. /\ a \in DOMAIN added /\ b \in DOMAIN added /\ i = Len(old) + a /\ j = Len(old) + b
          /\ a \in Int /\ b \in Int
      BY <1>1, <1>3, <2>4
    <3> HIDE DEF a, b
    <3>2. new[i] = added[a] /\ new[j] = added[b]
      BY <1>1, <3>1
    <3>3. a + added[b].shown = b + added[a].shown
      BY <1>7, <3>1, <3>2
    <3>4. added[a].shown \in Nat /\ added[b].shown \in Nat /\ Len(old) \in Nat
      BY <1>1, <1>6, <3>1
    <3>5. (Len(old) + a) + added[b].shown = (Len(old) + b) + added[a].shown
      <4> DEFINE x == added[a].shown
                 y == added[b].shown
                 n == Len(old)
      <4>1. x \in Int /\ y \in Int /\ n \in Int /\ a \in Int /\ b \in Int /\ a + y = b + x
        BY <3>1, <3>3, <3>4
      <4> HIDE DEF x, y, n
      <4>2. (n + a) + y = (n + b) + x
        BY <4>1
      <4> QED
        BY <4>2 DEF x, y, n
    <3> QED
      BY <3>1, <3>2, <3>5
  <2> QED
    BY <2>1, <2>2, <2>3, <2>4
<1>8. NumbersStand(old, new) /\ NumbersStand(new, new)
  BY <1>2, <1>4, <1>7 DEF NumbersStand
<1> QED
  BY <1>8 DEF new

\* sorted: each slot has one place.
LEMMA ByCallSorts ==
  ASSUME ToolTypeOK, Accumulated, phase = "streaming"
  PROVE  /\ ByCall \in [DOMAIN slots -> DOMAIN slots]
         /\ \A k, l \in DOMAIN slots : ByCall[k] = ByCall[l] => k = l
         /\ \A i \in DOMAIN slots : \E k \in DOMAIN slots : ByCall[k] = i
<1> DEFINE D == DOMAIN slots
           n == Len(slots)
           v == [i \in D |-> slots[i].call]
<1>1. n \in Nat /\ D = 1 .. n /\ slots \in Seq(Slots)
  <2>1. slots \in Seq(Slots)
    BY DEF ToolTypeOK
  <2> QED
    BY <2>1
<1>2. \A i \in D : v[i] = slots[i].call /\ v[i] \in Nat
  <2>1. \A i \in D : slots[i] \in Slots
    BY <1>1
  <2> QED
    BY <2>1 DEF Slots
<1>3. v \in [1 .. n -> Nat] /\ \A i, j \in 1 .. n : v[i] = v[j] => i = j
  BY <1>1, <1>2 DEF Accumulated
<1> HIDE DEF v, n
<1>4. PICK p \in [1 .. n -> 1 .. n] : \A i, j \in 1 .. n : i < j => v[p[i]] < v[p[j]]
  BY <1>1, <1>3, Sortable
<1>5. p \in [D -> D] /\ \A i, j \in D : i < j => slots[p[i]].call < slots[p[j]].call
  <2>1. \A i \in 1 .. n : p[i] \in D
    BY <1>1, <1>4
  <2> HIDE DEF D
  <2> QED
    BY <1>1, <1>2, <1>4, <2>1
<1>6. ByCall \in [D -> D] /\ \A i, j \in D : i < j => slots[ByCall[i]].call < slots[ByCall[j]].call
  BY <1>5 DEF ByCall
<1> DEFINE q == ByCall
<1>7. q \in [D -> D] /\ \A i, j \in D : i < j => slots[q[i]].call < slots[q[j]].call
  BY <1>6
<1> HIDE DEF q, D
<1>8. \A i \in D : q[i] \in D /\ slots[q[i]].call \in Nat
  BY <1>2, <1>7
<1>9. \A k, l \in D : q[k] = q[l] => k = l
  <2>1. \A k, l \in D : k < l \/ l < k \/ k = l
    BY <1>1
  <2> QED
    BY <1>7, <1>8, <2>1
<1>10. q \in Surjection(D, D)
  <2>1. IsFiniteSet(D)
    BY <1>1, FS_Interval
  <2>2. q \in Injection(D, D)
    BY <1>7, <1>9 DEF Injection, IsInjective
  <2> QED
    BY <2>1, <2>2, FS_Injection
<1> QED
  BY <1>7, <1>9, <1>10 DEF Surjection, q, D

\* The calls that are made are the slots, each once.
LEMMA Finalized ==
  ASSUME ToolTypeOK, Accumulated, phase = "streaming"
  PROVE  \E p \in [DOMAIN slots -> DOMAIN slots] :
           /\ \A k, l \in DOMAIN slots : p[k] = p[l] => k = l
           /\ \A i \in DOMAIN slots : \E k \in DOMAIN slots : p[k] = i
           /\ Finalize = [k \in DOMAIN slots |->
                [id |-> slots[p[k]].id,
                 args |-> IF slots[p[k]].args = Wrote(slots[p[k]].call)
                            THEN slots[p[k]].args ELSE <<>>]]
<1> DEFINE D == DOMAIN slots
           Call(s) == [id |-> s.id, args |-> IF s.args = Wrote(s.call) THEN s.args ELSE <<>>]
           order == IF api = "chat" THEN [k \in D |-> slots[ByCall[k]]] ELSE slots
<1>1. Finalize = [k \in DOMAIN order |-> Call(order[k])]
  BY DEF Finalize
<1>2. \E p \in [D -> D] : /\ \A k, l \in D : p[k] = p[l] => k = l
                          /\ \A i \in D : \E k \in D : p[k] = i
                          /\ order = [k \in D |-> slots[p[k]]]
  <2>1. CASE api = "chat"
    BY <2>1, ByCallSorts
  <2>2. CASE api # "chat"
    <3> DEFINE p == [k \in D |-> k]
    <3>1. p \in [D -> D] /\ \A k \in D : p[k] = k
      OBVIOUS
    <3>2. slots = [k \in D |-> slots[k]]
      <4>1. slots \in Seq(Slots)
        BY DEF ToolTypeOK
      <4> QED
        BY <4>1
    <3> HIDE DEF p, D
    <3>3. order = [k \in D |-> slots[p[k]]]
      BY <2>2, <3>1, <3>2
    <3> HIDE DEF order
    <3> QED
      BY <3>1, <3>3
  <2> QED
    BY <2>1, <2>2
<1>3. PICK p \in [D -> D] : /\ \A k, l \in D : p[k] = p[l] => k = l
                            /\ \A i \in D : \E k \in D : p[k] = i
                            /\ order = [k \in D |-> slots[p[k]]]
  BY <1>2
<1> HIDE DEF order
<1>4. Finalize = [k \in D |-> Call(slots[p[k]])]
  <2> HIDE DEF Call
  <2> QED
    BY <1>1, <1>3
<1> QED
  BY <1>3, <1>4

\* Where the list goes on, its texts are those it had or those that were added.
LEMMA TextsOf ==
  ASSUME NEW old \in Seq(Sources), NEW added \in Seq(Sources)
  PROVE  /\ old \o added \in Seq(Sources)
         /\ \A i \in DOMAIN (old \o added) :
              \/ \E j \in DOMAIN old : (old \o added)[i].text = old[j].text
              \/ \E j \in DOMAIN added : (old \o added)[i].text = added[j].text
<1> DEFINE new == old \o added
<1>1. /\ new \in Seq(Sources) /\ Len(old) \in Nat /\ Len(added) \in Nat
      /\ Len(new) = Len(old) + Len(added)
      /\ DOMAIN new = 1 .. Len(new) /\ DOMAIN old = 1 .. Len(old) /\ DOMAIN added = 1 .. Len(added)
      /\ \A i \in DOMAIN old : new[i] = old[i]
      /\ \A j \in DOMAIN added : new[Len(old) + j] = added[j]
  OBVIOUS
<1> HIDE DEF new
<1>2. \A i \in DOMAIN new : i \notin DOMAIN old => i - Len(old) \in DOMAIN added
                                                   /\ i = Len(old) + (i - Len(old))
  BY <1>1
<1>3. ASSUME NEW i \in DOMAIN new
      PROVE  \/ \E j \in DOMAIN old : new[i].text = old[j].text
             \/ \E j \in DOMAIN added : new[i].text = added[j].text
  <2>1. CASE i \in DOMAIN old
    BY <1>1, <2>1
  <2>2. CASE i \notin DOMAIN old
    <3>1. new[i] = added[i - Len(old)] /\ i - Len(old) \in DOMAIN added
      BY <1>1, <1>2, <2>2
    <3> QED
      BY <3>1
  <2> QED
    BY <2>1, <2>2
<1> QED
  BY <1>1, <1>3 DEF new

LEMMA SourceTyped ==
  ASSUME NEW index \in Nat, NEW kind \in Tools, NEW url \in Urls \cup {""},
         NEW shown \in Nat, NEW text \in CallIds
  PROVE  /\ Source(index, kind, url, shown, text) \in Sources
         /\ Source(index, kind, url, shown, text).index = index
         /\ Source(index, kind, url, shown, text).shown = shown
         /\ Source(index, kind, url, shown, text).text = text
  BY DEF Source, Sources

\* Citations take the next numbers, and no text shows them.
LEMMA CitationsStand ==
  ASSUME ToolTypeOK, NumbersStand(sources, sources),
         NEW cited \in SUBSET Urls, NEW new \in AppendCitations(cited)
  PROVE  /\ new \in Seq(Sources) /\ NumbersStand(sources, new) /\ NumbersStand(new, new)
         /\ \A i \in DOMAIN new :
              new[i].text = NoId \/ \E j \in DOMAIN sources : new[i].text = sources[j].text
<1> DEFINE S == {u \in cited : \A i \in DOMAIN sources : sources[i].url # u}
           n == Cardinality(S)
<1>1. PICK urls \in SetToSeqs(S) :
        new = sources \o [i \in DOMAIN urls |-> Source(Highest + i, "web", urls[i], 0, NoId)]
  BY DEF AppendCitations
<1>2. S \in SUBSET Urls
  OBVIOUS
<1>3. urls \in [1 .. n -> S]
  BY <1>1 DEF SetToSeqs
<1> HIDE DEF S
<1>4. n \in Nat
  BY <1>2, ToolCallsAssumption, FS_Subset, FS_CardinalityType
<1> DEFINE added == [i \in 1 .. n |-> Source(Highest + i, "web", urls[i], 0, NoId)]
<1>5. new = sources \o added
  BY <1>1, <1>3
<1>6. Highest = Len(sources) /\ Len(sources) \in Nat /\ sources \in Seq(Sources)
  <2>1. sources \in Seq(Sources)
    BY DEF ToolTypeOK
  <2> QED
    BY <2>1, HighestIsLast
<1> HIDE DEF n
<1>7. ASSUME NEW i \in 1 .. n
      PROVE  /\ added[i] \in Sources /\ added[i].index = Len(sources) + i
             /\ added[i].shown = 0 /\ added[i].text = NoId
  <2>1. added[i] = Source(Len(sources) + i, "web", urls[i], 0, NoId)
    BY <1>6
  <2>2. urls[i] \in Urls \cup {""} /\ Len(sources) + i \in Nat
    <3>1. urls[i] \in S
      BY <1>3
    <3>2. i \in Nat
      BY <1>4
    <3>3. urls[i] \in Urls \cup {""}
      BY <1>2, <3>1
    <3>4. Len(sources) + i \in Nat
      BY <1>6, <3>2
    <3> QED
      BY <3>3, <3>4
  <2>3. "web" \in Tools /\ NoId \in CallIds /\ 0 \in Nat
    BY DEF Tools, NoId, CallIds
  <2> DEFINE index == Len(sources) + i
             url == urls[i]
  <2>4. added[i] = Source(index, "web", url, 0, NoId) /\ index \in Nat /\ url \in Urls \cup {""}
    BY <2>1, <2>2
  <2> HIDE DEF added, index, url
  <2>5. /\ added[i] \in Sources /\ added[i].index = index
        /\ added[i].shown = 0 /\ added[i].text = NoId
    <3>1. LET s == Source(index, "web", url, 0, NoId) IN
          s \in Sources /\ s.index = index /\ s.shown = 0 /\ s.text = NoId
      BY <2>3, <2>4 DEF Source, Sources
    <3> QED
      BY <2>4, <3>1
  <2> QED
    BY <2>5 DEF index
<1>8. DOMAIN added = 1 .. n
  OBVIOUS
<1>9. added \in Seq(Sources)
  <2>1. added \in [1 .. n -> Sources]
    <3>1. added = [i \in 1 .. n |-> added[i]]
      OBVIOUS
    <3> HIDE DEF added
    <3> QED
      BY <1>7, <3>1
  <2> HIDE DEF added
  <2> QED
    BY <1>4, <2>1
<1> HIDE DEF added
<1>10. NumbersStand(sources, new) /\ NumbersStand(new, new)
  BY <1>5, <1>6, <1>7, <1>8, <1>9, NumbersGoOn
<1>11. new \in Seq(Sources) /\ \A i \in DOMAIN new :
         new[i].text = NoId \/ \E j \in DOMAIN sources : new[i].text = sources[j].text
  <2>1. /\ new \in Seq(Sources)
        /\ \A i \in DOMAIN new : \/ \E j \in DOMAIN sources : new[i].text = sources[j].text
                                 \/ \E j \in DOMAIN added : new[i].text = added[j].text
    BY <1>5, <1>6, <1>9, TextsOf
  <2>2. \A j \in DOMAIN added : added[j].text = NoId
    BY <1>7, <1>8
  <2> QED
    BY <2>1, <2>2
<1> QED
  BY <1>10, <1>11

\* At the end of a generation the calls are those the model wrote.
LEMMA StreamEndsCalls ==
  ASSUME ToolInv, StreamEnds
  PROVE  /\ pending' \in Seq(Calls)
         /\ PendingAsWritten'
<1>1. ToolTypeOK /\ Accumulated /\ phase = "streaming" /\ pending' = Finalize /\ round' = round
  BY DEF ToolInv, StreamEnds
<1> DEFINE D == DOMAIN slots
           Sent(s) == IF s.args = Wrote(s.call) THEN s.args ELSE <<>>
<1>2. PICK p \in [D -> D] :
        /\ \A k, l \in D : p[k] = p[l] => k = l
        /\ \A i \in D : \E k \in D : p[k] = i
        /\ Finalize = [k \in D |-> [id |-> slots[p[k]].id, args |-> Sent(slots[p[k]])]]
  BY <1>1, Finalized
<1>3. \A i \in D : slots[i] \in Slots
  <2>1. slots \in Seq(Slots)
    BY <1>1 DEF ToolTypeOK
  <2> QED
    BY <2>1
<1>4. \A s \in Slots : s.id \in CallIds /\ Sent(s) \in Seq(Nat)
  BY DEF Slots
<1> DEFINE f == Finalize
<1>5. f = [k \in D |-> [id |-> slots[p[k]].id, args |-> Sent(slots[p[k]])]]
  BY <1>2
<1> HIDE DEF Sent, f
<1>6. \A k \in D : /\ f[k] = [id |-> slots[p[k]].id, args |-> Sent(slots[p[k]])]
                   /\ f[k] \in Calls
                   /\ f[k].id = slots[p[k]].id /\ f[k].args = Sent(slots[p[k]])
  <2>1. \A k \in D : slots[p[k]].id \in CallIds /\ Sent(slots[p[k]]) \in Seq(Nat)
    BY <1>2, <1>3, <1>4
  <2> HIDE DEF D
  <2> QED
    BY <1>5, <2>1 DEF Calls
<1>7. f \in Seq(Calls) /\ DOMAIN f = D
  <2>1. D = 1 .. Len(slots) /\ Len(slots) \in Nat
    <3>1. slots \in Seq(Slots)
      BY <1>1 DEF ToolTypeOK
    <3> QED
      BY <3>1
  <2> HIDE DEF D
  <2>2. f \in [1 .. Len(slots) -> Calls]
    BY <1>5, <1>6, <2>1
  <2> QED
    BY <1>5, <2>1, <2>2
<1>8. ASSUME NEW i \in D
      PROVE  /\ slots[i].call \in DOMAIN written /\ slots[i].id = Id(slots[i].call)
             /\ Sent(slots[i]) = Wrote(slots[i].call) \/ Sent(slots[i]) = <<>>
             /\ Whole(slots[i].call) => Sent(slots[i]) = Wrote(slots[i].call)
  <2>1. /\ slots[i].call \in DOMAIN written /\ slots[i].id = Id(slots[i].call)
        /\ slots[i].args = [j \in 1 .. heard[slots[i].call].parts |-> j]
    BY <1>1 DEF Accumulated
  <2> QED
    BY <2>1 DEF Sent, Whole, Wrote
<1>9. ASSUME phase' = "calling"
      PROVE  /\ written' = written /\ heard' = heard /\ api' = api
             /\ ~cut' => \A c \in DOMAIN written : Whole(c)
  BY <1>9 DEF StreamEnds
<1>10. ASSUME phase' = "calling", NEW k \in D
       PROVE  \E c \in DOMAIN written :
                /\ f[k].id = Id(c)
                /\ f[k].args = Wrote(c) \/ (cut' /\ f[k].args = <<>>)
                /\ \A l \in 1 .. k - 1 : f[l].id # Id(c)
  <2> DEFINE c == slots[p[k]].call
  <2>1. /\ c \in DOMAIN written /\ slots[p[k]].id = Id(c)
        /\ Sent(slots[p[k]]) = Wrote(c) \/ Sent(slots[p[k]]) = <<>>
        /\ Whole(c) => Sent(slots[p[k]]) = Wrote(c)
    BY <1>2, <1>8
  <2>2. f[k].id = slots[p[k]].id /\ f[k].args = Sent(slots[p[k]])
    BY <1>6
  <2>3. ASSUME NEW l \in 1 .. k - 1 PROVE f[l].id # Id(c)
    <3>1. l \in D /\ l # k
      <4>1. D = 1 .. Len(slots) /\ Len(slots) \in Nat
        <5>1. slots \in Seq(Slots)
          BY <1>1 DEF ToolTypeOK
        <5> QED
          BY <5>1
      <4> QED
        BY <4>1
    <3>2. f[l].id = Id(slots[p[l]].call) /\ p[l] \in D /\ p[k] \in D /\ p[l] # p[k]
      BY <1>2, <1>6, <1>8, <3>1
    <3>3. slots[p[l]].call # c
      BY <1>1, <3>2 DEF Accumulated
    <3> QED
      BY <3>2, <3>3 DEF Id
  <2> HIDE DEF c
  <2> QED
    BY <1>9, <1>10, <2>1, <2>2, <2>3
<1>11. ASSUME phase' = "calling", NEW c \in DOMAIN written, ~cut' \/ Whole(c)
       PROVE  \E k \in D : f[k] = [id |-> Id(c), args |-> Wrote(c)]
  <2>1. Whole(c)
    BY <1>9, <1>11
  <2>2. PICK i \in D : slots[i].call = c
    BY <1>1, <2>1 DEF Accumulated, Whole
  <2>3. PICK k \in D : p[k] = i
    BY <1>2
  <2>4. slots[i].id = Id(c) /\ Sent(slots[i]) = Wrote(c)
    BY <1>8, <2>1, <2>2
  <2> QED
    BY <1>6, <2>3, <2>4
<1>12. ASSUME phase' = "calling" PROVE PendingAsWritten'
  <2>1. /\ pending' = f /\ written' = written /\ round' = round /\ heard' = heard /\ api' = api
    BY <1>1, <1>9, <1>12 DEF f
  <2>2. \A c : Id(c)' = Id(c) /\ Wrote(c)' = Wrote(c) /\ (Whole(c)' <=> Whole(c))
    BY <2>1 DEF Id, Wrote, Whole
  <2> QED
    BY <1>7, <1>10, <1>11, <1>12, <2>1, <2>2, ZenonT(60) DEF PendingAsWritten, Id, Wrote, Whole
<1>13. PendingAsWritten'
  BY <1>12 DEF PendingAsWritten
<1> QED
  BY <1>1, <1>7, <1>13 DEF f

LEMMA StreamEndsKeeps == ASSUME ToolInv, StreamEnds PROVE ToolInv' /\ NumbersStand(sources, sources')
<1>1. /\ ToolTypeOK /\ phase = "streaming" /\ phase' \in {"calling", "ended"}
      /\ UNCHANGED <<api, round, messages, ran>>
      /\ Forget \/ UNCHANGED <<written, heard, slots>>
      /\ cut' \in BOOLEAN
      /\ sources' = sources \/ \E cited \in SUBSET Urls : sources' \in AppendCitations(cited)
  BY DEF ToolInv, StreamEnds, Forget
<1>2. /\ sources' \in Seq(Sources)
      /\ NumbersStand(sources, sources') /\ NumbersStand(sources, sources)'
      /\ \A i \in DOMAIN sources' :
           sources'[i].text = NoId \/ \E j \in DOMAIN sources : sources'[i].text = sources[j].text
  <2>1. CASE sources' = sources
    BY <2>1 DEF ToolInv, ToolTypeOK
  <2>2. CASE \E cited \in SUBSET Urls : sources' \in AppendCitations(cited)
    <3>1. PICK cited \in SUBSET Urls : sources' \in AppendCitations(cited)
      BY <2>2
    <3> DEFINE new == sources'
    <3>2. new \in AppendCitations(cited)
      BY <3>1
    <3> HIDE DEF new
    <3>3. /\ new \in Seq(Sources) /\ NumbersStand(sources, new) /\ NumbersStand(new, new)
          /\ \A i \in DOMAIN new :
               new[i].text = NoId \/ \E j \in DOMAIN sources : new[i].text = sources[j].text
      BY <1>1, <3>2, CitationsStand DEF ToolInv
    <3> QED
      BY <3>3 DEF new
  <2> QED
    BY <1>1, <2>1, <2>2
<1>3. pending' \in Seq(Calls) /\ PendingAsWritten'
  BY StreamEndsCalls
<1>4. ToolTypeOK'
  <2>1. <<>> \in Seq(Nat) /\ <<>> \in Seq(Slots) /\ <<>> \in [DOMAIN <<>> -> Marks]
    OBVIOUS
  <2>2. written' \in Seq(Nat) /\ heard' \in [DOMAIN written' -> Marks] /\ slots' \in Seq(Slots)
    BY <1>1, <2>1 DEF Forget, ToolTypeOK
  <2> QED
    BY <1>1, <1>2, <1>3, <2>2 DEF ToolTypeOK
<1>5. Accumulated'
  BY <1>1 DEF Accumulated
<1>6. Replayed'
  BY <1>1 DEF ToolInv, Replayed
<1>7. Named'
  <2>1. round \in Nat /\ round' = round
    BY <1>1 DEF ToolTypeOK
  <2>2. \A id \in CallIds : id[1] < round => id[1] <= round
    BY <2>1 DEF CallIds
  <2>3. \A id \in CallIds : Old(id) => IF phase' \in {"streaming", "calling"} THEN id[1] < round'
                                                                          ELSE id[1] <= round'
    BY <1>1, <2>1, <2>2 DEF Old
  <2>4. ASSUME NEW i \in DOMAIN messages
        PROVE  /\ Old(messages[i].id)'
               /\ \A k \in DOMAIN messages[i].calls : Old(messages[i].calls[k].id)'
    BY <1>1, <2>3, MessagesTyped DEF ToolInv, Named, Old
  <2>5. Old(NoId) /\ NoId \in CallIds
    BY DEF ToolInv, Named, NoId, CallIds
  <2>6. ASSUME NEW i \in DOMAIN sources' PROVE Old(sources[i].text)'
    <3>1. PICK id \in CallIds : sources'[i].text = id /\ Old(id)
      BY <1>1, <1>2, <2>5, MessagesTyped DEF ToolInv, Named
    <3> QED
      BY <2>3, <3>1 DEF Old
  <2> QED
    BY <1>1, <2>3, <2>4, <2>5, <2>6 DEF Named, Old
<1> QED
  BY <1>2, <1>3, <1>4, <1>5, <1>6, <1>7 DEF ToolInv

-----------------------------------------------------------------------------
(* The tools. *)

\* The calls about to run have names of their own, of this generation.
LEMMA PendingNames ==
  ASSUME ToolInv, phase = "calling"
  PROVE  /\ pending \in Seq(Calls)
         /\ \A k \in DOMAIN pending : pending[k].id \in CallIds /\ pending[k].id[1] = round
         /\ \A k, l \in DOMAIN pending : pending[k].id = pending[l].id => k = l
<1>1. pending \in Seq(Calls) /\ DOMAIN pending = 1 .. Len(pending) /\ Len(pending) \in Nat
  <2>1. pending \in Seq(Calls)
    BY DEF ToolInv, ToolTypeOK
  <2> QED
    BY <2>1
<1>2. \A k \in DOMAIN pending : pending[k].id \in CallIds
  <2>1. \A k \in DOMAIN pending : pending[k] \in Calls
    BY <1>1
  <2> QED
    BY <2>1 DEF Calls
<1>3. \A k \in DOMAIN pending : \E c \in DOMAIN written :
        pending[k].id = Id(c) /\ \A l \in 1 .. k - 1 : pending[l].id # Id(c)
  BY DEF ToolInv, PendingAsWritten
<1>4. \A k \in DOMAIN pending : pending[k].id[1] = round
  BY <1>3 DEF Id
<1>5. ASSUME NEW k \in DOMAIN pending, NEW l \in DOMAIN pending, l < k
      PROVE  pending[l].id # pending[k].id
  <2>1. l \in 1 .. k - 1
    BY <1>1, <1>5
  <2> QED
    BY <1>3, <2>1
<1>6. \A k, l \in DOMAIN pending : k < l \/ l < k \/ k = l
  BY <1>1
<1> QED
  BY <1>1, <1>2, <1>4, <1>5, <1>6

\* A result, and the results of one kind in the order of the calls.
NewResults == [kind : Tools, shown : Nat, text : CallIds]
Of(found, kind, k) ==
  IF found[k].kind # kind THEN <<>>
  ELSE [i \in 1 .. found[k].count |-> [kind |-> kind, shown |-> i, text |-> pending[k].id]]

\* The results of one text stand together.
LEMMA ResultsStand ==
  ASSUME ToolInv, phase = "calling", NEW kind \in Tools,
         NEW found \in [DOMAIN pending -> [kind : Tools, count : 0 .. MaxResults]]
  PROVE  LET all == FlattenSeq([k \in DOMAIN found |-> Of(found, kind, k)]) IN
         /\ all \in Seq(NewResults)
         /\ \A p \in DOMAIN all : \E k \in DOMAIN pending :
              found[k].kind = kind /\ all[p].text = pending[k].id
         /\ \A p, q \in DOMAIN all : all[p].text = all[q].text =>
              p + all[q].shown = q + all[p].shown
<1> DEFINE ss == [k \in DOMAIN found |-> Of(found, kind, k)]
           all == FlattenSeq(ss)
           n == Len(pending)
<1>1. /\ pending \in Seq(Calls) /\ n \in Nat /\ DOMAIN pending = 1 .. n /\ DOMAIN found = 1 .. n
      /\ \A k \in 1 .. n : pending[k].id \in CallIds
      /\ \A k, l \in 1 .. n : pending[k].id = pending[l].id => k = l
  BY PendingNames
<1>2. \A k \in 1 .. n : found[k].count \in Nat
  BY <1>1, ToolCallsAssumption
<1> HIDE DEF n
<1>3. ASSUME NEW k \in 1 .. n
      PROVE  /\ ss[k] \in Seq(NewResults)
             /\ \A i \in 1 .. Len(ss[k]) : /\ ss[k][i].shown = i /\ ss[k][i].text = pending[k].id
                                           /\ found[k].kind = kind
  <2>1. ss[k] = Of(found, kind, k)
    BY <1>1
  <2> HIDE DEF ss
  <2>2. CASE found[k].kind # kind
    <3>1. ss[k] = <<>>
      BY <2>1, <2>2 DEF Of
    <3> QED
      BY <3>1
  <2>3. CASE found[k].kind = kind
    <3> DEFINE m == found[k].count
               id == pending[k].id
               t == [i \in 1 .. m |-> [kind |-> kind, shown |-> i, text |-> id]]
    <3>1. ss[k] = t /\ m \in Nat /\ id \in CallIds
      BY <1>1, <1>2, <2>1, <2>3 DEF Of
    <3> HIDE DEF m, id
    <3>2. \A i \in 1 .. m : t[i] \in NewResults /\ t[i].shown = i /\ t[i].text = id
      BY <3>1 DEF NewResults
    <3>3. t \in Seq(NewResults) /\ Len(t) = m
      <4>1. t = [i \in 1 .. m |-> t[i]]
        OBVIOUS
      <4> HIDE DEF t
      <4>2. t \in [1 .. m -> NewResults]
        BY <3>2, <4>1
      <4> QED
        BY <3>1, <4>2
    <3> HIDE DEF t
    <3> QED
      BY <2>3, <3>1, <3>2, <3>3 DEF id
  <2> QED
    BY <2>2, <2>3
<1>4. ss \in Seq(Seq(NewResults)) /\ Len(ss) = n
  <2>1. ss = [k \in 1 .. n |-> ss[k]]
    BY <1>1
  <2>2. n \in Nat
    BY <1>1
  <2> HIDE DEF ss
  <2>3. ss \in [1 .. n -> Seq(NewResults)]
    BY <1>3, <2>1
  <2> QED
    BY <2>2, <2>3
<1> HIDE DEF ss, all
<1>5. all \in Seq(NewResults) /\ \E off : Offsets(n, ss, all, off)
  BY <1>4, FlattenPlaces DEF all
<1>6. PICK off : Offsets(n, ss, all, off)
  BY <1>5
<1>7. DOMAIN all = 1 .. Len(all)
  BY <1>5
<1>8. ASSUME NEW p \in DOMAIN all
      PROVE  \E k \in 1 .. n : \E i \in Nat :
               /\ p = off[k] + i /\ all[p].shown = i
               /\ all[p].text = pending[k].id /\ found[k].kind = kind
  <2>1. PICK k \in 1 .. n : \E i \in 1 .. Len(ss[k]) : p = off[k] + i
    BY <1>6, <1>7 DEF Offsets
  <2>2. PICK i \in 1 .. Len(ss[k]) : p = off[k] + i
    BY <2>1
  <2>3. all[p] = ss[k][i]
    BY <1>6, <2>2 DEF Offsets
  <2>4. i \in Nat
    <3>1. Len(ss[k]) \in Nat
      BY <1>3
    <3> QED
      BY <3>1
  <2> QED
    BY <1>3, <2>2, <2>3, <2>4
<1>9. \A k \in 1 .. n : off[k] \in Nat
  BY <1>6 DEF Offsets
<1>10. ASSUME NEW p \in DOMAIN all, NEW q \in DOMAIN all, all[p].text = all[q].text
       PROVE  p + all[q].shown = q + all[p].shown
  <2>1. PICK k \in 1 .. n : \E i \in Nat : /\ p = off[k] + i /\ all[p].shown = i
                                           /\ all[p].text = pending[k].id
    BY <1>8
  <2>2. PICK l \in 1 .. n : \E i \in Nat : /\ q = off[l] + i /\ all[q].shown = i
                                           /\ all[q].text = pending[l].id
    BY <1>8
  <2>3. k = l
    BY <1>1, <1>10, <2>1, <2>2
  <2> QED
    BY <1>9, <2>1, <2>2, <2>3
<1> QED
  BY <1>1, <1>5, <1>8, <1>10 DEF all, ss

\* So do those of both kinds: a call has results of one kind.
LEMMA FoundStands ==
  ASSUME ToolInv, phase = "calling",
         NEW found \in [DOMAIN pending -> [kind : Tools, count : 0 .. MaxResults]]
  PROVE  /\ Found(found) \in Seq(NewResults)
         /\ \A p \in DOMAIN Found(found) : \E k \in DOMAIN pending :
              Found(found)[p].text = pending[k].id
         /\ \A p, q \in DOMAIN Found(found) : Found(found)[p].text = Found(found)[q].text =>
              p + Found(found)[q].shown = q + Found(found)[p].shown
<1> DEFINE d == FlattenSeq([k \in DOMAIN found |-> Of(found, "document", k)])
           w == FlattenSeq([k \in DOMAIN found |-> Of(found, "web", k)])
           all == d \o w
<1>1. Found(found) = all
  BY DEF Found, Of
<1>2. "document" \in Tools /\ "web" \in Tools
  BY DEF Tools
<1>3. /\ d \in Seq(NewResults)
      /\ \A p \in DOMAIN d : \E k \in DOMAIN pending :
           found[k].kind = "document" /\ d[p].text = pending[k].id
      /\ \A p, q \in DOMAIN d : d[p].text = d[q].text => p + d[q].shown = q + d[p].shown
  BY <1>2, ResultsStand
<1>4. /\ w \in Seq(NewResults)
      /\ \A p \in DOMAIN w : \E k \in DOMAIN pending :
           found[k].kind = "web" /\ w[p].text = pending[k].id
      /\ \A p, q \in DOMAIN w : w[p].text = w[q].text => p + w[q].shown = q + w[p].shown
  BY <1>2, ResultsStand
<1> HIDE DEF d, w
<1>5. \A k, l \in DOMAIN pending : pending[k].id = pending[l].id => k = l
  BY PendingNames
<1>6. \A p \in DOMAIN d, q \in DOMAIN w : d[p].text # w[q].text
  <2> SUFFICES ASSUME NEW p \in DOMAIN d, NEW q \in DOMAIN w, d[p].text = w[q].text PROVE FALSE
    OBVIOUS
  <2>1. PICK k \in DOMAIN pending : found[k].kind = "document" /\ d[p].text = pending[k].id
    BY <1>3
  <2>2. PICK l \in DOMAIN pending : found[l].kind = "web" /\ w[q].text = pending[l].id
    BY <1>4
  <2>3. k = l
    BY <1>5, <2>1, <2>2
  <2> QED
    BY <2>1, <2>2, <2>3
<1>7. /\ all \in Seq(NewResults) /\ Len(d) \in Nat /\ Len(w) \in Nat
      /\ DOMAIN d = 1 .. Len(d) /\ DOMAIN w = 1 .. Len(w) /\ DOMAIN all = 1 .. Len(d) + Len(w)
      /\ \A p \in DOMAIN d : all[p] = d[p]
      /\ \A p \in DOMAIN w : all[Len(d) + p] = w[p]
  BY <1>3, <1>4
<1> HIDE DEF all
<1>8. \A r \in NewResults : r.shown \in Nat
  BY DEF NewResults
<1>9. /\ \A p \in DOMAIN d : d[p].shown \in Nat
      /\ \A p \in DOMAIN w : w[p].shown \in Nat
  <2>1. /\ \A p \in DOMAIN d : d[p] \in NewResults
        /\ \A p \in DOMAIN w : w[p] \in NewResults
    BY <1>3, <1>4
  <2> QED
    BY <1>8, <2>1
<1>10. ASSUME NEW p \in DOMAIN all
       PROVE  p \in DOMAIN d \/ \E a \in DOMAIN w : p = Len(d) + a
  <2>1. CASE p <= Len(d)
    BY <1>7, <2>1
  <2>2. CASE ~(p <= Len(d))
    <3>1. p - Len(d) \in DOMAIN w /\ p = Len(d) + (p - Len(d))
      BY <1>7, <2>2
    <3> QED
      BY <3>1
  <2> QED
    BY <2>1, <2>2
<1>11. ASSUME NEW p \in DOMAIN all PROVE \E k \in DOMAIN pending : all[p].text = pending[k].id
  <2>1. CASE p \in DOMAIN d
    BY <1>3, <1>7, <2>1
  <2>2. CASE \E a \in DOMAIN w : p = Len(d) + a
    <3>1. PICK a \in DOMAIN w : p = Len(d) + a
      BY <2>2
    <3>2. all[p] = w[a]
      BY <1>7, <3>1
    <3> QED
      BY <1>4, <3>2
  <2> QED
    BY <1>10, <2>1, <2>2
<1>12. ASSUME NEW p \in DOMAIN all, NEW q \in DOMAIN all, all[p].text = all[q].text
       PROVE  p + all[q].shown = q + all[p].shown
  <2>1. CASE p \in DOMAIN d /\ q \in DOMAIN d
    BY <1>3, <1>7, <1>12, <2>1
  <2>2. CASE p \in DOMAIN d /\ \E b \in DOMAIN w : q = Len(d) + b
    BY <1>6, <1>7, <1>12, <2>2
  <2>3. CASE q \in DOMAIN d /\ \E a \in DOMAIN w : p = Len(d) + a
    BY <1>6, <1>7, <1>12, <2>3
  <2>4. CASE (\E a \in DOMAIN w : p = Len(d) + a) /\ (\E b \in DOMAIN w : q = Len(d) + b)
    <3>1. PICK a \in DOMAIN w : p = Len(d) + a
      BY <2>4
    <3>2. PICK b \in DOMAIN w : q = Len(d) + b
      BY <2>4
    <3>3. all[p] = w[a] /\ all[q] = w[b] /\ a \in Int /\ b \in Int
      BY <1>7, <3>1, <3>2
    <3> DEFINE x == w[a].shown
               y == w[b].shown
               n == Len(d)
    <3>4. a + y = b + x /\ x \in Int /\ y \in Int /\ n \in Int
      BY <1>4, <1>7, <1>9, <1>12, <3>3, SMTT(30)
    <3> HIDE DEF x, y, n
    <3>5. (n + a) + y = (n + b) + x
      BY <3>3, <3>4
    <3> QED
      BY <3>1, <3>2, <3>3, <3>5 DEF x, y, n
  <2> QED
    BY <1>10, <2>1, <2>2, <2>3, <2>4
<1> QED
  BY <1>1, <1>7, <1>11, <1>12

\* The results take the numbers after the highest.
LEMMA RunToolsSources ==
  ASSUME ToolInv, RunTools
  PROVE  /\ sources' \in Seq(Sources)
         /\ NumbersStand(sources, sources') /\ NumbersStand(sources, sources)'
         /\ \A i \in DOMAIN sources' :
              \/ \E j \in DOMAIN sources : sources'[i].text = sources[j].text
              \/ \E k \in DOMAIN pending : sources'[i].text = pending[k].id
<1>1. phase = "calling" /\ ToolTypeOK /\ NumbersStand(sources, sources)
  BY DEF ToolInv, RunTools
<1>2. PICK found \in [DOMAIN pending -> [kind : Tools, count : 0 .. MaxResults]] :
        sources' = sources \o Numbered(Highest, Found(found))
  BY DEF RunTools, Outcomes
<1> DEFINE all == Found(found)
           n == Len(all)
           old == sources
<1>3. /\ all \in Seq(NewResults)
      /\ \A p \in DOMAIN all : \E k \in DOMAIN pending : all[p].text = pending[k].id
      /\ \A p, q \in DOMAIN all : all[p].text = all[q].text => p + all[q].shown = q + all[p].shown
  BY <1>1, FoundStands
<1>4. /\ Highest = Len(sources) /\ Len(sources) \in Nat /\ sources \in Seq(Sources)
      /\ \A i \in DOMAIN sources : Old(sources[i].text)
  <2>1. sources \in Seq(Sources)
    BY <1>1 DEF ToolTypeOK
  <2> QED
    BY <1>1, <2>1, HighestIsLast DEF ToolInv, Named
<1> HIDE DEF all
<1>5. n \in Nat /\ DOMAIN all = 1 .. n
  BY <1>3
<1> DEFINE added == [i \in 1 .. n |-> Source(Len(old) + i, all[i].kind, "", all[i].shown, all[i].text)]
<1>6. sources' = old \o added
  BY <1>2, <1>4, <1>5 DEF Numbered, all
<1> HIDE DEF n
<1>7. ASSUME NEW i \in 1 .. n
      PROVE  /\ added[i] \in Sources /\ added[i].index = Len(old) + i
             /\ added[i].shown = all[i].shown /\ added[i].text = all[i].text
  <2> DEFINE index == Len(old) + i
             kind == all[i].kind
             shown == all[i].shown
             text == all[i].text
  <2>1. added[i] = Source(index, kind, "", shown, text)
    OBVIOUS
  <2>2. kind \in Tools /\ shown \in Nat /\ text \in CallIds
    <3>1. all[i] \in NewResults
      BY <1>3, <1>5
    <3> QED
      BY <3>1 DEF NewResults
  <2>3. index \in Nat
    BY <1>4, <1>5
  <2> HIDE DEF added, index, kind, shown, text
  <2>4. LET s == Source(index, kind, "", shown, text) IN
        s \in Sources /\ s.index = index /\ s.shown = shown /\ s.text = text
    BY <2>2, <2>3 DEF Source, Sources
  <2> QED
    BY <2>1, <2>4 DEF index, shown, text
<1>8. DOMAIN added = 1 .. n
  OBVIOUS
<1>9. added \in Seq(Sources)
  <2>1. added = [i \in 1 .. n |-> added[i]]
    OBVIOUS
  <2> HIDE DEF added
  <2>2. added \in [1 .. n -> Sources]
    BY <1>7, <2>1
  <2> QED
    BY <1>5, <2>2
<1> HIDE DEF added
<1>10. \A i \in DOMAIN added : \E k \in DOMAIN pending : added[i].text = pending[k].id
  BY <1>3, <1>5, <1>7, <1>8
<1>11. \A i \in DOMAIN old, j \in DOMAIN added : old[i].text # added[j].text
  <2>1. \A k \in DOMAIN pending : pending[k].id[1] = round
    BY <1>1, PendingNames
  <2>2. \A i \in DOMAIN old : old[i].text[1] < round
    BY <1>1, <1>4 DEF Old
  <2>3. round \in Nat
    BY <1>1 DEF ToolTypeOK
  <2>4. ~(round < round)
    BY <2>3
  <2> QED
    BY <1>10, <2>1, <2>2, <2>4
<1>12. \A i, j \in DOMAIN added : added[i].text = added[j].text =>
         i + added[j].shown = j + added[i].shown
  <2> SUFFICES ASSUME NEW i \in DOMAIN added, NEW j \in DOMAIN added, added[i].text = added[j].text
               PROVE  i + added[j].shown = j + added[i].shown
    OBVIOUS
  <2>1. i \in DOMAIN all /\ j \in DOMAIN all /\ all[i].text = all[j].text
    BY <1>5, <1>7, <1>8
  <2>2. i + all[j].shown = j + all[i].shown
    BY <1>3, <2>1
  <2> QED
    BY <1>7, <1>8, <2>2
<1>13. \A i \in DOMAIN added : added[i].index = Len(old) + i
  BY <1>7, <1>8
<1> HIDE DEF old
<1>14. old \in Seq(Sources) /\ NumbersStand(old, old)
  BY <1>1, <1>4 DEF old
<1>15. NumbersStand(old, old \o added) /\ NumbersStand(old \o added, old \o added)
  BY <1>9, <1>11, <1>12, <1>13, <1>14, NumbersGoOn
<1> DEFINE new == old \o added
<1>16. /\ new \in Seq(Sources)
       /\ \A i \in DOMAIN new :
            \/ \E j \in DOMAIN old : new[i].text = old[j].text
            \/ \E j \in DOMAIN added : new[i].text = added[j].text
  BY <1>9, <1>14, TextsOf
<1>17. sources' = new /\ old = sources
  BY <1>6 DEF old
<1> HIDE DEF new
<1> QED
  BY <1>10, <1>15, <1>16, <1>17 DEF new

\* The messages of the tools: the assistant's, and one per call.
LEMMA RunToolsMessages ==
  ASSUME ToolInv, RunTools
  PROVE  LET n == Len(messages) IN
         /\ messages' \in Seq(Messages) /\ n \in Nat /\ DOMAIN messages = 1 .. n
         /\ \A i \in DOMAIN messages' :
              \/ i \in DOMAIN messages
              \/ i = n + 1
              \/ \E k \in DOMAIN pending : i = n + 1 + k
         /\ \A i \in DOMAIN messages : i \in DOMAIN messages' /\ messages'[i] = messages[i]
         /\ n + 1 \in DOMAIN messages'
         /\ messages'[n + 1].role = "assistant" /\ messages'[n + 1].calls = pending
         /\ messages'[n + 1].id = NoId
         /\ \A k \in DOMAIN pending :
              /\ n + 1 + k \in DOMAIN messages' /\ messages'[n + 1 + k].role = "tool"
              /\ messages'[n + 1 + k].calls = <<>> /\ messages'[n + 1 + k].id = pending[k].id
<1>1. PICK preamble \in BOOLEAN :
        messages' = messages \o <<Message("assistant", preamble, pending, NoId)>>
                    \o [k \in DOMAIN pending |-> Message("tool", TRUE, <<>>, pending[k].id)]
  BY DEF RunTools
<1> DEFINE m == Len(pending)
           first == Message("assistant", preamble, pending, NoId)
           rest == [k \in 1 .. m |-> Message("tool", TRUE, <<>>, pending[k].id)]
           old == messages
           new == messages'
<1>2. old \in Seq(Messages)
  BY DEF ToolInv, ToolTypeOK
<1>3. /\ pending \in Seq(Calls) /\ m \in Nat /\ DOMAIN pending = 1 .. m
      /\ \A k \in DOMAIN pending : pending[k].id \in CallIds
  BY PendingNames DEF RunTools
<1>4. /\ first \in Messages /\ first.role = "assistant" /\ first.calls = pending
      /\ first.id = NoId
  BY <1>3 DEF Message, Messages, NoId, CallIds
<1>5. ASSUME NEW k \in 1 .. m
      PROVE  /\ rest[k] \in Messages /\ rest[k].role = "tool"
             /\ rest[k].calls = <<>> /\ rest[k].id = pending[k].id
  <2> DEFINE id == pending[k].id
  <2>1. rest[k] = Message("tool", TRUE, <<>>, id) /\ id \in CallIds
    BY <1>3
  <2> HIDE DEF rest, id
  <2>2. <<>> \in Seq(Calls)
    OBVIOUS
  <2>3. LET r == Message("tool", TRUE, <<>>, id) IN
        r \in Messages /\ r.role = "tool" /\ r.calls = <<>> /\ r.id = id
    BY <2>1, <2>2 DEF Message, Messages
  <2> QED
    BY <2>1, <2>3 DEF id
<1>6. new = old \o <<first>> \o rest
  BY <1>1, <1>3
<1> HIDE DEF m, first
<1>7. rest \in Seq(Messages) /\ Len(rest) = m
  <2>1. rest = [k \in 1 .. m |-> rest[k]]
    OBVIOUS
  <2> HIDE DEF rest
  <2>2. rest \in [1 .. m -> Messages]
    BY <1>5, <2>1
  <2> QED
    BY <1>3, <2>2
<1> HIDE DEF rest, old, new
<1> DEFINE n == Len(old)
           head == old \o <<first>>
<1>8. /\ head \in Seq(Messages) /\ n \in Nat /\ Len(head) = n + 1 /\ DOMAIN old = 1 .. n
      /\ head[n + 1] = first /\ \A i \in 1 .. n : head[i] = old[i]
  BY <1>2, <1>4
<1>9. new = head \o rest
  BY <1>6
<1> HIDE DEF head, n
<1>10. /\ new \in Seq(Messages) /\ DOMAIN new = 1 .. n + 1 + m
       /\ \A i \in 1 .. n + 1 : new[i] = head[i]
       /\ \A k \in 1 .. m : new[n + 1 + k] = rest[k]
  BY <1>3, <1>7, <1>8, <1>9
<1>11. \A i \in DOMAIN new :
         i \in DOMAIN old \/ i = n + 1 \/ \E k \in DOMAIN pending : i = n + 1 + k
  <2> TAKE i \in DOMAIN new
  <2>1. i \in 1 .. n \/ i = n + 1 \/ i - (n + 1) \in 1 .. m
    BY <1>3, <1>8, <1>10
  <2>2. i = n + 1 + (i - (n + 1))
    BY <1>8, <1>10
  <2> QED
    BY <1>3, <1>8, <2>1, <2>2
<1>12. \A i \in 1 .. n : i \in 1 .. n + 1 /\ i \in 1 .. n + 1 + m
  BY <1>3, <1>8
<1>13. n + 1 \in 1 .. n + 1 /\ n + 1 \in 1 .. n + 1 + m /\ \A k \in 1 .. m : n + 1 + k \in 1 .. n + 1 + m
  BY <1>3, <1>8
<1>14. \A i \in DOMAIN old : i \in DOMAIN new /\ new[i] = old[i]
  BY <1>8, <1>10, <1>12
<1>15. n + 1 \in DOMAIN new /\ new[n + 1] = first
  BY <1>8, <1>10, <1>13
<1>16. \A k \in DOMAIN pending : n + 1 + k \in DOMAIN new /\ new[n + 1 + k] = rest[k]
  BY <1>3, <1>10, <1>13
<1>17. new[n + 1].role = "assistant" /\ new[n + 1].calls = pending /\ new[n + 1].id = NoId
  BY <1>4, <1>15
<1>18. \A k \in DOMAIN pending :
         /\ n + 1 + k \in DOMAIN new /\ new[n + 1 + k].role = "tool"
         /\ new[n + 1 + k].calls = <<>> /\ new[n + 1 + k].id = pending[k].id
  <2> TAKE k \in DOMAIN pending
  <2>1. k \in 1 .. m
    BY <1>3
  <2> QED
    BY <1>5, <1>16, <2>1
<1>19. n \in Nat /\ DOMAIN old = 1 .. n /\ new \in Seq(Messages) /\ n = Len(messages)
  BY <1>8, <1>10 DEF n, old
<1> HIDE DEF n
<1> QED
  BY <1>11, <1>14, <1>15, <1>17, <1>18, <1>19 DEF old, new

LEMMA RunToolsReplays == ASSUME ToolInv, RunTools PROVE Replayed'
<1> DEFINE n == Len(messages)
           M == messages'
<1>1. /\ n \in Nat /\ DOMAIN messages = 1 .. n
      /\ \A i \in DOMAIN M : \/ i \in DOMAIN messages \/ i = n + 1
                             \/ \E k \in DOMAIN pending : i = n + 1 + k
      /\ \A i \in DOMAIN messages : i \in DOMAIN M /\ M[i] = messages[i]
      /\ n + 1 \in DOMAIN M
      /\ M[n + 1].role = "assistant" /\ M[n + 1].calls = pending
      /\ \A k \in DOMAIN pending :
           /\ n + 1 + k \in DOMAIN M /\ M[n + 1 + k].role = "tool"
           /\ M[n + 1 + k].calls = <<>> /\ M[n + 1 + k].id = pending[k].id
  BY RunToolsMessages
<1>2. phase = "calling" /\ ran' = ran \cup Range(pending) /\ round \in Nat /\ ToolTypeOK
  BY DEF ToolInv, ToolTypeOK, RunTools
<1>3. /\ \A k \in DOMAIN pending : k \in Nat /\ k > 0
      /\ \A k \in DOMAIN pending : pending[k].id[1] = round
      /\ \A k, l \in DOMAIN pending : pending[k].id = pending[l].id => k = l
  <2>1. pending \in Seq(Calls)
    BY <1>2, PendingNames
  <2>2. \A k \in DOMAIN pending : k \in Nat /\ k > 0
    BY <2>1
  <2> QED
    BY <1>2, <2>2, PendingNames
<1>4. \A i \in DOMAIN messages :
        /\ messages[i].id[1] < round
        /\ \A k \in DOMAIN messages[i].calls : messages[i].calls[k].id[1] < round
  BY <1>2 DEF ToolInv, Named, Old
<1>5. ~(round < round)
  BY <1>2
<1>6. Replayed
  BY DEF ToolInv
<1> HIDE DEF n, M
<1>7. \A i \in DOMAIN M : \A k \in DOMAIN M[i].calls :
        \/ i \in DOMAIN messages /\ M[i] = messages[i]
        \/ i = n + 1 /\ k \in DOMAIN pending
  BY <1>1
<1>8. \A i \in DOMAIN M : M[i].role = "tool" =>
        \/ i \in DOMAIN messages /\ M[i] = messages[i]
        \/ \E k \in DOMAIN pending : i = n + 1 + k /\ M[i].id = pending[k].id
  BY <1>1
<1>9. \A i \in DOMAIN M : M[i].role = "tool" => M[i].calls = <<>>
  <2> TAKE i \in DOMAIN M
  <2>1. i \in DOMAIN messages => (M[i].role = "tool" => M[i].calls = <<>>)
    BY <1>1, <1>6 DEF Replayed
  <2> QED
    BY <1>1, <2>1
<1>10. ran' = UNION {{M[i].calls[k] : k \in DOMAIN M[i].calls} : i \in DOMAIN M}
  <2>1. ran = UNION {{messages[i].calls[k] : k \in DOMAIN messages[i].calls} : i \in DOMAIN messages}
    BY <1>6 DEF Replayed
  <2>2. \A c : c \in ran' <=> c \in ran \/ \E k \in DOMAIN pending : c = pending[k]
    BY <1>2 DEF Range
  <2>3. \A c : c \in ran <=> \E i \in DOMAIN messages : \E k \in DOMAIN messages[i].calls :
                               c = messages[i].calls[k]
    BY <2>1
  <2>4. ASSUME NEW c
        PROVE  c \in ran' <=> \E i \in DOMAIN M : \E k \in DOMAIN M[i].calls : c = M[i].calls[k]
    <3>1. ASSUME c \in ran' PROVE \E i \in DOMAIN M : \E k \in DOMAIN M[i].calls : c = M[i].calls[k]
      BY <1>1, <2>2, <2>3, <3>1
    <3>2. ASSUME NEW i \in DOMAIN M, NEW k \in DOMAIN M[i].calls, c = M[i].calls[k]
          PROVE  c \in ran'
      BY <1>1, <1>7, <2>2, <2>3, <3>2
    <3> QED
      BY <3>1, <3>2
  <2> QED
    BY <2>4
<1>11. \A i, j \in DOMAIN M : \A k \in DOMAIN M[i].calls, l \in DOMAIN M[j].calls :
         M[i].calls[k].id = M[j].calls[l].id => i = j /\ k = l
  <2> SUFFICES ASSUME NEW i \in DOMAIN M, NEW j \in DOMAIN M,
                      NEW k \in DOMAIN M[i].calls, NEW l \in DOMAIN M[j].calls,
                      M[i].calls[k].id = M[j].calls[l].id
               PROVE  i = j /\ k = l
    OBVIOUS
  <2>1. CASE i \in DOMAIN messages /\ j \in DOMAIN messages
    BY <1>1, <1>6, <2>1 DEF Replayed
  <2>2. CASE i \in DOMAIN messages /\ j = n + 1
    BY <1>1, <1>3, <1>4, <1>5, <2>2
  <2>3. CASE i = n + 1 /\ j \in DOMAIN messages
    BY <1>1, <1>3, <1>4, <1>5, <2>3
  <2>4. CASE i = n + 1 /\ j = n + 1
    BY <1>1, <1>3, <2>4
  <2> QED
    BY <1>7, <2>1, <2>2, <2>3, <2>4
<1>12. \A i \in DOMAIN M : \A k \in DOMAIN M[i].calls :
         \E j \in DOMAIN M : i < j /\ M[j].role = "tool" /\ M[j].id = M[i].calls[k].id
  <2> TAKE i \in DOMAIN M
  <2> TAKE k \in DOMAIN M[i].calls
  <2>1. CASE i \in DOMAIN messages /\ M[i] = messages[i]
    <3>1. PICK j \in DOMAIN messages : /\ i < j /\ messages[j].role = "tool"
                                       /\ messages[j].id = messages[i].calls[k].id
      BY <1>6, <2>1 DEF Replayed
    <3> QED
      BY <1>1, <2>1, <3>1
  <2>2. CASE i = n + 1 /\ k \in DOMAIN pending
    <3>1. n + 1 + k \in DOMAIN M /\ i < n + 1 + k
      BY <1>1, <1>3, <2>2
    <3> QED
      BY <1>1, <2>2, <3>1
  <2> QED
    BY <1>7, <2>1, <2>2
<1>13. \A i, j \in DOMAIN M :
         M[i].role = "tool" /\ M[j].role = "tool" /\ M[i].id = M[j].id => i = j
  <2> SUFFICES ASSUME NEW i \in DOMAIN M, NEW j \in DOMAIN M,
                      M[i].role = "tool", M[j].role = "tool", M[i].id = M[j].id
               PROVE  i = j
    OBVIOUS
  <2>1. CASE i \in DOMAIN messages /\ j \in DOMAIN messages
    BY <1>1, <1>6, <2>1 DEF Replayed
  <2>2. CASE i \in DOMAIN messages /\ \E k \in DOMAIN pending : j = n + 1 + k
    BY <1>1, <1>3, <1>4, <1>5, <2>2, SMTT(30)
  <2>3. CASE j \in DOMAIN messages /\ \E k \in DOMAIN pending : i = n + 1 + k
    BY <1>1, <1>3, <1>4, <1>5, <2>3
  <2>4. CASE (\E k \in DOMAIN pending : i = n + 1 + k) /\ \E l \in DOMAIN pending : j = n + 1 + l
    BY <1>1, <1>3, <2>4
  <2> QED
    BY <1>8, <2>1, <2>2, <2>3, <2>4
<1> QED
  BY <1>9, <1>10, <1>11, <1>12, <1>13 DEF Replayed, M

LEMMA RunToolsKeeps == ASSUME ToolInv, RunTools PROVE ToolInv' /\ NumbersStand(sources, sources')
<1>1. /\ phase = "calling" /\ phase' = "idle" /\ Forget /\ pending' = <<>>
      /\ ran' = ran \cup Range(pending) /\ UNCHANGED <<api, round>>
  BY DEF RunTools
<1>2. pending \in Seq(Calls) /\ \A k \in DOMAIN pending : pending[k].id[1] = round
  BY <1>1, PendingNames
<1>3. /\ sources' \in Seq(Sources)
      /\ NumbersStand(sources, sources') /\ NumbersStand(sources, sources)'
      /\ \A i \in DOMAIN sources' :
           \/ \E j \in DOMAIN sources : sources'[i].text = sources[j].text
           \/ \E k \in DOMAIN pending : sources'[i].text = pending[k].id
  BY RunToolsSources
<1>4. messages' \in Seq(Messages)
  BY RunToolsMessages
<1>5. ToolTypeOK'
  <2>1. /\ <<>> \in Seq(Nat) /\ <<>> \in Seq(Slots) /\ <<>> \in [DOMAIN <<>> -> Marks]
        /\ <<>> \in Seq(Calls)
    OBVIOUS
  <2>2. written' \in Seq(Nat) /\ heard' \in [DOMAIN written' -> Marks] /\ slots' \in Seq(Slots)
    BY <1>1, <2>1 DEF Forget
  <2>3. ran' \in SUBSET Calls
    <3>1. \A k \in DOMAIN pending : pending[k] \in Calls
      BY <1>2
    <3>2. ran \in SUBSET Calls
      BY DEF ToolInv, ToolTypeOK
    <3> QED
      BY <1>1, <3>1, <3>2 DEF Range
  <2>4. pending' \in Seq(Calls) /\ cut' \in BOOLEAN
    BY <1>1, <2>1 DEF Forget
  <2> QED
    BY <1>1, <1>3, <1>4, <2>2, <2>3, <2>4 DEF ToolInv, ToolTypeOK
<1>6. Accumulated' /\ PendingAsWritten'
  BY <1>1 DEF Accumulated, PendingAsWritten
<1>7. Replayed'
  BY RunToolsReplays
<1>8. Named'
  <2> DEFINE n == Len(messages)
             M == messages'
             Past(id) == id[1] <= round
  <2>1. \A id : Old(id)' <=> Past(id)
    BY <1>1 DEF Old
  <2>2. round \in Nat /\ Past(NoId) /\ \A k \in DOMAIN pending : Past(pending[k].id)
    BY <1>2 DEF ToolInv, ToolTypeOK, NoId
  <2>3. /\ \A i \in DOMAIN messages :
             Past(messages[i].id) /\ \A k \in DOMAIN messages[i].calls : Past(messages[i].calls[k].id)
        /\ \A i \in DOMAIN sources : Past(sources[i].text)
    <3>1. \A id \in CallIds : Old(id) => Past(id)
      BY <1>1, <2>2 DEF Old, CallIds
    <3> QED
      BY <3>1, MessagesTyped DEF ToolInv, Named
  <2> HIDE DEF Past
  <2>4. /\ \A i \in DOMAIN M : \/ i \in DOMAIN messages \/ i = n + 1
                               \/ \E k \in DOMAIN pending : i = n + 1 + k
        /\ \A i \in DOMAIN messages : i \in DOMAIN M /\ M[i] = messages[i]
        /\ M[n + 1].calls = pending /\ M[n + 1].id = NoId
        /\ \A k \in DOMAIN pending :
             M[n + 1 + k].calls = <<>> /\ M[n + 1 + k].id = pending[k].id
    BY RunToolsMessages
  <2> HIDE DEF M, n
  <2>5. \A i \in DOMAIN M : Past(M[i].id) /\ \A k \in DOMAIN M[i].calls : Past(M[i].calls[k].id)
    BY <2>2, <2>3, <2>4
  <2>6. \A i \in DOMAIN sources' : Past(sources'[i].text)
    BY <1>3, <2>2, <2>3
  <2> QED
    BY <1>1, <2>2, <2>5, <2>6 DEF Named, Old, Past, M
<1> QED
  BY <1>3, <1>5, <1>6, <1>7, <1>8 DEF ToolInv

-----------------------------------------------------------------------------
(* The next request. *)

Items == [type : {"message", "function_call", "function_call_output"}, id : CallIds, args : Seq(Nat)]
Item(type, id, args) == [type |-> type, id |-> id, args |-> args]
Lead(m) == IF m.text THEN 1 ELSE 0
ItemsOf(m) ==
  IF m.role = "tool" THEN <<Item("function_call_output", m.id, <<>>)>>
  ELSE (IF m.text THEN <<Item("message", NoId, <<>>)>> ELSE <<>>)
         \o [k \in DOMAIN m.calls |-> Item("function_call", m.calls[k].id, m.calls[k].args)]

\* A message of a tool is one output, and another one its calls after its text.
LEMMA ItemsOfMessage ==
  ASSUME NEW m \in Messages
  PROVE  /\ ItemsOf(m) \in Seq(Items)
         /\ m.role = "tool" =>
              /\ Len(ItemsOf(m)) = 1 /\ ItemsOf(m)[1] = Item("function_call_output", m.id, <<>>)
         /\ m.role # "tool" =>
              /\ \A k \in DOMAIN m.calls :
                   /\ Lead(m) + k \in 1 .. Len(ItemsOf(m))
                   /\ ItemsOf(m)[Lead(m) + k] = Item("function_call", m.calls[k].id, m.calls[k].args)
              /\ \A q \in 1 .. Len(ItemsOf(m)) :
                   \/ ItemsOf(m)[q].type = "message"
                   \/ \E k \in DOMAIN m.calls : q = Lead(m) + k
<1>1. /\ m.id \in CallIds /\ m.text \in BOOLEAN /\ m.calls \in Seq(Calls)
  BY DEF Messages
<1>2. /\ <<>> \in Seq(Nat) /\ NoId \in CallIds
  BY DEF NoId, CallIds
<1>3. CASE m.role = "tool"
  <2> DEFINE out == Item("function_call_output", m.id, <<>>)
  <2>1. ItemsOf(m) = <<out>>
    BY <1>3 DEF ItemsOf
  <2>2. out \in Items
    BY <1>1, <1>2 DEF Item, Items
  <2> HIDE DEF out
  <2>3. <<out>> \in Seq(Items) /\ Len(<<out>>) = 1 /\ <<out>>[1] = out
    BY <2>2
  <2> QED
    BY <1>3, <2>1, <2>3 DEF out
<1>4. CASE m.role # "tool"
  <2> DEFINE n == Len(m.calls)
             calls == m.calls
             text == IF m.text THEN <<Item("message", NoId, <<>>)>> ELSE <<>>
             rest == [k \in 1 .. n |-> Item("function_call", calls[k].id, calls[k].args)]
  <2>1. n \in Nat /\ DOMAIN calls = 1 .. n /\ \A k \in 1 .. n : calls[k] \in Calls
    BY <1>1
  <2>2. \A k \in 1 .. n : calls[k].id \in CallIds /\ calls[k].args \in Seq(Nat)
    BY <2>1 DEF Calls
  <2>3. ItemsOf(m) = text \o rest
    BY <1>4, <2>1 DEF ItemsOf
  <2> HIDE DEF n, calls
  <2>4. \A k \in 1 .. n : /\ rest[k] = Item("function_call", calls[k].id, calls[k].args)
                          /\ rest[k] \in Items
    BY <2>2 DEF Item, Items
  <2>5. rest \in Seq(Items) /\ Len(rest) = n
    <3>1. rest = [k \in 1 .. n |-> rest[k]]
      OBVIOUS
    <3> HIDE DEF rest
    <3>2. rest \in [1 .. n -> Items]
      BY <2>4, <3>1
    <3> QED
      BY <2>1, <3>2
  <2> HIDE DEF rest
  <2>6. /\ text \in Seq(Items) /\ Len(text) = Lead(m) /\ Lead(m) \in Nat
        /\ \A q \in 1 .. Lead(m) : text[q].type = "message"
    <3> DEFINE t == Item("message", NoId, <<>>)
    <3>1. t \in Items /\ t.type = "message"
      BY <1>2 DEF Item, Items
    <3>2. text = IF m.text THEN <<t>> ELSE <<>>
      OBVIOUS
    <3> HIDE DEF t, text
    <3>3. CASE m.text
      <4>1. text = <<t>> /\ Lead(m) = 1
        BY <3>2, <3>3 DEF Lead
      <4>2. <<t>> \in Seq(Items) /\ Len(<<t>>) = 1 /\ <<t>>[1] = t
        BY <3>1
      <4>3. \A q \in 1 .. 1 : q = 1
        OBVIOUS
      <4> QED
        BY <3>1, <4>1, <4>2, <4>3
    <3>4. CASE ~m.text
      BY <3>2, <3>4 DEF Lead
    <3> QED
      BY <3>3, <3>4
  <2> HIDE DEF text
  <2> DEFINE all == text \o rest
             a == Lead(m)
  <2>7. /\ all \in Seq(Items) /\ Len(all) = a + n /\ a \in Nat
        /\ \A q \in 1 .. a : all[q] = text[q]
        /\ \A k \in 1 .. n : all[a + k] = rest[k]
    BY <2>1, <2>5, <2>6
  <2> HIDE DEF all, a
  <2>8. \A k \in 1 .. n : a + k \in 1 .. Len(all)
    BY <2>1, <2>7
  <2>9. \A q \in 1 .. Len(all) : q \in 1 .. a \/ (q - a \in 1 .. n /\ q = a + (q - a))
    BY <2>1, <2>7
  <2>10. \A q \in 1 .. Len(all) : all[q].type = "message" \/ \E k \in 1 .. n : q = a + k
    <3>1. \A q \in 1 .. a : all[q].type = "message"
      BY <2>6, <2>7 DEF a
    <3> QED
      BY <2>9, <3>1
  <2>11. \A k \in 1 .. n : all[a + k] = Item("function_call", calls[k].id, calls[k].args)
    BY <2>4, <2>7
  <2>12. ItemsOf(m) = all
    BY <2>3 DEF all
  <2> QED
    BY <1>4, <2>1, <2>7, <2>8, <2>10, <2>11, <2>12 DEF calls, a
<1> QED
  BY <1>3, <1>4

\* Where the items of the messages stand in the request.
LEMMA RequestPlaces ==
  ASSUME ToolTypeOK
  PROVE  LET ss == [i \in DOMAIN messages |-> ItemsOf(messages[i])] IN
         /\ ss \in Seq(Seq(Items)) /\ Len(ss) = Len(messages) /\ DOMAIN messages = 1 .. Len(ss)
         /\ ToResponsesInput \in Seq(Items)
         /\ \E off : Offsets(Len(ss), ss, ToResponsesInput, off)
<1> DEFINE n == Len(messages)
           ss == [i \in 1 .. n |-> ItemsOf(messages[i])]
<1>1. messages \in Seq(Messages)
  BY DEF ToolTypeOK
<1>2. n \in Nat /\ DOMAIN messages = 1 .. n /\ \A i \in 1 .. n : messages[i] \in Messages
  BY <1>1
<1>3. ToResponsesInput = FlattenSeq(ss)
  BY <1>2 DEF ToResponsesInput, ItemsOf, Item
<1> HIDE DEF n
<1>4. ss \in Seq(Seq(Items)) /\ Len(ss) = n
  <2>1. \A i \in 1 .. n : ss[i] \in Seq(Items)
    BY <1>2, ItemsOfMessage
  <2>2. ss = [i \in 1 .. n |-> ss[i]]
    OBVIOUS
  <2> HIDE DEF ss
  <2>3. ss \in [1 .. n -> Seq(Items)]
    BY <2>1, <2>2
  <2> QED
    BY <1>2, <2>3
<1>5. ss = [i \in DOMAIN messages |-> ItemsOf(messages[i])]
  BY <1>2
<1> HIDE DEF ss
<1>6. FlattenSeq(ss) \in Seq(Items) /\ \E off : Offsets(Len(ss), ss, FlattenSeq(ss), off)
  BY <1>4, FlattenPlaces
<1> QED
  BY <1>2, <1>3, <1>4, <1>5, <1>6 DEF n

\* The request shows what the messages hold.
LEMMA Replays == ASSUME ToolTypeOK, Replayed PROVE ReplayedWithResults
<1> DEFINE D == DOMAIN messages
           ss == [i \in D |-> ItemsOf(messages[i])]
           t == ToResponsesInput
           n == Len(ss)
<1>1. ss \in Seq(Seq(Items)) /\ D = 1 .. n /\ t \in Seq(Items) /\ \E off : Offsets(n, ss, t, off)
  BY RequestPlaces
<1>2. PICK off : Offsets(n, ss, t, off)
  BY <1>1
<1>3. \A i \in D : ss[i] = ItemsOf(messages[i]) /\ messages[i] \in Messages
  <2>1. messages \in Seq(Messages)
    BY DEF ToolTypeOK
  <2> QED
    BY <2>1
<1>4. DOMAIN t = 1 .. Len(t) /\ Len(t) \in Nat
  BY <1>1
<1> HIDE DEF t, ss, n
<1> DEFINE CallAt(i, k) == off[i] + (Lead(messages[i]) + k)
           OutAt(i) == off[i] + 1
           CallItem(i, k) == Item("function_call", messages[i].calls[k].id, messages[i].calls[k].args)
           Told(i) == messages[i].role # "tool"
           Made(i) == DOMAIN messages[i].calls
<1>5. \A i \in D : \A k \in Made(i) : Told(i)
  BY DEF Replayed
<1>6. ASSUME NEW i \in D, NEW k \in Made(i)
      PROVE  /\ Lead(messages[i]) + k \in 1 .. Len(ss[i])
             /\ ss[i][Lead(messages[i]) + k] = CallItem(i, k)
  BY <1>3, <1>5, ItemsOfMessage
<1>7. ASSUME NEW i \in D, ~Told(i)
      PROVE  /\ 1 \in 1 .. Len(ss[i])
             /\ ss[i][1] = Item("function_call_output", messages[i].id, <<>>)
             /\ \A q \in 1 .. Len(ss[i]) : q = 1
  <2>1. Len(ss[i]) = 1 /\ ss[i][1] = Item("function_call_output", messages[i].id, <<>>)
    BY <1>3, <1>7, ItemsOfMessage
  <2> QED
    BY <2>1
<1>8. ASSUME NEW i \in D, Told(i), NEW q \in 1 .. Len(ss[i])
      PROVE  ss[i][q].type = "message" \/ \E k \in Made(i) : q = Lead(messages[i]) + k
  BY <1>3, <1>8, ItemsOfMessage
<1>9. ASSUME NEW i \in D, NEW q \in 1 .. Len(ss[i])
      PROVE  off[i] + q \in DOMAIN t /\ t[off[i] + q] = ss[i][q]
  <2>1. off[i] + Len(ss[i]) <= Len(t) /\ t[off[i] + q] = ss[i][q]
    BY <1>1, <1>2 DEF Offsets
  <2>2. off[i] \in Nat
    BY <1>1, <1>2 DEF Offsets
  <2>3. Len(ss[i]) \in Nat
    BY <1>1
  <2> QED
    BY <1>4, <2>1, <2>2, <2>3
<1>10. ASSUME NEW p \in DOMAIN t
       PROVE  \E i \in D : \E q \in 1 .. Len(ss[i]) : p = off[i] + q /\ t[p] = ss[i][q]
  <2>1. \A r \in 1 .. Len(t) : \E i \in 1 .. n : \E q \in 1 .. Len(ss[i]) : r = off[i] + q
    BY <1>2 DEF Offsets
  <2>2. \E i \in D : \E q \in 1 .. Len(ss[i]) : p = off[i] + q
    <3> HIDE DEF D
    <3> QED
      BY <1>1, <1>4, <2>1
  <2> QED
    BY <1>9, <2>2
<1> HIDE DEF Told, Made
<1>11. ASSUME NEW i \in D, NEW k \in Made(i)
       PROVE  /\ CallAt(i, k) \in DOMAIN t /\ t[CallAt(i, k)] = CallItem(i, k)
              /\ t[CallAt(i, k)].type = "function_call"
              /\ t[CallAt(i, k)].id = messages[i].calls[k].id
              /\ t[CallAt(i, k)].args = messages[i].calls[k].args
  <2>1. CallAt(i, k) \in DOMAIN t /\ t[CallAt(i, k)] = CallItem(i, k)
    BY <1>6, <1>9
  <2> HIDE DEF CallAt
  <2> QED
    BY <2>1 DEF Item
<1>12. ASSUME NEW i \in D, ~Told(i)
       PROVE  /\ OutAt(i) \in DOMAIN t /\ t[OutAt(i)].type = "function_call_output"
              /\ t[OutAt(i)].id = messages[i].id
  <2>1. OutAt(i) \in DOMAIN t /\ t[OutAt(i)] = Item("function_call_output", messages[i].id, <<>>)
    BY <1>7, <1>9, <1>12
  <2> HIDE DEF OutAt
  <2> QED
    BY <2>1 DEF Item
<1>13. ASSUME NEW p \in DOMAIN t, t[p].type = "function_call"
       PROVE  \E i \in D : \E k \in Made(i) : p = CallAt(i, k)
  <2>1. PICK i \in D : \E q \in 1 .. Len(ss[i]) : p = off[i] + q /\ t[p] = ss[i][q]
    BY <1>10
  <2>2. PICK q \in 1 .. Len(ss[i]) : p = off[i] + q /\ t[p] = ss[i][q]
    BY <2>1
  <2>3. CASE Told(i)
    BY <1>8, <1>13, <2>2, <2>3
  <2>4. CASE ~Told(i)
    <3>1. t[p] = Item("function_call_output", messages[i].id, <<>>)
      BY <1>7, <2>2, <2>4
    <3> QED
      BY <1>13, <3>1 DEF Item
  <2> QED
    BY <2>3, <2>4
<1>14. ASSUME NEW p \in DOMAIN t, t[p].type = "function_call_output"
       PROVE  \E i \in D : ~Told(i) /\ p = OutAt(i)
  <2>1. PICK i \in D : \E q \in 1 .. Len(ss[i]) : p = off[i] + q /\ t[p] = ss[i][q]
    BY <1>10
  <2>2. PICK q \in 1 .. Len(ss[i]) : p = off[i] + q /\ t[p] = ss[i][q]
    BY <2>1
  <2>3. CASE Told(i)
    <3>1. PICK k \in Made(i) : q = Lead(messages[i]) + k
      BY <1>8, <1>14, <2>2, <2>3
    <3>2. t[p].type = "function_call"
      BY <1>11, <2>2, <3>1
    <3> QED
      BY <1>14, <3>2
  <2>4. CASE ~Told(i)
    BY <1>7, <2>2, <2>4
  <2> QED
    BY <2>3, <2>4
<1> HIDE DEF CallAt, OutAt, CallItem
<1>15. ran = {[id |-> t[p].id, args |-> t[p].args] : p \in {q \in DOMAIN t : t[q].type = "function_call"}}
  <2>1. ran = UNION {{messages[i].calls[k] : k \in Made(i)} : i \in D}
    BY DEF Replayed, Made
  <2>2. \A i \in D : \A k \in Made(i) :
          messages[i].calls[k] = [id |-> messages[i].calls[k].id, args |-> messages[i].calls[k].args]
    <3>1. \A i \in D : \A k \in Made(i) : messages[i].calls[k] \in Calls
      BY MessagesTyped DEF Made
    <3> QED
      BY <3>1 DEF Calls
  <2>3. ASSUME NEW i \in D, NEW k \in Made(i)
        PROVE  \E p \in DOMAIN t : /\ t[p].type = "function_call"
                                   /\ messages[i].calls[k] = [id |-> t[p].id, args |-> t[p].args]
    BY <1>11, <2>2
  <2>4. ASSUME NEW p \in DOMAIN t, t[p].type = "function_call"
        PROVE  \E i \in D : \E k \in Made(i) :
                 messages[i].calls[k] = [id |-> t[p].id, args |-> t[p].args]
    BY <1>11, <1>13, <2>2, <2>4
  <2>5. \A c : c \in ran <=> \E i \in D : \E k \in Made(i) : c = messages[i].calls[k]
    BY <2>1
  <2>6. \A c : c \in ran <=> \E p \in DOMAIN t : /\ t[p].type = "function_call"
                                                 /\ c = [id |-> t[p].id, args |-> t[p].args]
    <3> TAKE c
    <3>1. ASSUME c \in ran
          PROVE  \E p \in DOMAIN t : t[p].type = "function_call" /\ c = [id |-> t[p].id, args |-> t[p].args]
      <4>1. PICK i \in D : \E k \in Made(i) : c = messages[i].calls[k]
        BY <2>5, <3>1
      <4>2. PICK k \in Made(i) : c = messages[i].calls[k]
        BY <4>1
      <4>3. PICK p \in DOMAIN t : /\ t[p].type = "function_call"
                                  /\ messages[i].calls[k] = [id |-> t[p].id, args |-> t[p].args]
        BY <2>3
      <4> QED
        BY <4>2, <4>3
    <3>2. ASSUME NEW p \in DOMAIN t, t[p].type = "function_call", c = [id |-> t[p].id, args |-> t[p].args]
          PROVE  c \in ran
      BY <2>4, <2>5, <3>2
    <3> QED
      BY <3>1, <3>2
  <2> QED
    BY <2>6
<1>16. ASSUME NEW call \in ran
       PROVE  \E p, q \in DOMAIN t :
                /\ {r \in DOMAIN t : t[r].type = "function_call" /\ t[r].id = call.id} = {p}
                /\ {r \in DOMAIN t : t[r].type = "function_call_output" /\ t[r].id = call.id} = {q}
                /\ p < q
  <2>1. PICK i \in D : \E k \in Made(i) : call = messages[i].calls[k]
    BY DEF Replayed, Made
  <2>2. PICK k \in Made(i) : call = messages[i].calls[k]
    BY <2>1
  <2>3. PICK j \in D : i < j /\ ~Told(j) /\ messages[j].id = call.id
    BY <2>2 DEF Replayed, Made, Told
  <2>4. \A a \in D : \A b \in Made(a) : messages[a].calls[b].id = call.id => a = i /\ b = k
    BY <2>2 DEF Replayed, Made
  <2>5. \A a \in D : ~Told(a) /\ messages[a].id = call.id => a = j
    BY <2>3 DEF Replayed, Told
  <2>6. {r \in DOMAIN t : t[r].type = "function_call" /\ t[r].id = call.id} = {CallAt(i, k)}
    BY <1>11, <1>13, <2>2, <2>4
  <2>7. {r \in DOMAIN t : t[r].type = "function_call_output" /\ t[r].id = call.id} = {OutAt(j)}
    BY <1>12, <1>14, <2>3, <2>5
  <2>8. CallAt(i, k) < OutAt(j)
    <3> DEFINE a == Lead(messages[i]) + k
    <3>1. a \in 1 .. Len(ss[i]) /\ 1 \in 1 .. Len(ss[j])
      BY <1>6, <1>7, <2>3
    <3>2. i \in 1 .. n /\ j \in 1 .. n /\ i < j
      BY <1>1, <2>3
    <3>3. CallAt(i, k) = off[i] + a /\ OutAt(j) = off[j] + 1
      BY DEF CallAt, OutAt
    <3> HIDE DEF a
    <3>4. off[i] + a < off[j] + 1
      BY <1>1, <1>2, <3>1, <3>2, OffsetsOrder DEF n
    <3> QED
      BY <3>3, <3>4
  <2> QED
    BY <1>11, <1>12, <2>2, <2>3, <2>6, <2>7, <2>8
<1> QED
  BY <1>15, <1>16 DEF ReplayedWithResults, t

-----------------------------------------------------------------------------
(* The theorems. *)

LEMMA ToolInvInit == ToolInit => ToolInv
<1> SUFFICES ASSUME ToolInit PROVE ToolInv
  OBVIOUS
<1>1. PICK n \in 0 .. MaxResults :
        sources = [i \in 1 .. n |-> Source(i, "document", "", i, NoId)]
  BY DEF ToolInit
<1>2. n \in Nat
  BY ToolCallsAssumption
<1> DEFINE first == Message("user", TRUE, <<>>, NoId)
<1>3. /\ phase = "idle" /\ round = 0 /\ ran = {} /\ messages = <<first>>
  BY DEF ToolInit
<1>4. /\ first \in Messages /\ first.role = "user" /\ first.calls = <<>> /\ first.id = NoId
  <2>1. <<>> \in Seq(Calls) /\ NoId \in CallIds
    BY DEF NoId, CallIds
  <2> QED
    BY <2>1 DEF Message, Messages
<1> HIDE DEF first
<1>5. DOMAIN messages = {1} /\ messages[1] = first /\ messages \in Seq(Messages)
  BY <1>3, <1>4
<1>6. ASSUME NEW i \in 1 .. n
      PROVE  /\ sources[i] \in Sources /\ sources[i].index = i /\ sources[i].shown = i
             /\ sources[i].text = NoId
  <2>1. sources[i] = Source(i, "document", "", i, NoId)
    BY <1>1
  <2>2. i \in Nat /\ NoId \in CallIds /\ "document" \in Tools
    BY <1>2 DEF NoId, CallIds, Tools
  <2>3. LET s == Source(i, "document", "", i, NoId) IN
        s \in Sources /\ s.index = i /\ s.shown = i /\ s.text = NoId
    BY <2>2 DEF Source, Sources
  <2> QED
    BY <2>1, <2>3
<1>7. sources \in Seq(Sources) /\ DOMAIN sources = 1 .. n
  <2>1. sources = [i \in 1 .. n |-> sources[i]]
    BY <1>1
  <2>2. sources \in [1 .. n -> Sources]
    BY <1>6, <2>1
  <2> QED
    BY <1>2, <2>2
<1>8. ToolTypeOK
  <2>1. /\ written = <<>> /\ heard = <<>> /\ slots = <<>> /\ cut = FALSE /\ pending = <<>>
        /\ api \in {"chat", "responses"}
    BY DEF ToolInit
  <2>2. /\ <<>> \in Seq(Nat) /\ <<>> \in Seq(Slots) /\ <<>> \in [DOMAIN <<>> -> Marks]
        /\ <<>> \in Seq(Calls)
    OBVIOUS
  <2>3. round \in Nat /\ ran \in SUBSET Calls
    BY <1>3
  <2> QED
    BY <1>3, <1>5, <1>7, <2>1, <2>2, <2>3 DEF ToolTypeOK
<1>9. Accumulated /\ PendingAsWritten
  BY <1>3 DEF Accumulated, PendingAsWritten
<1>10. Replayed
  <2>1. \A i \in DOMAIN messages : messages[i].role # "tool" /\ DOMAIN messages[i].calls = {}
    BY <1>4, <1>5
  <2> QED
    BY <1>3, <2>1 DEF Replayed
<1>11. Named
  <2>1. Old(NoId)
    BY <1>3 DEF Old, NoId
  <2>2. \A i \in DOMAIN messages : messages[i].id = NoId /\ DOMAIN messages[i].calls = {}
    BY <1>4, <1>5
  <2> QED
    BY <1>6, <1>7, <2>1, <2>2 DEF Named
<1>12. NumbersStand(sources, sources)
  <2>1. SubSeq(sources, 1, Len(sources)) = sources
    BY <1>7
  <2> QED
    BY <1>6, <1>7, <2>1 DEF NumbersStand
<1> QED
  BY <1>8, <1>9, <1>10, <1>11, <1>12 DEF ToolInv

LEMMA ToolInvStep ==
  ASSUME ToolInv, [ToolNext]_toolVars
  PROVE  ToolInv' /\ (sources' # sources => NumbersStand(sources, sources'))
<1>1. CASE Begin
  BY <1>1, BeginKeeps DEF Begin
<1>2. CASE StreamEnds
  BY <1>2, StreamEndsKeeps
<1>3. CASE StreamFails
  BY <1>3, StreamFailsKeeps DEF StreamFails
<1>4. CASE RunTools
  BY <1>4, RunToolsKeeps
<1>5. ASSUME NEW c \in 1 .. MaxCalls,
             ChatDelta(c) \/ ItemAdded(c) \/ ArgumentsDelta(c) \/ ItemDone(c)
      PROVE  ToolInv' /\ sources' = sources
  <2>1. ToolInv'
    BY <1>5, ChatDeltaKeeps, ItemAddedKeeps, ArgumentsDeltaKeeps, ItemDoneKeeps
  <2>2. Same
    BY <1>5 DEF ChatDelta, ItemAdded, ArgumentsDelta, ItemDone
  <2> QED
    BY <2>1, <2>2 DEF Same
<1>6. CASE UNCHANGED toolVars
  <2>1. /\ api' = api /\ phase' = phase /\ round' = round /\ written' = written /\ heard' = heard
        /\ slots' = slots /\ cut' = cut /\ pending' = pending /\ messages' = messages
        /\ sources' = sources /\ ran' = ran
    BY <1>6 DEF toolVars
  <2>2. ToolTypeOK' /\ Accumulated'
    BY <2>1 DEF ToolInv, ToolTypeOK, Accumulated, Id
  <2>3. PendingAsWritten'
    BY <2>1 DEF ToolInv, PendingAsWritten, Id, Wrote, Whole
  <2>4. Replayed' /\ Named' /\ NumbersStand(sources, sources)'
    BY <2>1 DEF ToolInv, Replayed, Named, Old
  <2> QED
    BY <2>1, <2>2, <2>3, <2>4 DEF ToolInv
<1> QED
  BY <1>1, <1>2, <1>3, <1>4, <1>5, <1>6 DEF ToolNext

\* However the fragments of a generation are mixed, the calls that run are those the
\* model wrote, and the request after them shows each with its arguments and, later,
\* its one result (services/llm.py:77-112, 201-332; graph.py:303-328).
THEOREM CallsAsWrittenHolds == ToolSpec => []CallsAsWritten
<1>1. ToolInit => ToolInv
  BY ToolInvInit
<1>2. ToolInv /\ [ToolNext]_toolVars => ToolInv'
  BY ToolInvStep
<1>3. ToolInv => CallsAsWritten
  BY Replays DEF ToolInv, CallsAsWritten
<1> QED
  BY <1>1, <1>2, <1>3, PTL DEF ToolSpec

\* A number given to a source keeps naming it, no two share one, and those of one
\* text are all off from the text by one amount (graph.py:253-275, 350-366).
THEOREM SourcesStandHolds == ToolSpec => SourcesStand
<1>1. ToolInit => ToolInv
  BY ToolInvInit
<1>2. ToolInv /\ [ToolNext]_toolVars => ToolInv'
  BY ToolInvStep
<1>3. ToolInv /\ [ToolNext]_toolVars => [NumbersStand(sources, sources')]_sources
  BY ToolInvStep
<1> QED
  BY <1>1, <1>2, <1>3, PTL DEF ToolSpec, SourcesStand
================================================================================
