----------------------------- MODULE Ticc_proofs -----------------------------
(***************************************************************************)
(* Proofs about Ticc, for every number of edges and restarts and every lag *)
(* of the TIM-TP and of the reader that its assumption allows.             *)
(*                                                                         *)
(* The properties are about edges, the code works with the TICC's count of *)
(* seconds and with arrival times.  The inductive invariant ties the three *)
(* together: what is read now is of the current edge (Paced, Sending,      *)
(* InHand), the count of a second is the number of its edge since the last *)
(* restart, and the age of an offer tells which edge it is for (Offered).  *)
(* Stored and Met carry that over to the two tables of the pair tracker.   *)
(***************************************************************************)
EXTENDS Ticc, SequenceTheorems, TLAPS

\* The TICC's count for the current edge.
Count == edge - since + 1

\* A line is read within ReadLag of its edge, a TIM-TP comes within TpLag.
Paced ==
    /\ wire # <<>> \/ pc \in {"get", "clear", "store"} => tick <= ReadLag
    /\ ~announced => tick <= TpLag + 1

\* The TICC counts every edge, sent or not.
Counted ==
    /\ since <= edge + 1
    /\ mode = "running" => sec = Count
    /\ mode # "running" => sec = 0

\* What is on the wire is of the current edge, one line of a channel, none of
\* which has been read.
Sending ==
    /\ \A i \in 1 .. Len(wire) :
          /\ wire[i] \in Lines /\ wire[i].edge = edge
          /\ since <= edge /\ wire[i].sec = Count
          /\ seen[wire[i].ch] < edge
    /\ \A i, j \in 1 .. Len(wire) : i # j => wire[i].ch # wire[j].ch

\* So is the line in hand, and the TIM-TP taken for it is that of its edge.
InHand ==
    pc \in {"get", "clear", "store"} =>
        /\ line \in Lines /\ line.ch = "chB" /\ line.edge = edge
        /\ since <= edge => line.sec = Count /\ kept["chB"][line.sec] = edge
        /\ taken \in {None, edge}

\* The age of an offer tells which edge it is for.
Offered ==
    /\ offer <= edge + 1
    /\ offer = edge + 1 => offerAge < tick /\ offerAge + TpLag + 1 >= tick
    /\ offer # None /\ offer = edge => offerAge >= tick + 2
    /\ offer # None /\ offer < edge => offerAge > WindowHigh

\* Nothing the reader holds is of a later edge.
Past ==
    /\ \A ch \in Channels : seen[ch] <= edge
    /\ \A ch \in Channels, s \in Secs : kept[ch][s] <= edge
    /\ \A s \in Secs : refQerr[s] <= edge
    /\ latest.chA <= edge /\ latest.chB <= edge

\* A quantisation error stored since the restart is that of the edge counted in
\* its second, and so is the PPS edge it is kept with.
Stored ==
    \A s \in Secs : refQerr[s] >= since =>
        /\ refQerr[s] = since + s - 1
        /\ kept["chB"][s] \in {None, refQerr[s]}

\* Half of the current second's pair waits for the other half.
Waiting ==
    \A ch \in Channels :
        since <= edge /\ seen[ch] = edge /\ seen[Other(ch)] < edge
            => kept[ch][Count] = edge

\* The channel of the later edge of the measurement, if they differ.
Late == IF latest.chA > latest.chB THEN "chA" ELSE "chB"

\* A mixed pair: the channel that was behind has not read the later edge.
Met ==
    latest.chA # latest.chB =>
        /\ armed
        /\ seen[Late] >= latest[Late]
        /\ latest[Late] = edge => seen[Other(Late)] < edge
        /\ seen[Other(Late)] # latest[Late]

IInv ==
    /\ TypeOK /\ Paced /\ Counted /\ Sending /\ InHand /\ Offered /\ Past
    /\ Stored /\ Waiting /\ Met /\ QerrOfItsEdge

\* The bounds as numbers.
LEMMA Bounds ==
    /\ MaxEdges \in Nat /\ MaxEdges > 0 /\ MaxRestarts \in Nat
    /\ TpLag \in Nat /\ TpLag <= 7 /\ ReadLag \in Nat /\ ReadLag <= 8
    /\ KeepSecs \in Nat /\ MaxResets \in Nat /\ MaxResets > 0 /\ BootDiscard \in Nat
  BY ConstantsAssumption

\* The clocks and counts as numbers.
LEMMA Clocks ==
    ASSUME TypeOK
    PROVE  /\ tick \in Nat /\ tick <= 9 /\ edge \in Nat /\ edge <= MaxEdges
           /\ sec \in Nat /\ sec <= edge /\ since \in Nat /\ since >= 1
           /\ since <= MaxEdges + 1 /\ Count \in Int
           /\ offer \in Nat /\ offer <= MaxEdges /\ offerAge \in Nat /\ offerAge <= 12
           /\ resets \in Nat /\ resets <= MaxResets
           /\ restarts \in Nat /\ restarts <= MaxRestarts
BY Bounds DEF TypeOK, Second, Edges, None, WindowHigh, Count

LEMMA OtherChannel ==
    ASSUME NEW ch \in Channels
    PROVE  /\ Other(ch) \in Channels /\ Other(ch) # ch /\ Other(Other(ch)) = ch
           /\ \A c \in Channels : c = ch \/ c = Other(ch)
BY DEF Other, Channels

\* The next line, and what it leaves on the wire.
LEMMA NextLine ==
    ASSUME TypeOK, Sending, wire # <<>>
    PROVE  /\ Head(wire) \in Lines /\ Head(wire).edge = edge /\ Head(wire).sec = Count
           /\ Head(wire).ch \in Channels /\ Head(wire).sec \in Secs
           /\ since <= edge /\ seen[Head(wire).ch] < edge
           /\ Tail(wire) \in Seq(Lines) /\ Len(Tail(wire)) <= 2
           /\ \A i \in 1 .. Len(Tail(wire)) : /\ i + 1 \in 1 .. Len(wire)
                                              /\ Tail(wire)[i] = wire[i + 1]
                                              /\ Tail(wire)[i].ch # Head(wire).ch
<1>1. wire \in Seq(Lines) /\ Len(wire) <= 2
  BY DEF TypeOK
<1>2. /\ Head(wire) \in Lines /\ Tail(wire) \in Seq(Lines)
      /\ Len(Tail(wire)) = Len(wire) - 1
      /\ \A i \in 1 .. Len(Tail(wire)) : Tail(wire)[i] = wire[i + 1]
  BY <1>1, HeadTailProperties
<1>3. Head(wire) = wire[1] /\ Len(wire) \in Nat /\ Len(wire) >= 1
  BY <1>1, EmptySeq, HeadTailProperties
<1>4. 1 \in 1 .. Len(wire)
  BY <1>3
<1>5. /\ Head(wire).edge = edge /\ Head(wire).sec = Count /\ since <= edge
      /\ seen[Head(wire).ch] < edge
  BY <1>3, <1>4 DEF Sending
<1>6. Head(wire).ch \in Channels /\ Head(wire).sec \in Secs
  BY <1>2 DEF Lines
<1>7. ASSUME NEW i \in 1 .. Len(Tail(wire))
      PROVE  i + 1 \in 1 .. Len(wire) /\ i + 1 # 1
  BY <1>2, <1>3
<1>8. Len(Tail(wire)) <= 2
  BY <1>1, <1>2, <1>3
<1>9. \A i \in 1 .. Len(Tail(wire)) : Tail(wire)[i].ch # Head(wire).ch
  BY <1>2, <1>3, <1>4, <1>7 DEF Sending
<1>10. QED
  BY <1>2, <1>5, <1>6, <1>7, <1>8, <1>9

-----------------------------------------------------------------------------
(* The tables of the pair tracker *)

KeptTable == [Channels -> [Secs -> {None} \union Edges]]
QerrTable == [Secs -> {Absent, None} \union Edges]

\* A line is entered and takes its partner out; all other entries stay.
LEMMA EnteredTable ==
    ASSUME kept \in KeptTable, NEW l \in Lines
    PROVE  /\ Entered(l) \in KeptTable
           /\ Entered(l)[l.ch][l.sec] = l.edge
           /\ \A ch \in Channels, s \in Secs :
                 ch # l.ch \/ s # l.sec => Entered(l)[ch][s] \in {None, kept[ch][s]}
<1> DEFINE other == Other(l.ch)
<1>1. l.ch \in Channels /\ l.sec \in Secs /\ l.edge \in Edges
  BY DEF Lines
<1>2. other \in Channels /\ other # l.ch
  BY <1>1, OtherChannel
<1>3. Entered(l) = [kept EXCEPT ![l.ch][l.sec] = l.edge, ![other][l.sec] = None]
  BY DEF Entered
<1> HIDE DEF other
<1> DEFINE first == [kept EXCEPT ![l.ch][l.sec] = l.edge]
<1>4. first \in KeptTable
  BY <1>1 DEF KeptTable
<1>5. /\ first[l.ch][l.sec] = l.edge
      /\ \A ch \in Channels, s \in Secs :
            ch # l.ch \/ s # l.sec => first[ch][s] = kept[ch][s]
  BY <1>1 DEF KeptTable
<1>6. Entered(l) = [first EXCEPT ![other][l.sec] = None]
  BY <1>3
<1> HIDE DEF first
<1>7. /\ Entered(l) \in KeptTable
      /\ \A ch \in Channels, s \in Secs :
            Entered(l)[ch][s] = IF ch = other /\ s = l.sec THEN None ELSE first[ch][s]
  BY <1>1, <1>2, <1>4, <1>6 DEF KeptTable
<1>8. QED
  BY <1>1, <1>2, <1>5, <1>7

\* What a line does to the tables: it is entered, and whatever else there is
\* stays or goes.
LEMMA IngestTables ==
    ASSUME TypeOK, Sending, Ingest
    PROVE  /\ kept' \in KeptTable /\ refQerr' \in QerrTable
           /\ kept'[Head(wire).ch][Count] = edge
           /\ \A ch \in Channels, s \in Secs :
                 ch # Head(wire).ch \/ s # Count => kept'[ch][s] \in {None, kept[ch][s]}
           /\ \A s \in Secs : refQerr'[s] \in {Absent, refQerr[s]}
<1> DEFINE l == Head(wire)
<1>1. wire # <<>> /\ (IngestAlone(l) \/ IngestPair(l))
  BY DEF Ingest
<1>2. l \in Lines /\ l.ch \in Channels /\ l.sec \in Secs /\ l.edge = edge /\ l.sec = Count
  BY <1>1, NextLine
<1> HIDE DEF l
<1>3. kept \in KeptTable /\ refQerr \in QerrTable
  BY DEF TypeOK, KeptTable, QerrTable
<1>4. /\ Entered(l) \in KeptTable /\ Entered(l)[l.ch][l.sec] = edge
      /\ \A ch \in Channels, s \in Secs :
            ch # l.ch \/ s # l.sec => Entered(l)[ch][s] \in {None, kept[ch][s]}
  BY <1>2, <1>3, EnteredTable
<1>5. CASE IngestAlone(l)
  <2>1. /\ kept' = [ch \in Channels |->
                     [s \in Secs |-> IF Stale(s, l) THEN None ELSE Entered(l)[ch][s]]]
        /\ refQerr' = [s \in Secs |-> IF Stale(s, l) THEN Absent ELSE refQerr[s]]
    BY <1>5 DEF IngestAlone
  <2>2. ~Stale(l.sec, l)
    BY <1>2, Bounds DEF Stale, Secs
  <2>3. kept' \in KeptTable
    BY <1>4, <2>1 DEF KeptTable
  <2>4. refQerr' \in QerrTable /\ \A s \in Secs : refQerr'[s] \in {Absent, refQerr[s]}
    BY <1>3, <2>1 DEF QerrTable
  <2>5. \A ch \in Channels, s \in Secs :
           kept'[ch][s] = IF Stale(s, l) THEN None ELSE Entered(l)[ch][s]
    BY <2>1
  <2>6. kept'[l.ch][l.sec] = edge
    BY <1>2, <1>4, <2>2, <2>5
  <2>7. \A ch \in Channels, s \in Secs :
           ch # l.ch \/ s # l.sec => kept'[ch][s] \in {None, kept[ch][s]}
    BY <1>4, <2>5
  <2>8. QED
    BY <1>2, <2>3, <2>4, <2>6, <2>7 DEF l
<1>6. CASE IngestPair(l)
  <2>1. kept' = Entered(l) /\ refQerr' \in {refQerr, [refQerr EXCEPT ![l.sec] = Absent]}
    BY <1>6 DEF IngestPair
  <2>2. refQerr' \in QerrTable /\ \A s \in Secs : refQerr'[s] \in {Absent, refQerr[s]}
    BY <1>2, <1>3, <2>1 DEF QerrTable
  <2>3. QED
    BY <1>2, <1>4, <2>1, <2>2 DEF l
<1>7. QED
  BY <1>1, <1>5, <1>6

\* The measurement a line completes: this edge in its own channel, and in the
\* other the entry of the same second.
LEMMA PairMeasured ==
    ASSUME TypeOK, Sending, Ingest
    PROVE  \/ UNCHANGED <<armed, latest>> /\ kept[Other(Head(wire).ch)][Count] = None
           \/ /\ UNCHANGED latest /\ ~armed
              /\ armed' \in BOOLEAN
           \/ /\ armed' = TRUE
              /\ kept[Other(Head(wire).ch)][Count] \in Edges
              /\ latest' \in Measurements
              /\ latest'[Head(wire).ch] = edge
              /\ latest'[Other(Head(wire).ch)] = kept[Other(Head(wire).ch)][Count]
              /\ latest'.qerr \in {None, refQerr[Count]}
<1> DEFINE l == Head(wire)
<1>1. wire # <<>> /\ (IngestAlone(l) \/ IngestPair(l))
  BY DEF Ingest
<1>2. l \in Lines /\ l.ch \in Channels /\ l.sec \in Secs /\ l.edge = edge /\ l.sec = Count
  BY <1>1, NextLine
<1> HIDE DEF l
<1>3. l.edge \in Edges
  BY <1>2 DEF Lines
<1>4. CASE IngestAlone(l)
  BY <1>2, <1>4 DEF IngestAlone, l
<1>5. CASE IngestPair(l)
  <2> DEFINE k == kept[Other(l.ch)][l.sec]
             q == IF refQerr[l.sec] = Absent THEN None ELSE refQerr[l.sec]
  <2>1. k # None /\ armed' = (armed \/ l.sec > BootDiscard)
    BY <1>5 DEF IngestPair
  <2>2. CASE ~armed'
    <3>1. UNCHANGED latest
      BY <1>5, <2>2 DEF IngestPair
    <3>2. ~armed /\ armed' \in BOOLEAN
      BY <2>1, <2>2
    <3>3. QED
      BY <3>1, <3>2
  <2>3. CASE armed'
    <3>1. latest' = [[chA |-> l.edge, chB |-> l.edge, qerr |-> q] EXCEPT ![Other(l.ch)] = k]
      BY <1>5, <2>3 DEF IngestPair
    <3>2. k \in Edges
      BY <1>2, <2>1, OtherChannel DEF TypeOK
    <3>3. q \in {None} \union Edges /\ q \in {None, refQerr[l.sec]}
      BY <1>2 DEF TypeOK
    <3>4. armed' = TRUE
      BY <2>1, <2>3
    <3> HIDE DEF k, q
    <3>5. CASE l.ch = "chA"
      <4>1. Other(l.ch) = "chB"
        BY <3>5 DEF Other
      <4>2. latest' = [chA |-> l.edge, chB |-> k, qerr |-> q]
        BY <3>1, <4>1
      <4>3. /\ latest' \in Measurements /\ latest'["chA"] = l.edge /\ latest'["chB"] = k
            /\ latest'.qerr = q
        BY <1>3, <3>2, <3>3, <4>2 DEF Measurements
      <4>4. QED
        BY <1>2, <3>2, <3>3, <3>4, <3>5, <4>1, <4>3 DEF l, k
    <3>6. CASE l.ch = "chB"
      <4>1. Other(l.ch) = "chA"
        BY <3>6 DEF Other
      <4>2. latest' = [chA |-> k, chB |-> l.edge, qerr |-> q]
        BY <3>1, <4>1
      <4>3. /\ latest' \in Measurements /\ latest'["chB"] = l.edge /\ latest'["chA"] = k
            /\ latest'.qerr = q
        BY <1>3, <3>2, <3>3, <4>2 DEF Measurements
      <4>4. QED
        BY <1>2, <3>2, <3>3, <3>4, <3>6, <4>1, <4>3 DEF l, k
    <3>7. QED
      BY <1>2, <3>5, <3>6 DEF Channels
  <2>4. QED
    BY <2>2, <2>3
<1>6. QED
  BY <1>1, <1>4, <1>5

-----------------------------------------------------------------------------
(* The steps that touch neither the edges nor the tables: the port is opened, *)
(* waited for, reset, lost or given up, and the TICC restarts.             *)

PortStep == Restart \/ Unplugged \/ BootSeen \/ BootFails \/ BootReopens \/ Acquire \/ Reenter
              \/ ReadFails

\* The TICC counts from zero again, and what was on its way is lost.
Recounts == mode' \in {"running", "cold", "menu"} /\ sec' = 0 /\ since' = edge + 1 /\ wire' = <<>>

LEMMA PortEffect ==
    ASSUME PortStep
    PROVE  /\ UNCHANGED <<tick, edge, offerVars, line, taken, pairVars, seen>>
           /\ pc' = pc \/ pc' \in {"boot", "read", "sleep"}
           /\ wire' \in {wire, <<>>} \/ (wire # <<>> /\ wire' = Tail(wire))
           /\ UNCHANGED <<mode, sec, since>> \/ Recounts
<1>1. CASE Restart \/ Unplugged
  BY <1>1 DEF Restart, Unplugged, Restarted, Recounts, offerVars, readerVars, pairVars
<1>2. CASE BootSeen \/ BootReopens \/ Acquire \/ Reenter \/ ReadFails
  BY <1>2 DEF BootSeen, BootReopens, Acquire, Reenter, ReadFails, ticcVars, offerVars,
              readerVars, pairVars
<1>3. CASE BootFails
  BY <1>3 DEF BootFails, Restarted, Recounts, offerVars, pairVars
<1>4. QED
  BY <1>1, <1>2, <1>3 DEF PortStep

LEMMA PortTyped ==
    ASSUME TypeOK, Sending, Counted, PortStep
    PROVE  TypeOK'
<1>1. /\ UNCHANGED <<tick, edge, announced, offer, offerAge, line, taken, kept, refQerr, armed,
                     latest, seen>>
      /\ pc' = pc \/ pc' \in {"boot", "read", "sleep"}
  BY PortEffect DEF offerVars, pairVars
<1>2. wire' \in Seq(Lines) /\ Len(wire') <= 2
  <2>1. CASE wire' = wire
    BY <2>1 DEF TypeOK
  <2>2. CASE wire' = <<>>
    BY <2>2, EmptySeq
  <2>3. CASE wire # <<>> /\ wire' = Tail(wire)
    BY <2>3, NextLine
  <2>4. QED
    BY <2>1, <2>2, <2>3, PortEffect
<1>3. mode' \in {"running", "cold", "menu"} /\ sec' \in 0 .. edge /\ since' \in 1 .. MaxEdges + 1
  <2>1. CASE UNCHANGED <<mode, sec, since>>
    BY <2>1 DEF TypeOK
  <2>2. CASE Recounts
    <3>1. 0 \in 0 .. edge /\ edge + 1 \in 1 .. MaxEdges + 1
      BY Clocks, Bounds
    <3>2. QED
      BY <2>2, <3>1 DEF Recounts
  <2>3. QED
    BY <2>1, <2>2, PortEffect
<1>4. restarts' \in 0 .. MaxRestarts
  <2>1. restarts' = restarts \/ (restarts < MaxRestarts /\ restarts' = restarts + 1)
    BY DEF PortStep, Restart, Unplugged, BootSeen, BootFails, BootReopens, Acquire, Reenter,
           ReadFails, ticcVars
  <2>2. QED
    BY <2>1, Clocks, Bounds
<1>5. resets' \in 0 .. MaxResets
  <2>1. resets' \in {0, resets} \/ (resets < MaxResets /\ resets' = resets + 1)
    BY DEF PortStep, Restart, Unplugged, BootSeen, BootFails, BootReopens, Acquire, Reenter,
           ReadFails, readerVars, MayReset
  <2>2. QED
    BY <2>1, Clocks, Bounds
<1>6. port' \in {port, "live", "dead"} /\ booted' \in {booted, TRUE}
  BY DEF PortStep, Restart, Unplugged, BootSeen, BootFails, BootReopens, Acquire, Reenter,
         ReadFails, portVars
<1>7. port' \in {"live", "dead"} /\ booted' \in BOOLEAN
  BY <1>6 DEF TypeOK
<1>8. pc' \in {"boot", "read", "get", "clear", "store", "sleep"}
  BY <1>1 DEF TypeOK
<1>9. QED
  BY <1>1, <1>2, <1>3, <1>4, <1>5, <1>7, <1>8 DEF TypeOK

LEMMA PortKeeps ==
    ASSUME IInv, PortStep
    PROVE  IInv'
<1>1. TypeOK /\ Sending /\ Counted
  BY DEF IInv
<1>2. /\ UNCHANGED <<tick, edge, announced, offer, offerAge, line, taken, kept, refQerr, armed,
                     latest, seen>>
      /\ pc' = pc \/ pc' \in {"boot", "read", "sleep"}
      /\ wire' \in {wire, <<>>} \/ (wire # <<>> /\ wire' = Tail(wire))
      /\ UNCHANGED <<mode, sec, since>> \/ Recounts
  BY PortEffect DEF offerVars, pairVars
<1>3. /\ edge \in Nat /\ since \in Nat /\ since <= edge + 1 /\ since' \in {since, edge + 1}
      /\ since' \in Nat /\ since' >= since
  BY <1>1, <1>2, Clocks DEF Counted, Recounts
<1>4. TypeOK'
  BY <1>1, PortTyped
<1>5. Paced'
  BY <1>2 DEF IInv, Paced
<1>6. Counted'
  <2>1. CASE UNCHANGED <<mode, sec, since>>
    BY <1>1, <1>2, <2>1 DEF Counted, Count
  <2>2. CASE Recounts
    BY <1>2, <1>3, <2>2 DEF Counted, Count, Recounts
  <2>3. QED
    BY <1>2, <2>1, <2>2
<1>7. Sending'
  <2>1. CASE wire' = <<>>
    <3>1. Len(wire') = 0
      BY <2>1, EmptySeq
    <3>2. QED
      BY <3>1 DEF Sending
  <2>2. CASE wire' = wire /\ wire # <<>>
    <3>1. since' = since
      BY <1>2, <2>2 DEF Recounts
    <3>2. QED
      BY <1>1, <1>2, <2>2, <3>1 DEF Sending, Count
  <2>3. CASE wire # <<>> /\ wire' = Tail(wire)
    <3>1. \A i \in 1 .. Len(wire') : i + 1 \in 1 .. Len(wire) /\ wire'[i] = wire[i + 1]
      BY <1>1, <2>3, NextLine
    <3>2. since' = since \/ wire' = <<>>
      BY <1>2 DEF Recounts
    <3>3. CASE since' = since
      <4>1. Count' = Count
        BY <1>2, <3>3 DEF Count
      <4>2. \A i \in 1 .. Len(wire') :
               /\ wire'[i] \in Lines /\ wire'[i].edge = edge'
               /\ since' <= edge' /\ wire'[i].sec = Count'
               /\ seen'[wire'[i].ch] < edge'
        BY <1>1, <1>2, <3>1, <3>3, <4>1 DEF Sending
      <4>3. ASSUME NEW i \in 1 .. Len(wire'), NEW j \in 1 .. Len(wire'), i # j
            PROVE  wire'[i].ch # wire'[j].ch
        <5>1. i + 1 # j + 1
          BY <4>3
        <5>2. QED
          BY <1>1, <3>1, <5>1 DEF Sending
      <4>4. QED
        BY <4>2, <4>3 DEF Sending
    <3>4. QED
      BY <2>1, <3>2, <3>3
  <2>4. QED
    BY <1>2, <2>1, <2>2, <2>3
<1>8. InHand'
  <2>1. CASE ~(pc' \in {"get", "clear", "store"})
    BY <2>1 DEF InHand
  <2>2. CASE pc' \in {"get", "clear", "store"}
    <3>1. pc' = pc
      BY <1>2, <2>2
    <3>2. since' = since \/ ~(since' <= edge')
      BY <1>2, <1>3
    <3>3. QED
      BY <1>2, <3>1, <3>2 DEF IInv, InHand, Count
  <2>3. QED
    BY <2>1, <2>2
<1>9. Offered'
  BY <1>2 DEF IInv, Offered
<1>10. Past'
  BY <1>2 DEF IInv, Past
<1>11. Stored'
  <2>1. CASE since' = since
    BY <1>2, <2>1 DEF IInv, Stored
  <2>2. CASE since' = edge + 1
    <3>1. \A s \in Secs : refQerr[s] \in Int /\ refQerr[s] <= edge
      BY <1>1 DEF IInv, Past, TypeOK, Absent, None, Edges
    <3>2. \A s \in Secs : ~(refQerr[s] >= since')
      BY <1>3, <2>2, <3>1
    <3>3. QED
      BY <1>2, <3>2 DEF Stored
  <2>3. QED
    BY <1>3, <2>1, <2>2
<1>12. Waiting'
  <2>1. since' = since \/ ~(since' <= edge')
    BY <1>2, <1>3
  <2>2. QED
    BY <1>2, <2>1 DEF IInv, Waiting, Count
<1>13. Met'
  BY <1>2 DEF IInv, Met, Late
<1>14. QerrOfItsEdge'
  <2>1. latest.qerr \in Int
    BY <1>1 DEF TypeOK, Measurements, NoMeasurement, None, Edges
  <2>2. QED
    BY <1>2, <1>3, <2>1 DEF IInv, QerrOfItsEdge
<1>15. QED
  BY <1>4, <1>5, <1>6, <1>7, <1>8, <1>9, <1>10, <1>11, <1>12, <1>13, <1>14 DEF IInv

-----------------------------------------------------------------------------
(* Time *)

LEMMA TickKeeps ==
    ASSUME IInv, Tick
    PROVE  IInv'
<1>1. TypeOK
  BY DEF IInv
<1>2. /\ tick \in Nat /\ tick < 9 /\ tick' = tick + 1
      /\ offerAge \in Nat /\ offerAge <= 12 /\ offerAge' = Aged
  BY <1>1, Clocks DEF Tick, Second
<1>3. /\ offerAge' \in Nat /\ offerAge' <= 12
      /\ offerAge' = offerAge + 1 \/ (offerAge' = offerAge /\ offerAge = 12)
  BY <1>2 DEF Aged, WindowHigh
<1>4. /\ UNCHANGED <<edge, mode, sec, since, restarts, port, booted, wire, announced, offer, pc,
                     resets, line, taken, kept, refQerr, armed, latest, seen>>
  BY DEF Tick, ticcVars, portVars, readerVars, pairVars
<1>5. TypeOK'
  <2>1. tick' \in 0 .. Second - 1 /\ offerAge' \in 0 .. WindowHigh + 1
    BY <1>2, <1>3 DEF Second, WindowHigh
  <2>2. QED
    BY <1>1, <1>4, <2>1 DEF TypeOK
<1>6. Paced'
  <2>1. pc \notin {"get", "clear", "store"} /\ (wire = <<>> \/ tick < ReadLag)
    BY DEF Tick, KeepsUp
  <2>2. announced \/ tick < 1 + TpLag
    BY DEF Tick, OnTime
  <2>3. wire # <<>> => tick + 1 <= ReadLag
    BY <1>2, <2>1, Bounds
  <2>4. ~announced => tick + 1 <= TpLag + 1
    BY <1>2, <2>2, Bounds
  <2>5. QED
    BY <1>2, <1>4, <2>1, <2>3, <2>4 DEF Paced
<1>7. Counted'
  BY <1>4 DEF IInv, Counted, Count
<1>8. Sending'
  BY <1>4 DEF IInv, Sending, Count
<1>9. InHand'
  BY <1>4 DEF IInv, InHand, Count
<1>10. Offered'
  <2>1. edge \in Nat /\ offer \in Nat /\ TpLag \in Nat
    BY <1>1, Clocks, Bounds
  <2>2. Offered
    BY DEF IInv
  <2>3. (offer = edge + 1 => offerAge < tick /\ offerAge + TpLag + 1 >= tick)'
    BY <1>2, <1>3, <1>4, <2>1, <2>2 DEF Offered
  <2>4. (offer # None /\ offer = edge => offerAge >= tick + 2)'
    BY <1>2, <1>3, <1>4, <2>1, <2>2 DEF Offered
  <2>5. (offer # None /\ offer < edge => offerAge > WindowHigh)'
    BY <1>2, <1>3, <1>4, <2>1, <2>2 DEF Offered, WindowHigh
  <2>6. (offer <= edge + 1)'
    BY <1>4, <2>2 DEF Offered
  <2>7. QED
    BY <2>3, <2>4, <2>5, <2>6 DEF Offered
<1>11. Past' /\ Stored'
  BY <1>4 DEF IInv, Past, Stored
<1>12. Waiting' /\ Met' /\ QerrOfItsEdge'
  BY <1>4 DEF IInv, Waiting, Count, Met, Late, QerrOfItsEdge
<1>13. QED
  BY <1>5, <1>6, <1>7, <1>8, <1>9, <1>10, <1>11, <1>12 DEF IInv

\* The next edge fires.  By then the reader is done with the one before, and
\* the age of what is on offer is that of an announcement for this edge, or
\* too high for the window.
LEMMA PpsEdgeKeeps ==
    ASSUME IInv, PpsEdge
    PROVE  IInv'
<1>1. TypeOK /\ Paced /\ Counted /\ Sending
  BY DEF IInv
<1>2. /\ tick = 9 /\ tick' = 0 /\ edge' = edge + 1 /\ edge < MaxEdges /\ announced' = FALSE
      /\ pc \notin {"get", "clear", "store"} /\ (wire = <<>> \/ tick < ReadLag)
      /\ offerAge' = Aged
  BY DEF PpsEdge, Second, KeepsUp
<1>3. /\ UNCHANGED <<mode, since, restarts, port, booted, offer, pc, resets, line, taken, kept,
                     refQerr, armed, latest, seen>>
  BY DEF PpsEdge, portVars, readerVars, pairVars
<1>4. /\ edge \in Nat /\ sec \in Nat /\ sec <= edge /\ since \in Nat /\ since >= 1
      /\ since <= edge + 1 /\ edge' \in Nat
      /\ offer \in Nat /\ offerAge \in Nat /\ offerAge <= 12
  BY <1>1, <1>2, Clocks DEF Counted
<1>5. /\ offerAge' \in Nat /\ offerAge' <= 12
      /\ offerAge' = offerAge + 1 \/ (offerAge' = offerAge /\ offerAge = 12)
  BY <1>2, <1>4 DEF Aged, WindowHigh
<1>6. \/ mode = "running" /\ sec' = sec + 1 /\ wire' \in Sent(sec', edge') \union {<<>>}
      \/ mode # "running" /\ sec' = sec /\ wire' = wire
  BY DEF PpsEdge
<1>7. wire = <<>>
  <2>1. ~(tick < ReadLag)
    BY <1>2, Bounds
  <2>2. QED
    BY <1>2, <2>1
<1>8. Count' = Count + 1
  BY <1>2, <1>3, <1>4 DEF Count
<1>9. Counted'
  <2>1. CASE mode = "running"
    <3>1. sec = Count /\ sec' = sec + 1
      BY <1>1, <1>6, <2>1 DEF Counted
    <3>2. QED
      BY <1>2, <1>3, <1>4, <1>8, <2>1, <3>1 DEF Counted
  <2>2. CASE mode # "running"
    <3>1. sec = 0 /\ sec' = sec
      BY <1>1, <1>6, <2>2 DEF Counted
    <3>2. QED
      BY <1>2, <1>3, <1>4, <2>2, <3>1 DEF Counted
  <2>3. QED
    BY <2>1, <2>2
<1>10. Sending' /\ wire' \in Seq(Lines) /\ Len(wire') <= 2
  <2>1. CASE wire' = <<>>
    <3>1. Len(wire') = 0 /\ wire' \in Seq(Lines)
      BY <2>1, EmptySeq
    <3>2. QED
      BY <3>1 DEF Sending
  <2>2. CASE wire' # <<>>
    <3> DEFINE Line(ch) == [ch |-> ch, sec |-> sec', edge |-> edge']
    <3>1. mode = "running" /\ sec' = Count' /\ wire' \in Sent(sec', edge')
      BY <1>6, <1>7, <1>9, <1>3, <2>2 DEF Counted
    <3>2. sec' \in Secs /\ edge' \in Edges
      BY <1>2, <1>4, <1>6, <3>1, Bounds DEF Secs, Edges
    <3>3. \A ch \in Channels : Line(ch) \in Lines /\ Line(ch).edge = edge' /\ Line(ch).sec = Count'
                               /\ Line(ch).ch = ch
      BY <3>1, <3>2 DEF Lines
    <3>4. since' <= edge'
      BY <1>2, <1>3, <1>4
    <3>5. \A ch \in Channels : seen'[ch] < edge'
      BY <1>2, <1>3, <1>4 DEF IInv, Past, TypeOK
    <3>6. \/ \E ch \in Channels : wire' = <<Line(ch)>>
          \/ \E ch \in Channels : wire' = <<Line(ch), Line(Other(ch))>>
      BY <2>2, <3>1 DEF Sent
    <3> HIDE DEF Line
    <3>7. CASE \E ch \in Channels : wire' = <<Line(ch)>>
      <4>1. PICK ch \in Channels : wire' = <<Line(ch)>>
        BY <3>7
      <4>2. Len(wire') = 1 /\ wire'[1] = Line(ch) /\ wire' \in Seq(Lines)
        BY <3>3, <4>1
      <4>3. QED
        BY <3>3, <3>4, <3>5, <4>2 DEF Sending
    <3>8. CASE \E ch \in Channels : wire' = <<Line(ch), Line(Other(ch))>>
      <4>1. PICK ch \in Channels : wire' = <<Line(ch), Line(Other(ch))>>
        BY <3>8
      <4>2. Other(ch) \in Channels /\ Other(ch) # ch
        BY OtherChannel
      <4>3. /\ Len(wire') = 2 /\ wire'[1] = Line(ch) /\ wire'[2] = Line(Other(ch))
            /\ wire' \in Seq(Lines)
        BY <3>3, <4>1, <4>2
      <4>4. QED
        BY <3>3, <3>4, <3>5, <4>2, <4>3 DEF Sending
    <3>9. QED
      BY <3>6, <3>7, <3>8
  <2>3. QED
    BY <2>1, <2>2
<1>11. TypeOK'
  <2>1. /\ tick' \in 0 .. Second - 1 /\ edge' \in 0 .. MaxEdges /\ sec' \in 0 .. edge'
        /\ offerAge' \in 0 .. WindowHigh + 1
    BY <1>2, <1>4, <1>5, <1>6, Bounds DEF Second, WindowHigh
  <2>2. announced' \in BOOLEAN
    BY <1>2
  <2>3. QED
    BY <1>1, <1>3, <1>10, <2>1, <2>2 DEF TypeOK
<1>12. Paced'
  <2>1. 0 <= ReadLag /\ 0 <= TpLag + 1
    BY Bounds
  <2>2. QED
    BY <1>2, <2>1 DEF Paced
<1>13. InHand'
  BY <1>2, <1>3 DEF InHand
<1>14. Offered'
  <2>1. Offered /\ TpLag \in Nat /\ TpLag <= 7
    BY Bounds DEF IInv
  <2>2. (offer # None /\ offer = edge => offerAge >= tick + 2)'
    <3>1. SUFFICES ASSUME offer = edge + 1 PROVE offerAge' >= 2
      BY <1>2, <1>3
    <3>2. offerAge + TpLag + 1 >= 9
      BY <1>2, <2>1, <3>1 DEF Offered
    <3>3. QED
      BY <1>4, <1>5, <2>1, <3>2
  <2>3. (offer # None /\ offer < edge => offerAge > WindowHigh)'
    <3>1. SUFFICES ASSUME offer # None, offer < edge + 1 PROVE offerAge' > WindowHigh
      BY <1>2, <1>3
    <3>2. offer = edge \/ offer < edge
      BY <1>4, <3>1
    <3>3. offerAge >= 11
      BY <1>2, <1>4, <2>1, <3>1, <3>2 DEF Offered, WindowHigh
    <3>4. QED
      BY <1>4, <1>5, <3>3 DEF WindowHigh
  <2>4. offer <= edge + 1
    BY <2>1 DEF Offered
  <2>5. (offer <= edge + 1)' /\ ~(offer = edge + 1)'
    BY <1>2, <1>3, <1>4, <2>4
  <2>6. QED
    BY <2>2, <2>3, <2>5 DEF Offered
<1>15. \A ch \in Channels : seen[ch] \in Nat /\ seen[ch] <= edge
  BY <1>1 DEF IInv, Past, TypeOK
<1>16. latest.chA \in Nat /\ latest.chB \in Nat /\ latest.chA <= edge /\ latest.chB <= edge
  BY <1>1 DEF IInv, Past, TypeOK, Measurements, NoMeasurement, Edges
<1>17. Past'
  <2>1. \A ch \in Channels, s \in Secs : kept[ch][s] \in Nat /\ kept[ch][s] <= edge
    BY <1>1 DEF IInv, Past, TypeOK, None, Edges
  <2>2. \A s \in Secs : refQerr[s] \in Int /\ refQerr[s] <= edge
    BY <1>1 DEF IInv, Past, TypeOK, Absent, None, Edges
  <2>3. QED
    BY <1>2, <1>3, <1>4, <1>15, <1>16, <2>1, <2>2 DEF Past
<1>18. Stored' /\ QerrOfItsEdge'
  BY <1>3 DEF IInv, Stored, QerrOfItsEdge
<1>19. Waiting'
  BY <1>2, <1>3, <1>4, <1>15 DEF Waiting
<1>20. Met'
  <2>1. Late \in Channels /\ latest[Late] \in Nat /\ latest[Late] <= edge /\ Late' = Late
    <3>1. latest["chA"] = latest.chA /\ latest["chB"] = latest.chB
      OBVIOUS
    <3>2. QED
      BY <1>3, <1>16, <3>1 DEF Late, Channels
  <2>2. latest[Late] # edge'
    BY <1>2, <1>4, <2>1
  <2>3. QED
    BY <1>3, <2>1, <2>2 DEF IInv, Met
<1>21. QED
  BY <1>9, <1>10, <1>11, <1>12, <1>13, <1>14, <1>17, <1>18, <1>19, <1>20 DEF IInv

\* A TIM-TP arrives in the second before its edge.
LEMMA TimTpKeeps ==
    ASSUME IInv, TimTp
    PROVE  IInv'
<1>1. TypeOK /\ Paced /\ Offered
  BY DEF IInv
<1>2. /\ UNCHANGED <<tick, edge, mode, sec, since, restarts, port, booted, wire, pc, resets, line,
                     taken, kept, refQerr, armed, latest, seen>>
  BY DEF TimTp, ticcVars, portVars, readerVars, pairVars
<1>3. /\ announced' = TRUE /\ ~announced /\ tick >= 1 /\ edge < MaxEdges
      /\ (offer' = edge + 1 /\ offerAge' = 0) \/ UNCHANGED <<offer, offerAge>>
  BY DEF TimTp
<1>4. tick \in Nat /\ edge \in Nat
  BY <1>1, Clocks
<1>5. TypeOK'
  <2>1. announced' \in BOOLEAN
    BY <1>3
  <2>2. offer' \in {None} \union Edges /\ offerAge' \in 0 .. WindowHigh + 1
    <3>1. edge + 1 \in Edges /\ 0 \in 0 .. WindowHigh + 1
      BY <1>3, <1>4, Bounds DEF Edges, WindowHigh
    <3>2. QED
      BY <1>1, <1>3, <3>1 DEF TypeOK
  <2>3. QED
    BY <1>1, <1>2, <2>1, <2>2 DEF TypeOK
<1>6. Paced'
  BY <1>1, <1>2, <1>3 DEF Paced
<1>7. Offered'
  <2>1. CASE offer' = edge + 1 /\ offerAge' = 0
    <3>1. tick <= TpLag + 1 /\ TpLag \in Nat
      BY <1>1, <1>3, Bounds DEF Paced
    <3>2. QED
      BY <1>2, <1>3, <1>4, <2>1, <3>1 DEF Offered
  <2>2. CASE UNCHANGED <<offer, offerAge>>
    BY <1>1, <1>2, <2>2 DEF Offered
  <2>3. QED
    BY <1>3, <2>1, <2>2
<1>8. Counted' /\ Sending' /\ InHand'
  BY <1>2 DEF IInv, Counted, Sending, InHand, Count
<1>9. Past' /\ Stored' /\ Waiting' /\ Met' /\ QerrOfItsEdge'
  BY <1>2 DEF IInv, Past, Stored, Waiting, Count, Met, Late, QerrOfItsEdge
<1>10. QED
  BY <1>5, <1>6, <1>7, <1>8, <1>9 DEF IInv

-----------------------------------------------------------------------------
(* The reader *)

\* A line enters the tables, and the first of a second waits there for the
\* other: the second finds it and makes the measurement of that edge.
LEMMA IngestKeeps ==
    ASSUME IInv, Ingest
    PROVE  IInv'
<1> DEFINE l == Head(wire)
           c == l.ch
<1>1. TypeOK /\ Sending /\ Paced /\ Stored /\ Waiting /\ Met /\ Past
  BY DEF IInv
<1>2. wire # <<>> /\ wire' = Tail(wire) /\ taken' = None /\ line' = l
  BY DEF Ingest
<1>3. /\ l \in Lines /\ l.edge = edge /\ l.sec = Count /\ c \in Channels /\ l.sec \in Secs
      /\ since <= edge /\ seen[c] < edge
      /\ wire' \in Seq(Lines) /\ Len(wire') <= 2
      /\ \A i \in 1 .. Len(wire') : /\ i + 1 \in 1 .. Len(wire)
                                    /\ wire'[i] = wire[i + 1] /\ wire'[i].ch # c
  BY <1>1, <1>2, NextLine
<1>4. /\ kept' \in KeptTable /\ refQerr' \in QerrTable
      /\ kept'[c][Count] = edge
      /\ \A ch \in Channels, s \in Secs :
            ch # c \/ s # Count => kept'[ch][s] \in {None, kept[ch][s]}
      /\ \A s \in Secs : refQerr'[s] \in {Absent, refQerr[s]}
  BY <1>1, IngestTables
<1>5. \/ UNCHANGED <<armed, latest>> /\ kept[Other(c)][Count] = None
      \/ UNCHANGED latest /\ ~armed /\ armed' \in BOOLEAN
      \/ /\ armed' = TRUE
         /\ kept[Other(c)][Count] \in Edges
         /\ latest' \in Measurements
         /\ latest'[c] = edge
         /\ latest'[Other(c)] = kept[Other(c)][Count]
         /\ latest'.qerr \in {None, refQerr[Count]}
  BY <1>1, PairMeasured
<1>6. seen' = [seen EXCEPT ![c] = l.edge]
  BY DEF Ingest
<1>7. pc' \in {"read", "get", "store"} /\ (pc' # "read" => c # "chA")
  BY DEF Ingest
<1>8. /\ UNCHANGED <<tick, edge, mode, sec, since, restarts, port, booted, announced, offer,
                     offerAge, resets>>
  BY DEF Ingest, ticcVars, portVars, offerVars
<1> HIDE DEF c, l
<1>9. edge \in Nat /\ since \in Nat /\ since >= 1 /\ Count \in Secs /\ Count' = Count
  BY <1>1, <1>3, <1>8, Clocks DEF Count
<1>10. \A ch \in Channels : seen'[ch] = IF ch = c THEN edge ELSE seen[ch]
  BY <1>1, <1>3, <1>6 DEF TypeOK
<1>11. \A ch \in Channels : seen[ch] \in Nat /\ seen[ch] <= edge
  BY <1>1 DEF Past, TypeOK
<1>12. \A ch \in Channels, s \in Secs : kept[ch][s] \in Nat /\ kept[ch][s] <= edge
  BY <1>1 DEF Past, TypeOK, None, Edges
<1>13. \A s \in Secs : refQerr[s] \in Int /\ refQerr[s] <= edge
  BY <1>1 DEF Past, TypeOK, Absent, None, Edges
<1>14. /\ Other(c) \in Channels /\ Other(c) # c /\ Other(Other(c)) = c
       /\ \A ch \in Channels : ch = c \/ ch = Other(c)
  BY <1>3, OtherChannel
<1>15. TypeOK'
  <2>1. seen' \in [Channels -> 0 .. MaxEdges]
    <3>1. l.edge \in 0 .. MaxEdges
      BY <1>3, <1>9 DEF Lines, Edges
    <3>2. QED
      BY <1>1, <1>6, <3>1 DEF TypeOK
  <2>2. latest' \in Measurements \union {NoMeasurement} /\ armed' \in BOOLEAN
    BY <1>1, <1>5 DEF TypeOK
  <2>3. kept' \in [Channels -> [Secs -> {None} \union Edges]]
        /\ refQerr' \in [Secs -> {Absent, None} \union Edges]
    BY <1>4 DEF KeptTable, QerrTable
  <2>4. line' \in Lines \union {NoLine} /\ taken' \in {None} \union Edges
    BY <1>2, <1>3
  <2>5. pc' \in {"boot", "read", "get", "clear", "store", "sleep"}
    BY <1>7
  <2>6. QED
    BY <1>1, <1>3, <1>8, <2>1, <2>2, <2>3, <2>4, <2>5 DEF TypeOK
<1>16. Paced'
  BY <1>1, <1>2, <1>8 DEF Paced
<1>17. Counted' /\ Offered'
  BY <1>8 DEF IInv, Counted, Count, Offered
<1>18. Sending'
  <2>1. ASSUME NEW i \in 1 .. Len(wire')
        PROVE  /\ wire'[i] \in Lines /\ wire'[i].edge = edge /\ since <= edge
               /\ wire'[i].sec = Count /\ seen'[wire'[i].ch] < edge
    <3>1. /\ wire'[i] \in Lines /\ wire'[i].edge = edge /\ wire'[i].sec = Count
          /\ seen[wire'[i].ch] < edge /\ wire'[i].ch # c
      BY <1>1, <1>3 DEF Sending
    <3>2. wire'[i].ch \in Channels
      BY <3>1 DEF Lines
    <3>3. QED
      BY <1>3, <1>10, <3>1, <3>2
  <2>2. ASSUME NEW i \in 1 .. Len(wire'), NEW j \in 1 .. Len(wire'), i # j
        PROVE  wire'[i].ch # wire'[j].ch
    <3>1. i + 1 # j + 1
      BY <2>2
    <3>2. QED
      BY <1>1, <1>3, <3>1 DEF Sending
  <2>3. QED
    BY <1>8, <1>9, <2>1, <2>2 DEF Sending
<1>19. InHand'
  <2>1. ASSUME pc' \in {"get", "clear", "store"}
        PROVE  /\ line' \in Lines /\ line'.ch = "chB" /\ line'.edge = edge
               /\ line'.sec = Count /\ kept'["chB"][line'.sec] = edge
    <3>1. c = "chB"
      BY <1>3, <1>7, <2>1 DEF Channels
    <3>2. QED
      BY <1>2, <1>3, <1>4, <3>1 DEF c
  <2>2. QED
    BY <1>2, <1>8, <1>9, <2>1 DEF InHand
<1>20. Past'
  <2>1. \A ch \in Channels : seen'[ch] <= edge
    BY <1>9, <1>10, <1>11
  <2>2. \A ch \in Channels, s \in Secs : kept'[ch][s] <= edge
    <3> TAKE ch \in Channels, s \in Secs
    <3>1. CASE ch = c /\ s = Count
      BY <1>4, <1>9, <3>1
    <3>2. CASE ~(ch = c /\ s = Count)
      BY <1>4, <1>9, <1>12, <3>2 DEF None
    <3>3. QED
      BY <3>1, <3>2
  <2>3. \A s \in Secs : refQerr'[s] <= edge
    BY <1>4, <1>9, <1>13 DEF Absent
  <2>4. latest'.chA <= edge /\ latest'.chB <= edge
    <3>1. CASE UNCHANGED latest
      BY <1>1, <3>1 DEF Past
    <3>2. CASE latest'[c] = edge /\ latest'[Other(c)] = kept[Other(c)][Count]
      <4>1. latest'[c] <= edge /\ latest'[Other(c)] <= edge
        BY <1>9, <1>12, <1>14, <3>2
      <4>2. "chA" \in Channels /\ "chB" \in Channels
        BY DEF Channels
      <4>3. latest'["chA"] <= edge /\ latest'["chB"] <= edge
        BY <1>14, <4>1, <4>2
      <4>4. QED
        BY <4>3
    <3>3. QED
      BY <1>5, <3>1, <3>2
  <2>5. QED
    BY <1>8, <2>1, <2>2, <2>3, <2>4 DEF Past
<1>21. Stored'
  <2>1. ASSUME NEW s \in Secs, refQerr'[s] >= since
        PROVE  refQerr'[s] = since + s - 1 /\ kept'["chB"][s] \in {None, refQerr'[s]}
    <3>1. refQerr'[s] = refQerr[s]
      BY <1>4, <1>9, <2>1 DEF Absent
    <3>2. refQerr[s] = since + s - 1 /\ kept["chB"][s] \in {None, refQerr[s]}
      BY <1>1, <2>1, <3>1 DEF Stored
    <3>3. CASE "chB" = c /\ s = Count
      <4>1. refQerr[s] = edge
        BY <1>9, <3>2, <3>3 DEF Count
      <4>2. QED
        BY <1>4, <3>1, <3>2, <3>3, <4>1
    <3>4. CASE ~("chB" = c /\ s = Count)
      BY <1>4, <3>1, <3>2, <3>4 DEF Channels
    <3>5. QED
      BY <3>3, <3>4
  <2>2. QED
    BY <1>8, <2>1 DEF Stored
<1>22. Waiting'
  <2>1. ASSUME NEW ch \in Channels, seen'[ch] = edge, seen'[Other(ch)] < edge
        PROVE  kept'[ch][Count] = edge
    <3>1. ch = c
      <4>1. SUFFICES ASSUME ch = Other(c) PROVE FALSE
        BY <1>14
      <4>2. seen'[Other(ch)] = edge
        BY <1>3, <1>10, <1>14, <4>1
      <4>3. QED
        BY <1>9, <2>1, <4>2
    <3>2. QED
      BY <1>4, <3>1
  <2>2. QED
    BY <1>8, <1>9, <2>1 DEF Waiting
<1>23. Met'
  <2>1. Late \in Channels /\ Late' \in Channels
    BY DEF Late, Channels
  <2>2. latest.chA \in Nat /\ latest.chB \in Nat /\ latest.chA <= edge /\ latest.chB <= edge
    BY <1>1 DEF Past, TypeOK, Measurements, NoMeasurement, Edges
  <2>3. latest[Late] \in Nat /\ latest[Late] <= edge
    <3>1. latest["chA"] = latest.chA /\ latest["chB"] = latest.chB
      OBVIOUS
    <3>2. QED
      BY <2>2, <3>1 DEF Late
  <2>4. CASE UNCHANGED latest /\ (armed' = armed \/ latest.chA = latest.chB)
    <3>1. Late' = Late
      BY <2>4 DEF Late
    <3>2. SUFFICES ASSUME latest.chA # latest.chB
                   PROVE  /\ armed /\ seen'[Late] >= latest[Late]
                          /\ latest[Late] = edge => seen'[Other(Late)] < edge
                          /\ seen'[Other(Late)] # latest[Late]
      BY <1>8, <2>4, <3>1 DEF Met
    <3>3. /\ armed /\ seen[Late] >= latest[Late]
          /\ latest[Late] = edge => seen[Other(Late)] < edge
          /\ seen[Other(Late)] # latest[Late]
      BY <1>1, <3>2 DEF Met
    <3>4. seen'[Late] >= latest[Late]
      BY <1>10, <1>11, <2>1, <2>3, <3>3
    <3>5. Other(Late) \in Channels /\ Other(Late) # Late /\ Other(Other(Late)) = Late
      BY <2>1, OtherChannel
    <3>6. CASE c = Late
      <4>1. seen'[Other(Late)] = seen[Other(Late)]
        BY <1>10, <3>5, <3>6
      <4>2. QED
        BY <3>3, <3>4, <4>1
    <3>7. CASE c = Other(Late)
      <4>1. latest[Late] # edge
        <5>1. SUFFICES ASSUME latest[Late] = edge PROVE FALSE
          OBVIOUS
        <5>2. seen[Late] = edge /\ seen[Other(Late)] < edge
          BY <1>11, <2>1, <3>3, <5>1, <1>9
        <5>3. kept[Late][Count] = edge
          BY <1>1, <1>3, <2>1, <5>2 DEF Waiting
        <5>4. kept[Other(c)][Count] = edge /\ edge # None
          BY <1>3, <1>9, <3>5, <3>7, <5>3 DEF None
        <5>5. latest'[c] = edge /\ latest'[Other(c)] = edge
          BY <1>5, <3>3, <5>4
        <5>6. latest'["chA"] = latest'["chB"]
          <6>1. "chA" \in Channels /\ "chB" \in Channels
            BY DEF Channels
          <6>2. QED
            BY <1>14, <5>5, <6>1
        <5>7. latest.chA = latest.chB
          BY <2>4, <5>6
        <5>8. QED
          BY <3>2, <5>7
      <4>2. seen'[Other(Late)] = edge
        BY <1>10, <3>5, <3>7
      <4>3. QED
        BY <3>3, <3>4, <4>1, <4>2
    <3>8. QED
      BY <1>14, <2>1, <3>5, <3>6, <3>7
  <2>5. CASE UNCHANGED latest /\ ~armed
    <3>1. latest.chA = latest.chB
      BY <1>1, <2>5 DEF Met
    <3>2. QED
      BY <2>4, <2>5, <3>1
  <2>6. CASE /\ armed' = TRUE /\ latest'[c] = edge
             /\ latest'[Other(c)] = kept[Other(c)][Count]
    <3>1. SUFFICES ASSUME latest'.chA # latest'.chB
                   PROVE  /\ seen'[Late'] >= latest'[Late']
                          /\ latest'[Late'] = edge /\ seen'[Other(Late')] < edge
      <4>1. \A n \in Nat : n < edge => n # edge
        BY <1>9
      <4>2. Other(Late') \in Channels
        BY <2>1, OtherChannel
      <4>3. seen'[Other(Late')] \in Nat
        BY <1>9, <1>10, <1>11, <4>2
      <4>4. QED
        BY <1>8, <2>6, <4>1, <4>3 DEF Met
    <3>2. latest'[c] # latest'[Other(c)]
      <4>1. latest'["chA"] # latest'["chB"]
        BY <3>1
      <4>2. "chA" \in Channels /\ "chB" \in Channels
        BY DEF Channels
      <4>3. QED
        BY <1>3, <1>14, <4>1, <4>2 DEF Channels, Other
    <3>3. kept[Other(c)][Count] \in Nat /\ kept[Other(c)][Count] < edge
      BY <1>9, <1>12, <1>14, <2>6, <3>2
    <3>4. Late' = c
      <4>1. latest'[c] > latest'[Other(c)]
        BY <1>9, <2>6, <3>3
      <4>2. CASE c = "chA"
        <5>1. latest'["chA"] > latest'["chB"]
          BY <4>1, <4>2 DEF Other
        <5>2. QED
          BY <4>2, <5>1 DEF Late
      <4>3. CASE c = "chB"
        <5>1. latest'["chB"] > latest'["chA"]
          BY <4>1, <4>3 DEF Other
        <5>2. latest'["chA"] \in Nat /\ latest'["chB"] \in Nat
          BY <1>9, <2>6, <3>3, <4>3 DEF Other
        <5>3. ~(latest'["chA"] > latest'["chB"])
          BY <5>1, <5>2
        <5>4. QED
          BY <4>3, <5>3 DEF Late
      <4>4. QED
        BY <1>3, <4>2, <4>3 DEF Channels
    <3>5. seen'[c] = edge /\ seen'[Other(c)] = seen[Other(c)]
      BY <1>3, <1>10, <1>14
    <3>6. seen[Other(c)] < edge
      <4>1. SUFFICES ASSUME seen[Other(c)] = edge PROVE FALSE
        BY <1>9, <1>11, <1>14
      <4>2. kept[Other(c)][Count] = edge
        BY <1>1, <1>3, <1>14, <4>1 DEF Waiting
      <4>3. QED
        BY <1>9, <3>3, <4>2
    <3>7. QED
      BY <1>9, <2>6, <3>4, <3>5, <3>6
  <2>7. QED
    BY <1>5, <2>4, <2>5, <2>6
<1>24. QerrOfItsEdge'
  <2>1. CASE UNCHANGED latest
    BY <1>8, <2>1 DEF IInv, QerrOfItsEdge
  <2>2. CASE /\ latest'[c] = edge /\ latest'[Other(c)] = kept[Other(c)][Count]
             /\ kept[Other(c)][Count] \in Edges
             /\ latest'.qerr \in {None, refQerr[Count]}
    <3>1. SUFFICES ASSUME latest'.qerr # None, latest'.qerr # latest'.chB,
                          ~(latest'.qerr < since)
                   PROVE  FALSE
      BY <1>8 DEF QerrOfItsEdge
    <3>2. latest'.qerr = refQerr[Count] /\ refQerr[Count] >= since
      BY <1>9, <1>13, <2>2, <3>1
    <3>3. refQerr[Count] = edge /\ kept["chB"][Count] \in {None, refQerr[Count]}
      BY <1>1, <1>9, <3>2 DEF Stored, Count
    <3>4. latest'["chB"] # edge
      BY <3>1, <3>2, <3>3
    <3>5. c # "chB"
      BY <2>2, <3>4
    <3>6. Other(c) = "chB"
      BY <1>3, <3>5 DEF Channels, Other
    <3>7. kept["chB"][Count] # None
      BY <2>2, <3>6 DEF Edges, None
    <3>8. QED
      BY <2>2, <3>3, <3>4, <3>6, <3>7
  <2>3. QED
    BY <1>5, <2>1, <2>2
<1>25. QED
  BY <1>15, <1>16, <1>17, <1>18, <1>19, <1>20, <1>21, <1>22, <1>23, <1>24 DEF IInv

\* An offer within the window is for the edge of the line in hand.  One for
\* the next edge is too young, for the line is read in time; one for an edge
\* that has passed is too old.
LEMMA GetPendingKeeps ==
    ASSUME IInv, GetPending
    PROVE  IInv'
<1>1. TypeOK /\ Paced /\ InHand /\ Offered
  BY DEF IInv
<1>2. /\ UNCHANGED <<tick, edge, mode, sec, since, restarts, port, booted, wire, announced, offer,
                     offerAge, resets, line, kept, refQerr, armed, latest, seen>>
  BY DEF GetPending, ticcVars, portVars, offerVars, pairVars
<1>3. /\ pc = "get"
      /\ \/ taken' = offer /\ pc' = "clear" /\ offer # None /\ InWindow(offerAge)
         \/ taken' = taken /\ pc' = "store"
  BY DEF GetPending
<1>4. ASSUME offer # None, InWindow(offerAge)
      PROVE  offer = edge
  <2>1. /\ edge \in Nat /\ offer \in Nat /\ offerAge \in Nat /\ tick \in Nat
        /\ offerAge >= 8 /\ offerAge <= 11
    BY <1>1, <1>4, Clocks DEF InWindow, WindowLow, WindowHigh
  <2>2. tick <= 8
    <3>1. tick <= ReadLag
      BY <1>1, <1>3 DEF Paced
    <3>2. QED
      BY <2>1, <3>1, Bounds
  <2>3. offer # edge + 1
    BY <1>1, <2>1, <2>2 DEF Offered
  <2>4. ~(offer < edge)
    BY <1>1, <1>4, <2>1 DEF Offered, WindowHigh
  <2>5. offer <= edge + 1
    BY <1>1 DEF Offered
  <2>6. QED
    BY <2>1, <2>3, <2>4, <2>5
<1>5. TypeOK'
  <2>1. taken' \in {None} \union Edges
    BY <1>1, <1>3 DEF TypeOK
  <2>2. pc' \in {"boot", "read", "get", "clear", "store", "sleep"}
    BY <1>3
  <2>3. QED
    BY <1>1, <1>2, <2>1, <2>2 DEF TypeOK
<1>6. InHand'
  <2>1. /\ line \in Lines /\ line.ch = "chB" /\ line.edge = edge
        /\ since <= edge => line.sec = Count /\ kept["chB"][line.sec] = edge
        /\ taken \in {None, edge}
    BY <1>1, <1>3 DEF InHand
  <2>2. taken' \in {None, edge}
    BY <1>3, <1>4, <2>1
  <2>3. QED
    BY <1>2, <2>1, <2>2 DEF InHand, Count
<1>7. Paced'
  BY <1>1, <1>2, <1>3 DEF Paced
<1>8. Counted' /\ Sending' /\ Offered'
  BY <1>2 DEF IInv, Counted, Sending, Offered, Count
<1>9. Past' /\ Stored' /\ Waiting' /\ Met' /\ QerrOfItsEdge'
  BY <1>2 DEF IInv, Past, Stored, Waiting, Count, Met, Late, QerrOfItsEdge
<1>10. QED
  BY <1>5, <1>6, <1>7, <1>8, <1>9 DEF IInv

LEMMA ClearPendingKeeps ==
    ASSUME IInv, ClearPending
    PROVE  IInv'
<1>1. TypeOK /\ Paced /\ InHand /\ Offered
  BY DEF IInv
<1>2. /\ UNCHANGED <<tick, edge, mode, sec, since, restarts, port, booted, wire, announced,
                     offerAge, resets, line, taken, kept, refQerr, armed, latest, seen>>
      /\ pc = "clear" /\ pc' = "store" /\ offer' = None
  BY DEF ClearPending, ticcVars, portVars, pairVars
<1>3. TypeOK'
  <2>1. offer' \in {None} \union Edges
    BY <1>2
  <2>2. pc' \in {"boot", "read", "get", "clear", "store", "sleep"}
    BY <1>2
  <2>3. QED
    BY <1>1, <1>2, <2>1, <2>2 DEF TypeOK
<1>4. Paced' /\ InHand'
  BY <1>1, <1>2 DEF Paced, InHand, Count
<1>5. Offered'
  <2>1. edge \in Nat /\ offer' = 0 /\ 0 # edge + 1 /\ 0 <= edge + 1
    BY <1>1, <1>2, Clocks DEF None
  <2>2. QED
    BY <1>2, <2>1 DEF Offered, None
<1>6. Counted' /\ Sending'
  BY <1>2 DEF IInv, Counted, Sending, Count
<1>7. Past' /\ Stored' /\ Waiting' /\ Met' /\ QerrOfItsEdge'
  BY <1>2 DEF IInv, Past, Stored, Waiting, Count, Met, Late, QerrOfItsEdge
<1>8. QED
  BY <1>3, <1>4, <1>5, <1>6, <1>7 DEF IInv

\* What is stored is none, or the error of the edge whose second it is stored
\* for; if the TICC has restarted since, it is of an edge before.
LEMMA StoreKeeps ==
    ASSUME IInv, StoreRefQerr
    PROVE  IInv'
<1>1. TypeOK /\ InHand /\ Past /\ Stored
  BY DEF IInv
<1>2. /\ UNCHANGED <<tick, edge, mode, sec, since, restarts, port, booted, wire, announced, offer,
                     offerAge, resets, line, taken, kept, armed, latest, seen>>
      /\ pc = "store" /\ pc' = "read" /\ refQerr' = [refQerr EXCEPT ![line.sec] = taken]
  BY DEF StoreRefQerr, ticcVars, portVars, offerVars
<1>3. /\ line \in Lines /\ line.sec \in Secs
      /\ since <= edge => line.sec = Count /\ kept["chB"][line.sec] = edge
      /\ taken \in {None, edge} /\ taken \in {None} \union Edges
  BY <1>1, <1>2 DEF InHand, TypeOK, Lines
<1>4. edge \in Nat /\ since \in Nat /\ since >= 1
  BY <1>1, Clocks
<1>5. /\ refQerr' \in [Secs -> {Absent, None} \union Edges]
      /\ \A s \in Secs : refQerr'[s] = IF s = line.sec THEN taken ELSE refQerr[s]
  BY <1>1, <1>2, <1>3 DEF TypeOK
<1>6. TypeOK'
  <2>1. pc' \in {"boot", "read", "get", "clear", "store", "sleep"}
    BY <1>2
  <2>2. QED
    BY <1>1, <1>2, <1>5, <2>1 DEF TypeOK
<1>7. Paced' /\ InHand'
  BY <1>2 DEF IInv, Paced, InHand
<1>8. Past'
  <2>1. \A s \in Secs : refQerr'[s] <= edge
    BY <1>1, <1>3, <1>4, <1>5 DEF Past, None
  <2>2. QED
    BY <1>1, <1>2, <2>1 DEF Past
<1>9. Stored'
  <2>1. ASSUME NEW s \in Secs, refQerr'[s] >= since
        PROVE  refQerr'[s] = since + s - 1 /\ kept["chB"][s] \in {None, refQerr'[s]}
    <3>1. CASE s = line.sec
      <4>1. refQerr'[s] = edge /\ since <= edge
        BY <1>3, <1>4, <1>5, <2>1, <3>1 DEF None
      <4>2. s = Count /\ kept["chB"][s] = edge
        BY <1>3, <3>1, <4>1
      <4>3. QED
        BY <1>4, <4>1, <4>2 DEF Count
    <3>2. CASE s # line.sec
      BY <1>1, <1>5, <2>1, <3>2 DEF Stored
    <3>3. QED
      BY <3>1, <3>2
  <2>2. QED
    BY <1>2, <2>1 DEF Stored
<1>10. Counted' /\ Sending' /\ Offered'
  BY <1>2 DEF IInv, Counted, Sending, Offered, Count
<1>11. Waiting' /\ Met' /\ QerrOfItsEdge'
  BY <1>2 DEF IInv, Waiting, Count, Met, Late, QerrOfItsEdge
<1>12. QED
  BY <1>6, <1>7, <1>8, <1>9, <1>10, <1>11 DEF IInv

-----------------------------------------------------------------------------
(* The invariant *)

LEMMA InitIInv == Init => IInv
<1> SUFFICES ASSUME Init PROVE IInv
  OBVIOUS
<1>1. wire = <<>> /\ Len(wire) = 0 /\ wire \in Seq(Lines)
  BY EmptySeq DEF Init
<1>2. TypeOK
  <2>1. /\ tick \in 0 .. Second - 1 /\ edge \in 0 .. MaxEdges /\ sec \in 0 .. edge
        /\ since \in 1 .. MaxEdges + 1 /\ restarts \in 0 .. MaxRestarts
        /\ offerAge \in 0 .. WindowHigh + 1 /\ resets \in 0 .. MaxResets
        /\ seen \in [Channels -> 0 .. MaxEdges]
    BY Bounds DEF Init, Second, WindowHigh
  <2>2. Len(wire) <= 2
    BY <1>1
  <2>3. /\ kept \in [Channels -> [Secs -> {None} \union Edges]]
        /\ refQerr \in [Secs -> {Absent, None} \union Edges]
    BY DEF Init
  <2>4. FALSE \in BOOLEAN
    OBVIOUS
  <2>5. QED
    BY <1>1, <2>1, <2>2, <2>3, <2>4 DEF Init, TypeOK
<1>3. Paced /\ Counted
  <2>1. tick = 0 /\ edge = 0 /\ since = 1 /\ sec = 0 /\ 0 <= TpLag + 1
    BY Bounds DEF Init
  <2>2. QED
    BY <1>1, <2>1 DEF Init, Paced, Counted, Count
<1>4. Sending
  BY <1>1 DEF Sending
<1>5. InHand
  BY DEF Init, InHand
<1>6. Offered
  BY DEF Init, Offered, None
<1>7. Past
  BY DEF Init, Past, None, Absent, NoMeasurement
<1>8. Stored
  BY DEF Init, Stored, Absent
<1>9. Waiting
  BY DEF Init, Waiting
<1>10. Met /\ QerrOfItsEdge
  BY DEF Init, Met, QerrOfItsEdge, NoMeasurement, None
<1>11. QED
  BY <1>2, <1>3, <1>4, <1>5, <1>6, <1>7, <1>8, <1>9, <1>10 DEF IInv

LEMMA StepIInv == IInv /\ [Next]_vars => IInv'
<1> SUFFICES ASSUME IInv, [Next]_vars PROVE IInv'
  OBVIOUS
<1>1. CASE PortStep
  BY <1>1, PortKeeps
<1>2. CASE Tick
  BY <1>2, TickKeeps
<1>3. CASE PpsEdge
  BY <1>3, PpsEdgeKeeps
<1>4. CASE TimTp
  BY <1>4, TimTpKeeps
<1>5. CASE Ingest
  BY <1>5, IngestKeeps
<1>6. CASE GetPending
  BY <1>6, GetPendingKeeps
<1>7. CASE ClearPending
  BY <1>7, ClearPendingKeeps
<1>8. CASE StoreRefQerr
  BY <1>8, StoreKeeps
<1>9. CASE UNCHANGED vars
  <2>1. UNCHANGED <<tick, edge, mode, sec, since, restarts, port, booted, wire, announced, offer,
                    offerAge, pc, resets, line, taken, kept, refQerr, armed, latest, seen>>
    BY <1>9 DEF vars, ticcVars, portVars, offerVars, readerVars, pairVars
  <2>2. TypeOK' /\ Paced' /\ Counted' /\ Sending' /\ InHand'
    BY <2>1 DEF IInv, TypeOK, Paced, Counted, Sending, InHand, Count
  <2>3. Offered' /\ Past' /\ Stored' /\ Waiting' /\ Met' /\ QerrOfItsEdge'
    BY <2>1 DEF IInv, Offered, Past, Stored, Waiting, Count, Met, Late, QerrOfItsEdge
  <2>4. QED
    BY <2>2, <2>3 DEF IInv
<1>10. QED
  BY <1>1, <1>2, <1>3, <1>4, <1>5, <1>6, <1>7, <1>8, <1>9
     DEF Next, Reader, Environment, PortStep

LEMMA Invariance == Spec => []IInv
BY InitIInv, StepIInv, PTL DEF Spec

\* The lines on the wire, the tables of the tracker and the retries of the boot
\* stay in their ranges: no boot wait resets the TICC more than MaxResets times.
THEOREM TypeCorrect == Spec => []TypeOK
<1>1. IInv => TypeOK
  BY DEF IInv
<1>2. QED
  BY <1>1, Invariance, PTL

\* A measurement comes with the quantisation error of its own PPS edge, or one
\* left from before the last restart of the TICC.
THEOREM QerrRight == Spec => []QerrOfItsEdge
<1>1. IInv => QerrOfItsEdge
  BY DEF IInv
<1>2. QED
  BY <1>1, Invariance, PTL

\* When both channels have read the later edge of a measurement, it is a
\* measurement of that edge alone.
THEOREM MixedCorrected == Spec => []MixedPairIsCorrected
<1>1. IInv => MixedPairIsCorrected
  <2> SUFFICES ASSUME IInv, latest.chA # latest.chB
               PROVE  \E ch \in Channels :
                         seen[ch] # IF latest.chA > latest.chB THEN latest.chA ELSE latest.chB
    BY DEF MixedPairIsCorrected
  <2>1. Late \in Channels
    BY DEF Late, Channels
  <2>2. Other(Late) \in Channels
    BY <2>1, OtherChannel
  <2>3. latest[Late] = IF latest.chA > latest.chB THEN latest.chA ELSE latest.chB
    BY DEF Late
  <2>4. seen[Other(Late)] # latest[Late]
    BY DEF IInv, Met
  <2>5. QED
    BY <2>2, <2>3, <2>4
<1>2. QED
  BY <1>1, Invariance, PTL
=============================================================================
