------------------------- MODULE NotificationsProofs -------------------------
(***************************************************************************)
(* What marking and leasing promise, for any number of events, dispatchers *)
(* and attempts, whoever signs in on the devices: a row marked as sent was *)
(* taken and stays marked, and a device gets a message again only after a  *)
(* claim on its row was lost.                                              *)
(***************************************************************************)
EXTENDS Notifications, TLAPS, FiniteSetTheorems

-----------------------------------------------------------------------------
(***************************************************************************)
(* Types.                                                                  *)
(***************************************************************************)
Message == Event \X Device
Ticket  == Message \X {"ok", "DeviceNotRegistered", "error"}

Row ==
  [status : {"absent", "pending"}, attempts : Nat, lease : {"free", "held", "lapsed"},
   sent : BOOLEAN, lapses : Nat]

OutboxTypeOK ==
  /\ row \in [Event -> Row]
  /\ batch \in [Dispatcher -> SUBSET Message]
  /\ tickets \in [Dispatcher -> SUBSET Ticket]
  /\ accepted \in [Message -> Nat] /\ givenBack \in [Message -> Nat]

\* What the people do with their devices does not touch the outbox.
LEMMA DevicesStandAside ==
  ASSUME NEW t,
         \/ UsesApp(t) \/ Relaunches(t) \/ AsksToRegister(t) \/ ForgetsToken(t)
         \/ \E p \in Person : RegisterPushToken(t, p)
  PROVE  UNCHANGED <<row, batch, tickets, history>>
BY DEF history, UsesApp, NothingElse, Relaunches, AsksToRegister, ForgetsToken, RegisterPushToken

\* The new values of each action of a dispatcher.
LEMMA ClaimType ==
  ASSUME OutboxTypeOK, NEW d \in Dispatcher, ClaimNotificationBatch(d)
  PROVE  OutboxTypeOK'
<1>1. \A r \in Row : [r EXCEPT !.attempts = @ + 1, !.lease = "held"] \in Row
  <2> TAKE r \in Row
  <2>1. r.attempts + 1 \in Nat
    BY DEF Row
  <2> QED  BY <2>1 DEF Row
<1>2. row' \in [Event -> Row]
  BY <1>1 DEF ClaimNotificationBatch, OutboxTypeOK
<1>3. {e \in Event : Due(e)} \X Devices \in SUBSET Message
  BY DEF Devices, Message
<1> QED  BY <1>2, <1>3 DEF ClaimNotificationBatch, OutboxTypeOK, history

LEMMA PostsType ==
  ASSUME OutboxTypeOK, NEW d \in Dispatcher, Posts(d)
  PROVE  /\ OutboxTypeOK'
         /\ givenBack' = givenBack
         /\ \E answer \in [batch[d] -> {"ok", "DeviceNotRegistered", "error"}] :
              /\ \A m \in Message :
                   accepted'[m] = accepted[m] + (IF m \in batch[d] /\ answer[m] = "ok" THEN 1 ELSE 0)
              /\ \/ tickets' = tickets
                 \/ tickets' = [tickets EXCEPT ![d] = {<<m, answer[m]>> : m \in batch[d]}]
<1>1. PICK answer \in [batch[d] -> {"ok", "DeviceNotRegistered", "error"}] :
        /\ Taken({m \in batch[d] : answer[m] = "ok"})
        /\ tickets' \in {tickets, [tickets EXCEPT ![d] = {<<m, answer[m]>> : m \in batch[d]}]}
  BY DEF Posts
<1>2. batch[d] \subseteq Message
  BY DEF OutboxTypeOK
<1>3. \A m \in Message :
        accepted'[m] = accepted[m] + (IF m \in batch[d] /\ answer[m] = "ok" THEN 1 ELSE 0)
  BY <1>1 DEF Taken, Message
<1>4. accepted' \in [Message -> Nat]
  BY <1>1 DEF Taken, Message, OutboxTypeOK
<1>5. {<<m, answer[m]>> : m \in batch[d]} \in SUBSET Ticket
  BY <1>2 DEF Ticket
<1>6. tickets' \in [Dispatcher -> SUBSET Ticket]
  BY <1>1, <1>5 DEF OutboxTypeOK
<1>7. row' = row /\ givenBack' = givenBack /\ batch' \in [Dispatcher -> SUBSET Message]
  BY DEF Posts, OutboxTypeOK
<1> QED  BY <1>1, <1>3, <1>4, <1>6, <1>7 DEF OutboxTypeOK

\* Claims on the row of message n that marking ticket x ends, if x is not n's own.
Ended(x, e, n) ==
  IF x[2] # "ok" /\ n[1] = e /\ n # x[1] /\ row[e].lease = "held" THEN 1 ELSE 0

MarksTicket(d, x, e, t) ==
  /\ x[1] = <<e, t>>
  /\ tickets' = [tickets EXCEPT ![d] = tickets[d] \ {x}]
  /\ row' = [row EXCEPT ![e] = IF x[2] = "ok" THEN Sent(row[e]) ELSE Failed(row[e])]
  /\ \A n \in Message : givenBack'[n] = givenBack[n] + Ended(x, e, n)

LEMMA MarkType ==
  ASSUME OutboxTypeOK, NEW d \in Dispatcher, MarkNotificationSent(d)
  PROVE  /\ OutboxTypeOK'
         /\ \E x \in tickets[d], e \in Event, t \in Device : MarksTicket(d, x, e, t)
<1>1. PICK x \in tickets[d] :
        /\ tickets' = [tickets EXCEPT ![d] = tickets[d] \ {x}]
        /\ row' = [row EXCEPT ![x[1][1]] = IF x[2] = "ok" THEN Sent(row[x[1][1]]) ELSE Failed(row[x[1][1]])]
        /\ x[2] = "ok" => givenBack' = givenBack
        /\ x[2] # "ok" => GivesBack(x[1])
  BY DEF MarkNotificationSent, Accepts
<1>2. x \in Ticket
  BY DEF OutboxTypeOK
<1>3. PICK e \in Event, t \in Device : x[1] = <<e, t>>
  BY <1>2 DEF Ticket, Message
<1>4. Sent(row[e]) \in Row /\ Failed(row[e]) \in Row
  BY DEF OutboxTypeOK, Row, Sent, Failed
<1>5. /\ x[1][1] = e
      /\ row' = [row EXCEPT ![e] = IF x[2] = "ok" THEN Sent(row[e]) ELSE Failed(row[e])]
  BY <1>1, <1>3
<1>6. \A m : GivesBack(m) => givenBack' \in [Message -> Nat]
  BY DEF GivesBack, OutboxTypeOK, Message
<1>7. givenBack' \in [Message -> Nat]
  <2>1. CASE x[2] = "ok"
    BY <1>1, <2>1 DEF OutboxTypeOK
  <2>2. CASE x[2] # "ok"
    BY <1>1, <1>6, <2>2
  <2> QED  BY <2>1, <2>2
<1>8. OutboxTypeOK'
  BY <1>1, <1>4, <1>5, <1>7 DEF MarkNotificationSent, OutboxTypeOK
<1>9. \A n \in Message : givenBack'[n] = givenBack[n] + Ended(x, e, n)
  <2>1. CASE x[2] = "ok"
    BY <1>1, <2>1 DEF OutboxTypeOK, Ended
  <2>2. CASE x[2] # "ok"
    BY <1>1, <1>5, <2>2 DEF GivesBack, Message, Ended
  <2> QED  BY <2>1, <2>2
<1>10. MarksTicket(d, x, e, t)
  BY <1>1, <1>3, <1>5, <1>9 DEF MarksTicket
<1> QED  BY <1>8, <1>10

LEMMA LapsesType ==
  ASSUME OutboxTypeOK, NEW e \in Event, Lapses(e)
  PROVE  /\ OutboxTypeOK'
         /\ row'[e].lapses = row[e].lapses + 1 /\ row'[e].sent = row[e].sent
         /\ row[e].lease = "held" /\ row'[e].lease = "lapsed"
         /\ \A x \in Event \ {e} : row'[x] = row[x]
         /\ UNCHANGED <<batch, tickets, history>>
<1> DEFINE r == [row[e] EXCEPT !.lease = "lapsed", !.lapses = row[e].lapses + 1]
<1>1. row[e] \in Row /\ row[e].lapses + 1 \in Nat
  BY DEF OutboxTypeOK, Row
<1>2. row' = [row EXCEPT ![e] = r]
  BY DEF Lapses
<1>3. r \in Row /\ r.lapses = row[e].lapses + 1 /\ r.sent = row[e].sent /\ r.lease = "lapsed"
  BY <1>1 DEF Row
<1> HIDE DEF r
<1> QED  BY <1>2, <1>3 DEF Lapses, OutboxTypeOK, history

LEMMA EnqueueType ==
  ASSUME OutboxTypeOK, NEW e \in Event, EnqueueOrderNotification(e)
  PROVE  /\ OutboxTypeOK'
         /\ \A x \in Event : row'[x].sent = row[x].sent /\ row'[x].lease = row[x].lease
                             /\ row'[x].lapses = row[x].lapses
         /\ UNCHANGED <<batch, tickets, history>>
<1>1. PICK r : r = [row[e] EXCEPT !.status = "pending"]
  OBVIOUS
<1>2. row[e] \in Row /\ row' = [row EXCEPT ![e] = r]
  BY <1>1 DEF EnqueueOrderNotification, OutboxTypeOK
<1>3. r \in Row /\ r.lapses = row[e].lapses /\ r.sent = row[e].sent /\ r.lease = row[e].lease
  BY <1>1, <1>2 DEF Row
<1> QED  BY <1>2, <1>3 DEF EnqueueOrderNotification, OutboxTypeOK, history

LEMMA CrashType ==
  ASSUME OutboxTypeOK, NEW d \in Dispatcher, Crashes(d)
  PROVE  OutboxTypeOK'
BY DEF Crashes, OutboxTypeOK, history

LEMMA OutboxType == Spec => []OutboxTypeOK
<1>1. Init => OutboxTypeOK
  BY DEF Init, OutboxTypeOK, NoRow, Row, Message
<1>2. OutboxTypeOK /\ [Next]_vars => OutboxTypeOK'
  <2> SUFFICES ASSUME OutboxTypeOK, [Next]_vars PROVE OutboxTypeOK'
    OBVIOUS
  <2>1. CASE UNCHANGED <<row, batch, tickets, history>>
    BY <2>1 DEF OutboxTypeOK, history
  <2> QED
    BY <2>1, DevicesStandAside, ClaimType, PostsType, MarkType, LapsesType, EnqueueType,
       CrashType DEF Next, vars
<1> QED  BY <1>1, <1>2, PTL DEF Spec

-----------------------------------------------------------------------------
(***************************************************************************)
(* What is marked as sent.                                                 *)
(***************************************************************************)
\* A good ticket is for a message the provider took.
SentInv ==
  /\ \A d \in Dispatcher : \A x \in tickets[d] : x[2] = "ok" => accepted[x[1]] > 0
  /\ SentMeansTaken

LEMMA SentStaysSent ==
  ASSUME OutboxTypeOK, [Next]_vars, NEW e \in Event, row[e].sent
  PROVE  row'[e].sent
<1>1. ASSUME NEW d \in Dispatcher, ClaimNotificationBatch(d) PROVE row'[e].sent
  BY <1>1 DEF ClaimNotificationBatch, Due
<1>2. ASSUME NEW d \in Dispatcher, MarkNotificationSent(d) PROVE row'[e].sent
  <2>0. PICK x \in tickets[d], f \in Event, t \in Device : MarksTicket(d, x, f, t)
    BY <1>2, MarkType
  <2>1. row' = [row EXCEPT ![f] = IF x[2] = "ok" THEN Sent(row[f]) ELSE Failed(row[f])]
    BY <2>0 DEF MarksTicket
  <2>2. \A r \in Row : Sent(r).sent /\ (r.sent => Failed(r).sent)
    BY DEF Row, Sent, Failed
  <2> QED  BY <2>1, <2>2 DEF OutboxTypeOK
<1>3. ASSUME NEW f \in Event, Lapses(f) PROVE row'[e].sent
  BY <1>3, LapsesType
<1>4. ASSUME NEW f \in Event, EnqueueOrderNotification(f) PROVE row'[e].sent
  BY <1>4, EnqueueType
<1>5. CASE UNCHANGED row
  BY <1>5
<1> QED
  BY <1>1, <1>2, <1>3, <1>4, <1>5, DevicesStandAside DEF Next, vars, Posts, Crashes

(* A row marked as sent is never posted again for want of the mark: a      *)
(* dispatcher that outlived its lease and fails takes nothing back.        *)
THEOREM MarksAreKept == Spec => SentStays
<1>1. OutboxTypeOK /\ [Next]_vars => [\A e \in Event : row[e].sent => row'[e].sent]_vars
  BY SentStaysSent
<1> QED  BY <1>1, OutboxType, PTL DEF Spec, SentStays

\* What the provider took it does not give back.
LEMMA AcceptedGrows ==
  ASSUME OutboxTypeOK, [Next]_vars, NEW m \in Message
  PROVE  accepted'[m] \in Nat /\ accepted'[m] >= accepted[m]
<1>1. accepted[m] \in Nat
  BY DEF OutboxTypeOK
<1>2. ASSUME NEW d \in Dispatcher, Posts(d) PROVE accepted'[m] \in Nat /\ accepted'[m] >= accepted[m]
  BY <1>1, <1>2, PostsType
<1>3. CASE UNCHANGED accepted
  BY <1>1, <1>3
<1> QED
  BY <1>2, <1>3, DevicesStandAside
  DEF Next, vars, ClaimNotificationBatch, MarkNotificationSent, Lapses, Crashes,
      EnqueueOrderNotification, history

(* A row is marked as sent only if the provider took its message for some  *)
(* device: a mark follows a good ticket, and the ticket the message.       *)
THEOREM MarksAreTrue == Spec => []SentMeansTaken
<1>1. Init => SentInv
  BY DEF Init, SentInv, SentMeansTaken, NoRow
<1>2. OutboxTypeOK /\ SentInv /\ [Next]_vars => SentInv'
  <2> SUFFICES ASSUME OutboxTypeOK, SentInv, [Next]_vars PROVE SentInv'
    OBVIOUS
  <2>1. \A m \in Message : accepted[m] > 0 => accepted'[m] > 0
    <3> TAKE m \in Message
    <3>1. accepted[m] \in Nat /\ accepted'[m] \in Nat /\ accepted'[m] >= accepted[m]
      BY AcceptedGrows DEF OutboxTypeOK
    <3> QED  BY <3>1
  <2>2. \A d \in Dispatcher : \A x \in tickets[d] : x[1] \in Message
    BY DEF OutboxTypeOK, Ticket
  <2>3. ASSUME \A d \in Dispatcher : tickets'[d] \subseteq tickets[d],
               \A e \in Event : row'[e].sent => row[e].sent
        PROVE  SentInv'
    BY <2>1, <2>2, <2>3 DEF SentInv, SentMeansTaken, Message
  <2>4. CASE UNCHANGED <<row, tickets>>
    BY <2>3, <2>4
  <2>5. ASSUME NEW d \in Dispatcher, ClaimNotificationBatch(d) PROVE SentInv'
    <3>1. \A r \in Row : [r EXCEPT !.attempts = @ + 1, !.lease = "held"].sent = r.sent
      BY DEF Row
    <3>2. \A e \in Event : row'[e].sent = row[e].sent
      BY <2>5, <3>1 DEF ClaimNotificationBatch, OutboxTypeOK
    <3> QED  BY <2>3, <2>5, <3>2 DEF ClaimNotificationBatch
  <2>6. ASSUME NEW d \in Dispatcher, Posts(d) PROVE SentInv'
    <3>1. PICK answer \in [batch[d] -> {"ok", "DeviceNotRegistered", "error"}] :
            /\ \A m \in Message :
                 accepted'[m] = accepted[m] + (IF m \in batch[d] /\ answer[m] = "ok" THEN 1 ELSE 0)
            /\ \/ tickets' = tickets
               \/ tickets' = [tickets EXCEPT ![d] = {<<m, answer[m]>> : m \in batch[d]}]
      BY <2>6, PostsType
    <3>2. batch[d] \subseteq Message /\ \A m \in Message : accepted[m] \in Nat
      BY DEF OutboxTypeOK
    <3>3. \A m \in batch[d] : answer[m] = "ok" => accepted'[m] > 0
      BY <3>1, <3>2
    <3>4. row' = row
      BY <2>6 DEF Posts
    <3>5. CASE tickets' = tickets
      BY <2>4, <3>4, <3>5
    <3>6. CASE tickets' = [tickets EXCEPT ![d] = {<<m, answer[m]>> : m \in batch[d]}]
      <4>1. \A x \in tickets'[d] : x[2] = "ok" => accepted'[x[1]] > 0
        BY <3>3, <3>6 DEF OutboxTypeOK
      <4>2. \A c \in Dispatcher \ {d} : tickets'[c] = tickets[c]
        BY <3>6 DEF OutboxTypeOK
      <4>3. \A c \in Dispatcher : \A x \in tickets'[c] : x[2] = "ok" => accepted'[x[1]] > 0
        BY <2>1, <2>2, <4>1, <4>2 DEF SentInv
      <4>4. SentMeansTaken'
        BY <2>1, <3>4 DEF SentInv, SentMeansTaken, Message
      <4> QED  BY <4>3, <4>4 DEF SentInv
    <3> QED  BY <3>1, <3>5, <3>6
  <2>7. ASSUME NEW d \in Dispatcher, MarkNotificationSent(d) PROVE SentInv'
    <3>0. PICK x \in tickets[d], e \in Event, t \in Device : MarksTicket(d, x, e, t)
      BY <2>7, MarkType
    <3>1. /\ x[1] = <<e, t>>
          /\ tickets' = [tickets EXCEPT ![d] = tickets[d] \ {x}]
          /\ row' = [row EXCEPT ![e] = IF x[2] = "ok" THEN Sent(row[e]) ELSE Failed(row[e])]
      BY <3>0 DEF MarksTicket
    <3>2. \A c \in Dispatcher : tickets'[c] \subseteq tickets[c]
      BY <3>1 DEF OutboxTypeOK
    <3>3. CASE x[2] = "ok"
      <4>1. accepted'[<<e, t>>] > 0
        BY <2>1, <3>1, <3>3 DEF SentInv, Message
      <4>2. \A f \in Event \ {e} : row'[f] = row[f]
        BY <3>1 DEF OutboxTypeOK
      <4>3. \A c \in Dispatcher : \A y \in tickets'[c] : y[2] = "ok" => accepted'[y[1]] > 0
        BY <2>1, <2>2, <3>2 DEF SentInv
      <4>4. SentMeansTaken'
        BY <2>1, <4>1, <4>2 DEF SentInv, SentMeansTaken, Message
      <4> QED  BY <4>3, <4>4 DEF SentInv
    <3>4. CASE x[2] # "ok"
      <4>1. \A r \in Row : Failed(r).sent = r.sent
        BY DEF Failed, Row
      <4>2. \A f \in Event : row'[f].sent => row[f].sent
        BY <3>1, <3>4, <4>1 DEF OutboxTypeOK
      <4> QED  BY <2>3, <3>2, <4>2
    <3> QED  BY <3>3, <3>4
  <2>8. ASSUME NEW e \in Event, Lapses(e) PROVE SentInv'
    <3>1. \A f \in Event : row'[f].sent = row[f].sent
      BY <2>8, LapsesType
    <3> QED  BY <2>3, <2>8, <3>1, LapsesType
  <2>9. ASSUME NEW e \in Event, EnqueueOrderNotification(e) PROVE SentInv'
    BY <2>3, <2>9, EnqueueType
  <2>10. ASSUME NEW d \in Dispatcher, Crashes(d) PROVE SentInv'
    BY <2>3, <2>10 DEF Crashes, OutboxTypeOK
  <2> QED
    BY <2>4, <2>5, <2>6, <2>7, <2>8, <2>9, <2>10, DevicesStandAside DEF Next, vars
<1>3. SentInv => SentMeansTaken
  BY DEF SentInv
<1> QED  BY <1>1, <1>2, <1>3, OutboxType, PTL DEF Spec

-----------------------------------------------------------------------------
(***************************************************************************)
(* How often a device gets a message.  A row can be claimed while it is    *)
(* free, and again after each lapse and after each claim that the failure  *)
(* of another device's message ended; whoever holds the message, or has an *)
(* unmarked failure for it, holds one of these claims.                     *)
(***************************************************************************)
Holders(m) == {d \in Dispatcher : m \in batch[d]}
Failers(m) == {d \in Dispatcher : \E x \in tickets[d] : x[1] = m /\ x[2] # "ok"}
Open(e)    == IF row[e].lease = "held" THEN 0 ELSE 1

ClaimsAreCounted(m) ==
  accepted[m] + Cardinality(Holders(m)) + Cardinality(Failers(m)) + Open(m[1])
    <= 1 + row[m[1]].lapses + givenBack[m]

TicketsAreSingle ==
  \A d \in Dispatcher : \A x, y \in tickets[d] : x[1] = y[1] => x = y

\* Counting sets of dispatchers.
LEMMA SomeDispatchers ==
  ASSUME IsFiniteSet(Dispatcher), NEW S \in SUBSET Dispatcher, NEW T \in SUBSET Dispatcher
  PROVE  /\ Cardinality(S) \in Nat /\ Cardinality(T) \in Nat
         /\ T \subseteq S => Cardinality(T) <= Cardinality(S)
         /\ \A d : T \subseteq S \cup {d} => Cardinality(T) <= Cardinality(S) + 1
         /\ \A d \in S : T \subseteq S \ {d} => Cardinality(T) + 1 <= Cardinality(S)
<1>1. IsFiniteSet(S) /\ IsFiniteSet(T)
  BY FS_Subset
<1>2. Cardinality(S) \in Nat /\ Cardinality(T) \in Nat
  BY <1>1, FS_CardinalityType
<1>3. T \subseteq S => Cardinality(T) <= Cardinality(S)
  BY <1>1, FS_Subset
<1>4. ASSUME NEW d, T \subseteq S \cup {d} PROVE Cardinality(T) <= Cardinality(S) + 1
  <2>1. /\ IsFiniteSet(S \cup {d})
        /\ Cardinality(S \cup {d}) = IF d \in S THEN Cardinality(S) ELSE Cardinality(S) + 1
    BY <1>1, FS_AddElement
  <2>2. Cardinality(T) <= Cardinality(S \cup {d})
    BY <1>4, <2>1, FS_Subset
  <2> QED  BY <1>2, <2>1, <2>2
<1>5. ASSUME NEW d \in S, T \subseteq S \ {d} PROVE Cardinality(T) + 1 <= Cardinality(S)
  <2>1. IsFiniteSet(S \ {d}) /\ Cardinality(S \ {d}) = Cardinality(S) - 1
    BY <1>1, FS_RemoveElement
  <2>2. Cardinality(T) <= Cardinality(S \ {d})
    BY <1>5, <2>1, FS_Subset
  <2> QED  BY <1>2, <2>1, <2>2
<1> QED  BY <1>2, <1>3, <1>4, <1>5

\* One message before and after a step: neither more holders nor more
\* failures, nothing accepted, and its row as open as it was.
LEMMA CountStays ==
  ASSUME IsFiniteSet(Dispatcher), OutboxTypeOK, OutboxTypeOK', NEW m \in Message,
         ClaimsAreCounted(m), accepted'[m] = accepted[m],
         Holders(m)' \subseteq Holders(m), Failers(m)' \subseteq Failers(m),
         row'[m[1]].lease = row[m[1]].lease, row'[m[1]].lapses = row[m[1]].lapses,
         givenBack'[m] >= givenBack[m]
  PROVE  ClaimsAreCounted(m)'
<1> DEFINE H == Cardinality(Holders(m))
           F == Cardinality(Failers(m))
           N == row[m[1]].lapses
           G == givenBack[m]
<1>1. Holders(m) \in SUBSET Dispatcher /\ Failers(m) \in SUBSET Dispatcher
      /\ Holders(m)' \in SUBSET Dispatcher /\ Failers(m)' \in SUBSET Dispatcher
  BY DEF Holders, Failers
<1>2. H \in Nat /\ F \in Nat /\ H' \in Nat /\ F' \in Nat /\ H' <= H /\ F' <= F
  BY <1>1, SomeDispatchers
<1>3. accepted[m] \in Nat /\ N \in Nat /\ N' = N /\ G \in Nat /\ G' \in Nat /\ G' >= G
      /\ Open(m[1])' = Open(m[1]) /\ Open(m[1]) \in {0, 1}
  BY DEF OutboxTypeOK, Message, Row, Open
<1>4. accepted[m] + H + F + Open(m[1]) <= 1 + N + G
  BY DEF ClaimsAreCounted
<1> HIDE DEF H, F, N, G
<1>5. accepted'[m] + H' + F' + Open(m[1])' <= 1 + N' + G'
  BY <1>2, <1>3, <1>4
<1> QED  BY <1>5 DEF ClaimsAreCounted, H, F, N, G

\* The numbers in ClaimsAreCounted are numbers.
LEMMA CountTypes ==
  ASSUME IsFiniteSet(Dispatcher), OutboxTypeOK, NEW m \in Message
  PROVE  /\ accepted[m] \in Nat /\ row[m[1]].lapses \in Nat /\ Open(m[1]) \in {0, 1}
         /\ givenBack[m] \in Nat
         /\ Holders(m) \in SUBSET Dispatcher /\ Failers(m) \in SUBSET Dispatcher
         /\ Cardinality(Holders(m)) \in Nat /\ Cardinality(Failers(m)) \in Nat
<1>1. Holders(m) \in SUBSET Dispatcher /\ Failers(m) \in SUBSET Dispatcher
  BY DEF Holders, Failers
<1>2. /\ accepted[m] \in Nat /\ row[m[1]].lapses \in Nat /\ Open(m[1]) \in {0, 1}
      /\ givenBack[m] \in Nat
  BY DEF OutboxTypeOK, Message, Row, Open
<1> QED  BY <1>1, <1>2, SomeDispatchers

\* A batch gives its dispatcher what was open before.
LEMMA ClaimCounts ==
  ASSUME IsFiniteSet(Dispatcher), OutboxTypeOK, OutboxTypeOK', NEW m \in Message,
         ClaimsAreCounted(m), NEW d \in Dispatcher, ClaimNotificationBatch(d)
  PROVE  ClaimsAreCounted(m)'
<1>1. PICK e \in Event, t \in Device : m = <<e, t>>
  BY DEF Message
<1>2. /\ row'[e] = IF Due(e) THEN [row[e] EXCEPT !.attempts = @ + 1, !.lease = "held"] ELSE row[e]
      /\ batch' = [batch EXCEPT ![d] = {f \in Event : Due(f)} \X Devices]
      /\ UNCHANGED <<tickets, accepted, givenBack>>
  BY DEF ClaimNotificationBatch, history
<1>3. Failers(m)' = Failers(m)
  BY <1>2 DEF Failers
<1>4. CASE Due(e)
  <2>1. row[e].lease # "held" /\ row[e] \in Row
    BY <1>4 DEF Due, LeaseIsOver, OutboxTypeOK
  <2>2. row'[e].lease = "held" /\ row'[e].lapses = row[e].lapses
    BY <1>2, <1>4, <2>1 DEF Row
  <2>3. Open(e) = 1 /\ Open(e)' = 0
    BY <2>1, <2>2 DEF Open
  <2>4. Holders(m)' \subseteq Holders(m) \cup {d}
    BY <1>2 DEF Holders, OutboxTypeOK
  <2>5. Cardinality(Holders(m)') <= Cardinality(Holders(m)) + 1
    BY <2>4, CountTypes, SomeDispatchers DEF Holders
  <2>6. Cardinality(Holders(m)') \in Nat
    BY SomeDispatchers DEF Holders
  <2>7. m[1] = e /\ accepted'[m] = accepted[m] /\ givenBack'[m] = givenBack[m]
    BY <1>1, <1>2
  <2>8. Cardinality(Failers(m)') = Cardinality(Failers(m))
    BY <1>3
  <2>9. accepted'[m] + Cardinality(Holders(m)') + Cardinality(Failers(m)') + Open(e)'
          <= 1 + row'[e].lapses + givenBack'[m]
    BY <2>2, <2>3, <2>5, <2>6, <2>7, <2>8, CountTypes DEF ClaimsAreCounted
  <2> QED  BY <2>7, <2>9 DEF ClaimsAreCounted
<1>5. CASE ~Due(e)
  <2>1. Holders(m)' \subseteq Holders(m)
    BY <1>1, <1>2, <1>5 DEF Holders, OutboxTypeOK
  <2>2. givenBack'[m] >= givenBack[m]
    BY <1>2, CountTypes
  <2> QED  BY <1>1, <1>2, <1>3, <1>5, <2>1, <2>2, CountStays
<1> QED  BY <1>4, <1>5

\* A post turns a claim into a message, a failure, or nothing.
LEMMA PostCounts ==
  ASSUME IsFiniteSet(Dispatcher), OutboxTypeOK, OutboxTypeOK', NEW m \in Message,
         ClaimsAreCounted(m), NEW d \in Dispatcher, Posts(d)
  PROVE  ClaimsAreCounted(m)'
<1>1. PICK answer \in [batch[d] -> {"ok", "DeviceNotRegistered", "error"}] :
        /\ \A n \in Message :
             accepted'[n] = accepted[n] + (IF n \in batch[d] /\ answer[n] = "ok" THEN 1 ELSE 0)
        /\ \/ tickets' = tickets
           \/ tickets' = [tickets EXCEPT ![d] = {<<n, answer[n]>> : n \in batch[d]}]
  BY PostsType
<1>2. batch' = [batch EXCEPT ![d] = {}] /\ row' = row /\ givenBack' = givenBack
  BY DEF Posts
<1>3. m[1] \in Event /\ Open(m[1])' = Open(m[1])
  BY <1>2 DEF Open, Message
<1>4. CASE m \in batch[d]
  <2>1. d \in Holders(m) /\ Holders(m)' \subseteq Holders(m) \ {d}
    BY <1>2, <1>4 DEF Holders, OutboxTypeOK
  <2>2. /\ Cardinality(Holders(m)') + 1 <= Cardinality(Holders(m))
        /\ Cardinality(Holders(m)') \in Nat
    BY <2>1, SomeDispatchers DEF Holders
  <2>3. CASE answer[m] = "ok"
    <3>1. Failers(m)' \subseteq Failers(m)
      BY <1>1, <1>4, <2>3 DEF Failers, OutboxTypeOK
    <3>2. Cardinality(Failers(m)') <= Cardinality(Failers(m)) /\ Cardinality(Failers(m)') \in Nat
      BY <3>1, SomeDispatchers DEF Failers
    <3>3. accepted'[m] = accepted[m] + 1
      BY <1>1, <1>4, <2>3
    <3> QED  BY <1>2, <1>3, <2>2, <3>2, <3>3, CountTypes DEF ClaimsAreCounted
  <2>4. CASE answer[m] # "ok"
    <3>1. Failers(m)' \subseteq Failers(m) \cup {d}
      BY <1>1 DEF Failers, OutboxTypeOK
    <3>2. /\ Cardinality(Failers(m)') <= Cardinality(Failers(m)) + 1
          /\ Cardinality(Failers(m)') \in Nat
      BY <3>1, SomeDispatchers DEF Failers
    <3>3. accepted'[m] = accepted[m]
      BY <1>1, <1>4, <2>4, CountTypes
    <3> QED  BY <1>2, <1>3, <2>2, <3>2, <3>3, CountTypes DEF ClaimsAreCounted
  <2> QED  BY <2>3, <2>4
<1>5. CASE m \notin batch[d]
  <2>1. Holders(m)' \subseteq Holders(m)
    BY <1>2 DEF Holders, OutboxTypeOK
  <2>2. Failers(m)' \subseteq Failers(m)
    BY <1>1, <1>5 DEF Failers, OutboxTypeOK
  <2>3. accepted'[m] = accepted[m]
    BY <1>1, <1>5, CountTypes
  <2>4. givenBack'[m] >= givenBack[m]
    BY <1>2, CountTypes
  <2> QED  BY <1>2, <2>1, <2>2, <2>3, <2>4, CountStays
<1> QED  BY <1>4, <1>5

\* A failure that is marked opens the row again: the failure of the message
\* itself is a failure no more, and that of another device's is on record.
LEMMA MarkCounts ==
  ASSUME IsFiniteSet(Dispatcher), OutboxTypeOK, OutboxTypeOK', TicketsAreSingle,
         NEW m \in Message, ClaimsAreCounted(m), NEW d \in Dispatcher, MarkNotificationSent(d)
  PROVE  ClaimsAreCounted(m)'
<1>0. PICK x \in tickets[d], e \in Event, t \in Device : MarksTicket(d, x, e, t)
  BY MarkType
<1>1. /\ x[1] = <<e, t>>
      /\ tickets' = [tickets EXCEPT ![d] = tickets[d] \ {x}]
      /\ row' = [row EXCEPT ![e] = IF x[2] = "ok" THEN Sent(row[e]) ELSE Failed(row[e])]
      /\ \A n \in Message : givenBack'[n] = givenBack[n] + Ended(x, e, n)
  BY <1>0 DEF MarksTicket
<1>2. UNCHANGED <<batch, accepted>>
  BY DEF MarkNotificationSent
<1>3. Holders(m)' = Holders(m) /\ Failers(m)' \subseteq Failers(m)
  BY <1>1, <1>2 DEF Holders, Failers, OutboxTypeOK
<1>4. PICK f \in Event, s \in Device : m = <<f, s>>
  BY DEF Message
<1>5. givenBack'[m] = givenBack[m] + Ended(x, e, m) /\ Ended(x, e, m) \in {0, 1}
  BY <1>1 DEF Ended
<1>6. givenBack'[m] >= givenBack[m]
  BY <1>5, CountTypes
<1>7. CASE f # e
  <2>1. row'[f] = row[f]
    BY <1>1, <1>7 DEF OutboxTypeOK
  <2> QED  BY <1>2, <1>3, <1>4, <1>6, <2>1, CountStays
<1>8. CASE f = e /\ x[2] = "ok"
  <2>1. \A r \in Row : Sent(r).lease = r.lease /\ Sent(r).lapses = r.lapses
    BY DEF Sent, Row
  <2>2. row'[f].lease = row[f].lease /\ row'[f].lapses = row[f].lapses
    BY <1>1, <1>8, <2>1 DEF OutboxTypeOK
  <2> QED  BY <1>2, <1>3, <1>4, <1>6, <2>2, CountStays
<1>9. CASE f = e /\ x[2] # "ok"
  <2>1. \A r \in Row : Failed(r).lapses = r.lapses /\ Failed(r).lease = "free"
    BY DEF Failed, Row
  <2>2. row'[f].lapses = row[f].lapses /\ row'[f].lease = "free"
    BY <1>1, <1>9, <2>1 DEF OutboxTypeOK
  <2>3. Open(f)' = 1
    BY <2>2 DEF Open
  <2>4. CASE x[1] = m
    <3>1. d \in Failers(m) /\ Failers(m)' \subseteq Failers(m) \ {d}
      BY <1>1, <1>9, <2>4 DEF Failers, TicketsAreSingle, OutboxTypeOK
    <3>2. /\ Cardinality(Failers(m)') + 1 <= Cardinality(Failers(m))
          /\ Cardinality(Failers(m)') \in Nat
      BY <3>1, SomeDispatchers DEF Failers
    <3>3. givenBack'[m] = givenBack[m]
      BY <1>5, <2>4, CountTypes DEF Ended
    <3> QED  BY <1>2, <1>3, <1>4, <2>2, <2>3, <3>2, <3>3, CountTypes DEF ClaimsAreCounted
  <2>5. CASE x[1] # m
    <3>1. Cardinality(Failers(m)') <= Cardinality(Failers(m)) /\ Cardinality(Failers(m)') \in Nat
      BY <1>3, SomeDispatchers DEF Failers
    <3>2. givenBack'[m] = givenBack[m] + (IF row[f].lease = "held" THEN 1 ELSE 0)
      BY <1>4, <1>5, <1>9, <2>5 DEF Ended
    <3>3. Open(f)' + givenBack[m] <= Open(f) + givenBack'[m]
      BY <2>3, <3>2, CountTypes DEF Open
    <3>4. m[1] = f /\ Open(f) \in {0, 1} /\ givenBack'[m] \in Nat
      BY <1>4, <1>9, <3>2, CountTypes DEF Open
    <3> QED
      BY <1>2, <1>3, <2>2, <2>3, <3>1, <3>3, <3>4, CountTypes DEF ClaimsAreCounted
  <2> QED  BY <2>4, <2>5
<1> QED  BY <1>7, <1>8, <1>9

\* One ticket for each message of a request.
LEMMA TicketsStaySingle ==
  ASSUME OutboxTypeOK, TicketsAreSingle, [Next]_vars
  PROVE  TicketsAreSingle'
<1>1. ASSUME \A d \in Dispatcher : tickets'[d] \subseteq tickets[d] PROVE TicketsAreSingle'
  BY <1>1 DEF TicketsAreSingle
<1>2. ASSUME NEW d \in Dispatcher, Posts(d) PROVE TicketsAreSingle'
  <2>1. PICK answer : \/ tickets' = tickets
                      \/ tickets' = [tickets EXCEPT ![d] = {<<m, answer[m]>> : m \in batch[d]}]
    BY <1>2, PostsType
  <2> QED  BY <2>1 DEF TicketsAreSingle, OutboxTypeOK
<1>3. ASSUME NEW d \in Dispatcher, MarkNotificationSent(d) \/ Crashes(d) PROVE TicketsAreSingle'
  <2>1. \A c \in Dispatcher : tickets'[c] \subseteq tickets[c]
    BY <1>3 DEF MarkNotificationSent, Crashes, OutboxTypeOK
  <2> QED  BY <1>1, <2>1
<1>4. CASE UNCHANGED tickets
  BY <1>1, <1>4
<1> QED
  BY <1>2, <1>3, <1>4, DevicesStandAside
  DEF Next, vars, ClaimNotificationBatch, Lapses, EnqueueOrderNotification

(* Whatever number of devices a customer has, each gets a notification     *)
(* again only after a claim on the row was lost, once more for each: a     *)
(* lease ran out, or the failure of another device gave the claim back.    *)
(* The device's own failures, crashes that are waited out, sign-ins and    *)
(* several dispatchers repeat none.                                        *)
THEOREM OneMessagePerClaim ==
  ASSUME IsFiniteSet(Dispatcher)
  PROVE  Spec => []AgainOnlyAfterALostClaim
<1> DEFINE Counted == \A m \in Message : ClaimsAreCounted(m)
<1>1. Init => TicketsAreSingle /\ Counted
  <2>1. Init => TicketsAreSingle
    BY DEF Init, TicketsAreSingle
  <2> SUFFICES ASSUME Init, NEW m \in Message PROVE ClaimsAreCounted(m)
    BY <2>1
  <2>2. Holders(m) = {} /\ Failers(m) = {}
    BY DEF Init, Holders, Failers
  <2>3. accepted[m] = 0 /\ givenBack[m] = 0 /\ row[m[1]] = NoRow
    BY DEF Init, Message
  <2>4. Open(m[1]) = 1 /\ row[m[1]].lapses = 0
    BY <2>3 DEF NoRow, Open
  <2> QED  BY <2>2, <2>3, <2>4, FS_EmptySet DEF ClaimsAreCounted
<1>2. OutboxTypeOK /\ OutboxTypeOK' /\ TicketsAreSingle /\ Counted /\ [Next]_vars
        => (TicketsAreSingle /\ Counted)'
  <2> SUFFICES ASSUME OutboxTypeOK, OutboxTypeOK', TicketsAreSingle, Counted, [Next]_vars,
                      NEW m \in Message
               PROVE  ClaimsAreCounted(m)'
    BY TicketsStaySingle
  <2>1. ClaimsAreCounted(m) /\ m[1] \in Event
    BY DEF Message
  <2>0. UNCHANGED history => accepted'[m] = accepted[m] /\ givenBack'[m] >= givenBack[m]
    BY CountTypes DEF history
  <2>2. CASE UNCHANGED <<row, batch, tickets, history>>
    BY <2>0, <2>1, <2>2, CountStays DEF Holders, Failers
  <2>3. ASSUME NEW e \in Event, EnqueueOrderNotification(e) PROVE ClaimsAreCounted(m)'
    BY <2>0, <2>1, <2>3, EnqueueType, CountStays DEF Holders, Failers
  <2>4. ASSUME NEW e \in Event, Lapses(e) PROVE ClaimsAreCounted(m)'
    <3>1. UNCHANGED <<batch, tickets, accepted, givenBack>>
      BY <2>4, LapsesType DEF history
    <3>2. Holders(m)' = Holders(m) /\ Failers(m)' = Failers(m)
      BY <3>1 DEF Holders, Failers
    <3>3. CASE m[1] # e
      BY <2>0, <2>1, <2>4, <3>2, <3>3, LapsesType, CountStays
    <3>4. CASE m[1] = e
      <4>1. /\ row'[e].lapses = row[e].lapses + 1
            /\ Open(e) = 0 /\ Open(e)' = 1
        BY <2>4, LapsesType DEF Open
      <4> QED  BY <2>1, <3>1, <3>2, <3>4, <4>1, CountTypes DEF ClaimsAreCounted
    <3> QED  BY <3>3, <3>4
  <2>5. ASSUME NEW d \in Dispatcher, Crashes(d) PROVE ClaimsAreCounted(m)'
    <3>1. /\ UNCHANGED <<row, history>>
          /\ Holders(m)' \subseteq Holders(m) /\ Failers(m)' \subseteq Failers(m)
      BY <2>5 DEF Crashes, Holders, Failers, OutboxTypeOK
    <3> QED  BY <2>0, <2>1, <3>1, CountStays
  <2> QED
    BY <2>1, <2>2, <2>3, <2>4, <2>5, ClaimCounts, PostCounts, MarkCounts, DevicesStandAside
    DEF Next, vars
<1>3. OutboxTypeOK /\ Counted => AgainOnlyAfterALostClaim
  <2> SUFFICES ASSUME OutboxTypeOK, Counted, NEW e \in Event, NEW t \in Device
               PROVE  accepted[<<e, t>>] <= 1 + row[e].lapses + givenBack[<<e, t>>]
    BY DEF AgainOnlyAfterALostClaim
  <2>1. <<e, t>> \in Message
    BY DEF Message
  <2>2. ClaimsAreCounted(<<e, t>>)
    BY <2>1
  <2> QED  BY <2>1, <2>2, CountTypes DEF ClaimsAreCounted
<1> QED  BY <1>1, <1>2, <1>3, OutboxType, PTL DEF Spec
=============================================================================
