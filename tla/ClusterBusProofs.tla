-------------------------- MODULE ClusterBusProofs --------------------------
(***************************************************************************)
(* What is proved of the bus between instances (ClusterBus).               *)
(*                                                                         *)
(* Sending: SpaceInv says that the name of a packet tells which life of    *)
(* which instance numbered it, and where a packet can be between its       *)
(* origin, Redis and the rooms, so that a room that has taken one will not *)
(* see it again, and one's own is recognised by its name.                  *)
(* Receiving: SeenInv says that the table holds, of every name and room    *)
(* heard of since it was emptied, the highest number (TablesTell); with it *)
(* every packet changes the gap counter by what it changes in the numbers  *)
(* missing (HolesGrow) and the other by what it is late (InversionsGrow).  *)
(***************************************************************************)
EXTENDS ClusterBus, TLAPS, FiniteSetTheorems, SequenceTheorems

(* An entry of a room, and the types of what is sent. *)
LogEntries == [packet : Packets \cup {Notice}, shown : Nat]

BusTypes ==
    /\ epoch \in [Insts -> 0 .. MaxInstRestarts]
    /\ roomLog \in [Insts -> [BusRooms -> Seq(LogEntries)]]
    /\ handing \in [Insts -> SUBSET Packets]
    /\ inbox \in [Insts -> Seq(Packets)]
    /\ broadcast \subseteq Packets

(* A name says which life of which instance gave the number, and the numbers of a
   life that goes on have all been given. *)
Given(p, i, life, log) ==
    p.from = <<i, p.life>> /\ p.life <= life /\ (p.life = life => p.number <= Len(log[p.room]))
NumbersGiven == \A p \in broadcast : \E i \in Insts : Given(p, i, epoch[i], roomLog[i])

(* A packet is with its origin, or was given to Redis, once for every subscriber. *)
OnTheWay == \A i \in Insts :
    /\ \A p \in handing[i] : p \in broadcast /\ p.from = InstId(i)
    /\ \A n \in DOMAIN inbox[i] :
            inbox[i][n] \in broadcast /\ \A j \in Insts : inbox[i][n] \notin handing[j]
    /\ \A m, n \in DOMAIN inbox[i] : inbox[i][m] = inbox[i][n] => m = n

(* What a room holds of others will not come again. *)
Placed(p, n, name, hands, box) ==
    IF p.from = name THEN p.number = n
    ELSE \A j \in Insts : p \notin hands[j] /\ \A x \in DOMAIN box : box[x] # p
InTheRooms == \A i \in Insts, r \in BusRooms : \A n \in DOMAIN roomLog[i][r] :
    roomLog[i][r][n].packet # Notice =>
        /\ roomLog[i][r][n].packet \in broadcast /\ roomLog[i][r][n].packet.room = r
        /\ Placed(roomLog[i][r][n].packet, n, InstId(i), handing, inbox[i])

SpaceInv == BusTypes /\ NumbersGiven /\ OnTheWay /\ InTheRooms /\ OneNumberSpace

-----------------------------------------------------------------------------
(* The record of a packet, and that a notice is none. *)
LEMMA PacketsAre ==
    ASSUME NEW p \in Packets
    PROVE  /\ p # Notice /\ p.room \in BusRooms /\ p.number \in 1 .. MaxNumber /\ p.number \in Nat
           /\ p.life \in 0 .. MaxInstRestarts /\ p.life \in Nat /\ p.number # 0
<1>1. p.number \in 1 .. MaxNumber /\ p.room \in BusRooms /\ p.life \in 0 .. MaxInstRestarts
  BY DEF Packets
<1>2. p.number # 0 /\ p.number \in Nat /\ p.life \in Nat
  BY <1>1, BusAssumption
<1>3. Notice.number = 0
  BY DEF Notice
<1> QED BY <1>1, <1>2, <1>3

(* fanOutRoom: the next number of one room. *)
LEMMA RoomGrows ==
    ASSUME BusTypes, NEW i \in Insts, NEW r \in BusRooms, NEW p \in Packets \cup {Notice},
           EnterRoom(i, r, Entry(p, NextNumber(i, r)))
    PROVE  /\ roomLog' \in [Insts -> [BusRooms -> Seq(LogEntries)]]
           /\ NextNumber(i, r) \in Nat /\ NextNumber(i, r) >= 1
           /\ NextNumber(i, r) > Len(roomLog[i][r])
           /\ Len(roomLog'[i][r]) = NextNumber(i, r)
           /\ \A j \in Insts, q \in BusRooms :
                /\ Len(roomLog[j][q]) \in Nat /\ Len(roomLog'[j][q]) \in Nat
                /\ Len(roomLog[j][q]) <= Len(roomLog'[j][q])
                /\ \A n \in DOMAIN roomLog'[j][q] :
                     \/ n \in DOMAIN roomLog[j][q] /\ roomLog'[j][q][n] = roomLog[j][q][n]
                     \/ /\ j = i /\ q = r /\ n = NextNumber(i, r)
                        /\ \A m \in DOMAIN roomLog[i][r] : m # n
                        /\ roomLog'[j][q][n] = Entry(p, n)
<1> DEFINE log == roomLog[i][r]
           n0 == NextNumber(i, r)
           e == Entry(p, n0)
<1>1. /\ roomLog \in [Insts -> [BusRooms -> Seq(LogEntries)]] /\ log \in Seq(LogEntries)
      /\ \A j \in Insts, q \in BusRooms : roomLog[j][q] \in Seq(LogEntries)
  BY DEF BusTypes
<1>2. Len(log) \in Nat /\ n0 = Len(log) + 1 /\ n0 \in Nat /\ n0 >= 1 /\ n0 > Len(log)
      /\ DOMAIN log = 1 .. Len(log)
  <2>1. Len(log) \in Nat /\ DOMAIN log = 1 .. Len(log)
    BY <1>1, LenProperties
  <2>2. n0 = Len(log) + 1
    BY DEF NextNumber
  <2> HIDE DEF log, n0
  <2> QED BY <2>1, <2>2
<1>3. e \in LogEntries
  <2> HIDE DEF n0
  <2> QED BY <1>2 DEF LogEntries, Entry
<1>4. roomLog' = [roomLog EXCEPT ![i][r] = Append(log, e)]
  BY <1>1 DEF EnterRoom
<1> HIDE DEF e, n0
<1>5. /\ Append(log, e) \in Seq(LogEntries) /\ Len(Append(log, e)) = n0
      /\ \A n \in DOMAIN Append(log, e) :
           \/ n \in DOMAIN log /\ Append(log, e)[n] = log[n]
           \/ n = n0 /\ Append(log, e)[n] = e
  <2>1. /\ Append(log, e) \in Seq(LogEntries)
        /\ Len(Append(log, e)) = Len(log) + 1
        /\ DOMAIN Append(log, e) = 1 .. Len(log) + 1
        /\ \A n \in 1 .. Len(log) : Append(log, e)[n] = log[n]
        /\ Append(log, e)[Len(log) + 1] = e
    BY <1>1, <1>3, AppendProperties
  <2>2. \A n \in 1 .. Len(log) + 1 : n \in 1 .. Len(log) \/ n = Len(log) + 1
    BY <1>2
  <2> HIDE DEF log
  <2> QED BY <1>2, <2>1, <2>2
<1> HIDE DEF log
<1>6. /\ roomLog' \in [Insts -> [BusRooms -> Seq(LogEntries)]]
      /\ roomLog'[i][r] = Append(log, e)
      /\ \A j \in Insts, q \in BusRooms : j # i \/ q # r => roomLog'[j][q] = roomLog[j][q]
  BY <1>1, <1>4, <1>5
<1>7. \A j \in Insts, q \in BusRooms :
        /\ Len(roomLog[j][q]) \in Nat /\ Len(roomLog'[j][q]) \in Nat
        /\ Len(roomLog[j][q]) <= Len(roomLog'[j][q])
  <2> SUFFICES ASSUME NEW j \in Insts, NEW q \in BusRooms
               PROVE  /\ Len(roomLog[j][q]) \in Nat /\ Len(roomLog'[j][q]) \in Nat
                      /\ Len(roomLog[j][q]) <= Len(roomLog'[j][q])
    OBVIOUS
  <2>1. CASE j = i /\ q = r
    BY <1>2, <1>5, <1>6, <2>1 DEF log
  <2>2. CASE j # i \/ q # r
    <3>1. roomLog'[j][q] = roomLog[j][q] /\ Len(roomLog[j][q]) \in Nat
      BY <1>1, <1>6, <2>2, LenProperties
    <3> QED BY <3>1
  <2> QED BY <2>1, <2>2
<1>8. \A m \in DOMAIN log : m # n0
  BY <1>2
<1>9. \A j \in Insts, q \in BusRooms : \A n \in DOMAIN roomLog'[j][q] :
        \/ n \in DOMAIN roomLog[j][q] /\ roomLog'[j][q][n] = roomLog[j][q][n]
        \/ /\ j = i /\ q = r /\ n = n0
           /\ \A m \in DOMAIN log : m # n
           /\ roomLog'[j][q][n] = Entry(p, n)
  <2> SUFFICES ASSUME NEW j \in Insts, NEW q \in BusRooms, NEW n \in DOMAIN roomLog'[j][q]
               PROVE  \/ n \in DOMAIN roomLog[j][q] /\ roomLog'[j][q][n] = roomLog[j][q][n]
                      \/ /\ j = i /\ q = r /\ n = n0
                         /\ \A m \in DOMAIN log : m # n
                         /\ roomLog'[j][q][n] = Entry(p, n)
    OBVIOUS
  <2>1. CASE j = i /\ q = r
    BY <1>5, <1>6, <1>8, <2>1 DEF log, e
  <2>2. CASE j # i \/ q # r
    BY <1>6, <2>2
  <2> QED BY <2>1, <2>2
<1>10. roomLog[i][r] = log /\ NextNumber(i, r) = n0 /\ Len(roomLog'[i][r]) = n0
  BY <1>5, <1>6 DEF log, n0
<1> QED BY ONLY <1>2, <1>6, <1>7, <1>9, <1>10

(* The head of an inbox is taken: it was there once. *)
LEMMA HeadIsTaken ==
    ASSUME BusTypes, OnTheWay, NEW i \in Insts, inbox[i] # <<>>,
           inbox' = [inbox EXCEPT ![i] = Tail(@)]
    PROVE  /\ inbox' \in [Insts -> Seq(Packets)]
           /\ Head(inbox[i]) \in Packets /\ Head(inbox[i]) \in broadcast
           /\ \A j \in Insts : Head(inbox[i]) \notin handing[j]
           /\ \E x \in DOMAIN inbox[i] : inbox[i][x] = Head(inbox[i])
           /\ \A j \in Insts : \A n \in DOMAIN inbox'[j] :
                \E m \in DOMAIN inbox[j] : inbox'[j][n] = inbox[j][m]
           /\ \A j \in Insts : \A m, n \in DOMAIN inbox'[j] : inbox'[j][m] = inbox'[j][n] => m = n
           /\ \A n \in DOMAIN inbox'[i] : inbox'[i][n] # Head(inbox[i])
<1> DEFINE s == inbox[i]
           t == Tail(s)
<1>1. inbox \in [Insts -> Seq(Packets)] /\ s \in Seq(Packets) /\ s # <<>>
  BY DEF BusTypes
<1>2. inbox' = [inbox EXCEPT ![i] = t]
  BY <1>1
<1>3. \A m, n \in DOMAIN s : s[m] = s[n] => m = n
  BY DEF OnTheWay
<1> HIDE DEF s
<1>4. /\ t \in Seq(Packets) /\ Head(s) = s[1] /\ 1 \in DOMAIN s
      /\ \A n \in DOMAIN t : n \in Int /\ n + 1 \in DOMAIN s /\ n + 1 # 1 /\ t[n] = s[n + 1]
  <2>1. /\ t \in Seq(Packets) /\ Len(t) = Len(s) - 1 /\ Len(s) \in Nat /\ Len(s) > 0
        /\ DOMAIN s = 1 .. Len(s) /\ DOMAIN t = 1 .. Len(t)
        /\ \A n \in 1 .. Len(t) : t[n] = s[n + 1]
    <3>1. t \in Seq(Packets) /\ Len(t) = Len(s) - 1 /\ \A n \in 1 .. Len(t) : t[n] = s[n + 1]
      BY <1>1, HeadTailProperties
    <3>2. Len(s) \in Nat /\ Len(s) > 0 /\ DOMAIN s = 1 .. Len(s) /\ DOMAIN t = 1 .. Len(t)
      BY <1>1, <3>1, LenProperties, EmptySeq
    <3> QED BY <3>1, <3>2
  <2>2. Head(s) = s[1]
    BY <1>1
  <2>3. \A n \in 1 .. Len(s) - 1 : n \in Int /\ n + 1 \in 1 .. Len(s) /\ n + 1 # 1
    BY <2>1
  <2>4. 1 \in 1 .. Len(s)
    BY <2>1
  <2> HIDE DEF t
  <2> QED BY <2>1, <2>2, <2>3, <2>4
<1> HIDE DEF t
<1>5. \A m, n \in DOMAIN t : t[m] = t[n] => m = n
  <2> SUFFICES ASSUME NEW m \in DOMAIN t, NEW n \in DOMAIN t, t[m] = t[n]
               PROVE  m = n
    OBVIOUS
  <2>1. m \in Int /\ n \in Int /\ m + 1 = n + 1
    BY <1>3, <1>4
  <2> QED BY <2>1
<1>6. \A n \in DOMAIN t : t[n] # Head(s)
  BY <1>3, <1>4
<1>7. /\ inbox' \in [Insts -> Seq(Packets)] /\ inbox'[i] = t
      /\ \A j \in Insts \ {i} : inbox'[j] = inbox[j]
  BY <1>1, <1>2, <1>4
<1>8. \A j \in Insts : \A n \in DOMAIN inbox'[j] :
         \E m \in DOMAIN inbox[j] : inbox'[j][n] = inbox[j][m]
  <2>1. \A n \in DOMAIN t : \E m \in DOMAIN s : t[n] = s[m]
    BY <1>4
  <2> QED BY <1>7, <2>1 DEF s
<1>9. \A j \in Insts : \A m, n \in DOMAIN inbox'[j] : inbox'[j][m] = inbox'[j][n] => m = n
  BY <1>5, <1>7 DEF OnTheWay
<1>10. Head(s) \in broadcast /\ \A j \in Insts : Head(s) \notin handing[j]
  BY <1>4 DEF s, OnTheWay
<1>11. Head(s) \in Packets
  BY <1>10 DEF BusTypes
<1> QED BY <1>4, <1>6, <1>7, <1>8, <1>9, <1>10, <1>11 DEF s

(* What moves packets only. *)
LEMMA PacketsMove ==
    ASSUME SpaceInv, UNCHANGED <<epoch, roomLog, broadcast>>,
           handing' \in [Insts -> SUBSET Packets], inbox' \in [Insts -> Seq(Packets)],
           \A j \in Insts : handing'[j] \subseteq handing[j],
           \A j \in Insts : \A n \in DOMAIN inbox'[j] :
                /\ inbox'[j][n] \in broadcast
                /\ \A o \in Insts : inbox'[j][n] \notin handing'[o]
                /\ \/ \E m \in DOMAIN inbox[j] : inbox'[j][n] = inbox[j][m]
                   \/ \E o \in Insts : inbox'[j][n] \in handing[o],
           \A j \in Insts : \A m, n \in DOMAIN inbox'[j] : inbox'[j][m] = inbox'[j][n] => m = n
    PROVE  SpaceInv'
<1>1. BusTypes'
  BY DEF SpaceInv, BusTypes
<1>2. NumbersGiven'
  BY DEF SpaceInv, NumbersGiven
<1>3. OnTheWay'
  BY DEF SpaceInv, OnTheWay, InstId
<1>4. InTheRooms'
  <2> SUFFICES ASSUME NEW i \in Insts, NEW r \in BusRooms, NEW n \in DOMAIN roomLog[i][r],
                      roomLog[i][r][n].packet # Notice
               PROVE  /\ roomLog[i][r][n].packet \in broadcast
                      /\ roomLog[i][r][n].packet.room = r
                      /\ Placed(roomLog'[i][r][n].packet, n, InstId(i)', handing', inbox'[i])
    BY DEF InTheRooms
  <2> DEFINE p == roomLog[i][r][n].packet
  <2>1. p \in broadcast /\ p.room = r /\ Placed(p, n, InstId(i), handing, inbox[i])
    BY DEF SpaceInv, InTheRooms
  <2>2. roomLog[i][r][n].packet = roomLog'[i][r][n].packet
    OBVIOUS
  <2> HIDE DEF p
  <2>3. CASE p.from = InstId(i)
    BY <2>1, <2>2, <2>3 DEF Placed, InstId, p
  <2>4. CASE p.from # InstId(i)
    <3>1. \A j \in Insts : p \notin handing[j] /\ \A x \in DOMAIN inbox[i] : inbox[i][x] # p
      BY <2>1, <2>4 DEF Placed
    <3>2. (\A j \in Insts : p \notin handing[j]) /\ \A x \in DOMAIN inbox[i] : inbox[i][x] # p
      BY <3>1
    <3>3. ASSUME NEW x \in DOMAIN inbox'[i]
          PROVE  inbox'[i][x] # p
      BY <3>2
    <3>4. \A j \in Insts : p \notin handing'[j]
      BY <3>2
    <3> QED BY <2>1, <2>2, <2>4, <3>3, <3>4 DEF Placed, InstId, p
  <2> QED BY <2>3, <2>4
<1>5. OneNumberSpace'
  BY DEF SpaceInv, OneNumberSpace
<1> QED BY <1>1, <1>2, <1>3, <1>4, <1>5 DEF SpaceInv

(* PUBLISH to every subscriber. *)
LEMMA HandStep ==
    ASSUME SpaceInv, NEW i \in Insts, NEW p \in handing[i], HandToRedis(i, p)
    PROVE  SpaceInv'
<1>1. /\ handing' = [handing EXCEPT ![i] = @ \ {p}]
      /\ inbox' = [j \in Insts |-> Append(inbox[j], p)]
      /\ UNCHANGED <<epoch, roomLog, broadcast>>
  BY DEF HandToRedis
<1>2. /\ handing \in [Insts -> SUBSET Packets] /\ inbox \in [Insts -> Seq(Packets)]
      /\ p \in broadcast /\ p.from = InstId(i) /\ p \in Packets
  BY DEF SpaceInv, BusTypes, OnTheWay
<1>3. /\ handing' \in [Insts -> SUBSET Packets] /\ \A j \in Insts : handing'[j] \subseteq handing[j]
      /\ p \notin handing'[i] /\ \A j \in Insts : j # i => handing'[j] = handing[j]
  BY <1>1, <1>2
<1>4. \A j \in Insts : p \notin handing'[j]
  <2> SUFFICES ASSUME NEW j \in Insts, p \in handing'[j] PROVE FALSE
    OBVIOUS
  <2>1. j # i /\ p.from = InstId(j)
    BY <1>3 DEF SpaceInv, OnTheWay
  <2> QED BY <1>2, <2>1 DEF InstId
<1>5. ASSUME NEW j \in Insts
      PROVE  /\ inbox'[j] \in Seq(Packets)
             /\ \A n \in DOMAIN inbox'[j] :
                  \/ n \in DOMAIN inbox[j] /\ inbox'[j][n] = inbox[j][n]
                  \/ n = Len(inbox[j]) + 1 /\ inbox'[j][n] = p
  <2>1. inbox[j] \in Seq(Packets) /\ inbox'[j] = Append(inbox[j], p)
    BY <1>1, <1>2
  <2>2. /\ inbox'[j] \in Seq(Packets) /\ DOMAIN inbox'[j] = 1 .. Len(inbox[j]) + 1
        /\ DOMAIN inbox[j] = 1 .. Len(inbox[j]) /\ Len(inbox[j]) \in Nat
        /\ \A n \in 1 .. Len(inbox[j]) : inbox'[j][n] = inbox[j][n]
        /\ inbox'[j][Len(inbox[j]) + 1] = p
    BY <1>2, <2>1, AppendProperties
  <2>3. \A n \in 1 .. Len(inbox[j]) + 1 : n \in 1 .. Len(inbox[j]) \/ n = Len(inbox[j]) + 1
    BY <2>2
  <2> QED BY <2>2, <2>3
<1>6. \A j \in Insts : \A n \in DOMAIN inbox[j] : inbox[j][n] # p
  BY DEF SpaceInv, OnTheWay
<1>7. inbox' \in [Insts -> Seq(Packets)]
  BY <1>1, <1>5
<1>8. \A j \in Insts : \A n \in DOMAIN inbox'[j] :
                /\ inbox'[j][n] \in broadcast
                /\ \A o \in Insts : inbox'[j][n] \notin handing'[o]
                /\ \/ \E m \in DOMAIN inbox[j] : inbox'[j][n] = inbox[j][m]
                   \/ \E o \in Insts : inbox'[j][n] \in handing[o]
  <2> SUFFICES ASSUME NEW j \in Insts, NEW n \in DOMAIN inbox'[j]
               PROVE  /\ inbox'[j][n] \in broadcast
                      /\ \A o \in Insts : inbox'[j][n] \notin handing'[o]
                      /\ \/ \E m \in DOMAIN inbox[j] : inbox'[j][n] = inbox[j][m]
                         \/ \E o \in Insts : inbox'[j][n] \in handing[o]
    OBVIOUS
  <2>1. CASE inbox'[j][n] = p
    BY <1>2, <1>4, <2>1
  <2>2. CASE n \in DOMAIN inbox[j] /\ inbox'[j][n] = inbox[j][n]
    <3>1. inbox[j][n] \in broadcast /\ \A o \in Insts : inbox[j][n] \notin handing[o]
      BY <2>2 DEF SpaceInv, OnTheWay
    <3> QED BY <1>3, <2>2, <3>1
  <2> QED BY <1>5, <2>1, <2>2
<1>9. \A j \in Insts : \A m, n \in DOMAIN inbox'[j] : inbox'[j][m] = inbox'[j][n] => m = n
  <2>1. \A j \in Insts : \A m, n \in DOMAIN inbox[j] : inbox[j][m] = inbox[j][n] => m = n
    BY DEF SpaceInv, OnTheWay
  <2> QED BY ONLY <1>5, <1>6, <2>1
<1> QED BY ONLY SpaceInv, <1>1, <1>3, <1>7, <1>8, <1>9, PacketsMove

(* A PUBLISH that fails. *)
LEMMA FailStep ==
    ASSUME SpaceInv, NEW i \in Insts, NEW p \in handing[i], PublishFails(i, p)
    PROVE  SpaceInv'
<1>1. /\ handing' = [handing EXCEPT ![i] = @ \ {p}] /\ UNCHANGED <<epoch, roomLog, inbox, broadcast>>
  BY DEF PublishFails
<1>2. /\ handing' \in [Insts -> SUBSET Packets] /\ inbox' \in [Insts -> Seq(Packets)]
      /\ \A j \in Insts : handing'[j] \subseteq handing[j]
  BY <1>1 DEF SpaceInv, BusTypes
<1>3. \A j \in Insts : \A n \in DOMAIN inbox'[j] :
                /\ inbox'[j][n] \in broadcast
                /\ \A o \in Insts : inbox'[j][n] \notin handing'[o]
                /\ \/ \E m \in DOMAIN inbox[j] : inbox'[j][n] = inbox[j][m]
                   \/ \E o \in Insts : inbox'[j][n] \in handing[o]
  BY <1>1, <1>2 DEF SpaceInv, OnTheWay
<1>4. \A j \in Insts : \A m, n \in DOMAIN inbox'[j] : inbox'[j][m] = inbox'[j][n] => m = n
  BY <1>1 DEF SpaceInv, OnTheWay
<1> QED BY <1>1, <1>2, <1>3, <1>4, PacketsMove

(* A packet leaves an inbox and no room takes it: lost, one's own, nobody here, refused. *)
LEMMA LeaveStep ==
    ASSUME SpaceInv, NEW i \in Insts, inbox[i] # <<>>, inbox' = [inbox EXCEPT ![i] = Tail(@)],
           UNCHANGED <<epoch, roomLog, handing, broadcast>>
    PROVE  SpaceInv'
<1>1. BusTypes /\ OnTheWay
  BY DEF SpaceInv
<1>2. /\ inbox' \in [Insts -> Seq(Packets)]
      /\ \A j \in Insts : \A n \in DOMAIN inbox'[j] :
            \E m \in DOMAIN inbox[j] : inbox'[j][n] = inbox[j][m]
      /\ \A j \in Insts : \A m, n \in DOMAIN inbox'[j] : inbox'[j][m] = inbox'[j][n] => m = n
  BY <1>1, HeadIsTaken
<1>3. handing' \in [Insts -> SUBSET Packets] /\ \A j \in Insts : handing'[j] \subseteq handing[j]
  BY <1>1 DEF BusTypes
<1>4. \A j \in Insts : \A n \in DOMAIN inbox'[j] :
                /\ inbox'[j][n] \in broadcast
                /\ \A o \in Insts : inbox'[j][n] \notin handing'[o]
  BY <1>1, <1>2 DEF OnTheWay
<1> QED BY <1>2, <1>3, <1>4, PacketsMove

-----------------------------------------------------------------------------
(* A room takes an entry. *)

(* A notice takes a number and is sent nowhere. *)
LEMMA NoticeStep ==
    ASSUME SpaceInv, NEW i \in Insts, NEW r \in BusRooms, PublishNotice(i, r)
    PROVE  SpaceInv'
<1> DEFINE n0 == NextNumber(i, r)
<1>1. EnterRoom(i, r, Entry(Notice, n0)) /\ UNCHANGED <<epoch, handing, inbox, broadcast>>
  BY DEF PublishNotice
<1>2. BusTypes
  BY DEF SpaceInv
<1>3. /\ roomLog' \in [Insts -> [BusRooms -> Seq(LogEntries)]]
      /\ \A j \in Insts, q \in BusRooms :
                /\ Len(roomLog[j][q]) \in Nat /\ Len(roomLog'[j][q]) \in Nat
                /\ Len(roomLog[j][q]) <= Len(roomLog'[j][q])
                /\ \A n \in DOMAIN roomLog'[j][q] :
                     \/ n \in DOMAIN roomLog[j][q] /\ roomLog'[j][q][n] = roomLog[j][q][n]
                     \/ roomLog'[j][q][n] = Entry(Notice, n)
  BY <1>1, <1>2, RoomGrows
<1>4. \A n : Entry(Notice, n).packet = Notice /\ Entry(Notice, n).shown = n
  BY DEF Entry
<1>5. BusTypes'
  BY <1>1, <1>2, <1>3 DEF BusTypes
<1>6. NumbersGiven'
  <2> SUFFICES ASSUME NEW p \in broadcast'
               PROVE  \E j \in Insts : Given(p, j, epoch'[j], roomLog'[j])
    BY DEF NumbersGiven
  <2>1. PICK j \in Insts : Given(p, j, epoch[j], roomLog[j])
    BY <1>1 DEF SpaceInv, NumbersGiven
  <2>2. p.room \in BusRooms /\ p.number \in Nat
    BY <1>1, <1>2, PacketsAre DEF BusTypes
  <2>3. Len(roomLog[j][p.room]) <= Len(roomLog'[j][p.room]) /\ Len(roomLog[j][p.room]) \in Nat
        /\ Len(roomLog'[j][p.room]) \in Nat
    BY <1>3, <2>2
  <2>4. \A x, y, z \in Nat : x <= y /\ y <= z => x <= z
    OBVIOUS
  <2> QED BY <1>1, <2>1, <2>2, <2>3, <2>4 DEF Given
<1>7. OnTheWay'
  BY <1>1 DEF SpaceInv, OnTheWay, InstId
<1>8. InTheRooms'
  <2> SUFFICES ASSUME NEW j \in Insts, NEW q \in BusRooms, NEW n \in DOMAIN roomLog'[j][q],
                      roomLog'[j][q][n].packet # Notice
               PROVE  /\ roomLog'[j][q][n].packet \in broadcast
                      /\ roomLog'[j][q][n].packet.room = q
                      /\ Placed(roomLog'[j][q][n].packet, n, InstId(j)', handing', inbox'[j])
    BY <1>1 DEF InTheRooms
  <2>1. n \in DOMAIN roomLog[j][q] /\ roomLog'[j][q][n] = roomLog[j][q][n]
    BY <1>3, <1>4
  <2>2. /\ roomLog[j][q][n].packet \in broadcast /\ roomLog[j][q][n].packet.room = q
        /\ Placed(roomLog[j][q][n].packet, n, InstId(j), handing, inbox[j])
    BY <2>1 DEF SpaceInv, InTheRooms
  <2> QED BY <1>1, <2>1, <2>2 DEF Placed, InstId
<1>9. OneNumberSpace'
  <2> SUFFICES ASSUME NEW j \in Insts, NEW q \in BusRooms, NEW m \in DOMAIN roomLog'[j][q],
                      NEW n \in DOMAIN roomLog'[j][q]
               PROVE  /\ roomLog'[j][q][n].shown = n
                      /\ m < n /\ roomLog'[j][q][n].packet # Notice
                            => roomLog'[j][q][m].packet # roomLog'[j][q][n].packet
    BY DEF OneNumberSpace
  <2>1. \A x \in DOMAIN roomLog[j][q], y \in DOMAIN roomLog[j][q] :
            /\ roomLog[j][q][y].shown = y
            /\ x < y /\ roomLog[j][q][y].packet # Notice
                  => roomLog[j][q][x].packet # roomLog[j][q][y].packet
    BY DEF SpaceInv, OneNumberSpace
  <2>2. \A x \in DOMAIN roomLog'[j][q] :
          \/ x \in DOMAIN roomLog[j][q] /\ roomLog'[j][q][x] = roomLog[j][q][x]
          \/ roomLog'[j][q][x].packet = Notice /\ roomLog'[j][q][x].shown = x
    BY <1>3, <1>4
  <2> QED BY <2>1, <2>2
<1> QED BY <1>5, <1>6, <1>7, <1>8, <1>9 DEF SpaceInv

(* A client's message: the packet is new. *)
LEMMA PublishStep ==
    ASSUME SpaceInv, NEW i \in Insts, NEW r \in BusRooms, PublishRoom(i, r)
    PROVE  SpaceInv'
<1> DEFINE n0 == NextNumber(i, r)
           p0 == [from |-> InstId(i), life |-> epoch[i], room |-> r, number |-> n0]
<1>1. /\ n0 <= MaxNumber /\ EnterRoom(i, r, Entry(p0, n0))
      /\ handing' = [handing EXCEPT ![i] = @ \cup {p0}]
      /\ broadcast' = broadcast \cup {p0} /\ UNCHANGED <<epoch, inbox>>
  BY DEF PublishRoom
<1>2. BusTypes
  BY DEF SpaceInv
<1>3. n0 \in 1 .. MaxNumber /\ n0 > Len(roomLog[i][r]) /\ Len(roomLog[i][r]) \in Nat
  <2>1. roomLog[i][r] \in Seq(LogEntries)
    BY <1>2 DEF BusTypes
  <2>2. Len(roomLog[i][r]) \in Nat /\ n0 = Len(roomLog[i][r]) + 1
    BY <2>1, LenProperties DEF NextNumber
  <2>3. n0 \in Nat /\ n0 > Len(roomLog[i][r]) /\ n0 >= 1
    <3> HIDE DEF n0
    <3> QED BY <2>2
  <2> HIDE DEF n0
  <2> QED BY <1>1, <2>2, <2>3, BusAssumption
<1>4. /\ p0 \in Packets /\ p0.from = InstId(i) /\ p0.life = epoch[i] /\ p0.room = r /\ p0.number = n0
      /\ InstId(i) = <<i, epoch[i]>>
  <2> HIDE DEF n0
  <2> QED BY <1>2, <1>3 DEF BusTypes, Packets, InstId
<1>5. p0 \notin broadcast
  <2> SUFFICES ASSUME p0 \in broadcast PROVE FALSE
    OBVIOUS
  <2>1. PICK j \in Insts : Given(p0, j, epoch[j], roomLog[j])
    BY DEF SpaceInv, NumbersGiven
  <2>2. j = i
    BY <1>4, <2>1 DEF Given
  <2> HIDE DEF n0, p0
  <2> QED BY <1>3, <1>4, <2>1, <2>2 DEF Given
<1> HIDE DEF p0
<1>6. /\ roomLog' \in [Insts -> [BusRooms -> Seq(LogEntries)]]
      /\ Len(roomLog'[i][r]) = n0
      /\ \A j \in Insts, q \in BusRooms :
                /\ Len(roomLog[j][q]) \in Nat /\ Len(roomLog'[j][q]) \in Nat
                /\ Len(roomLog[j][q]) <= Len(roomLog'[j][q])
                /\ \A n \in DOMAIN roomLog'[j][q] :
                     \/ n \in DOMAIN roomLog[j][q] /\ roomLog'[j][q][n] = roomLog[j][q][n]
                     \/ /\ j = i /\ q = r /\ n = n0
                        /\ roomLog'[j][q][n] = Entry(p0, n)
  BY <1>1, <1>2, <1>4, RoomGrows
<1> HIDE DEF n0
<1>7. \A n : Entry(p0, n).packet = p0 /\ Entry(p0, n).shown = n
  BY DEF Entry
<1>8. /\ handing' \in [Insts -> SUBSET Packets]
      /\ \A j \in Insts : handing'[j] \subseteq handing[j] \cup {p0}
      /\ \A j \in Insts : j # i => handing'[j] = handing[j]
  BY <1>1, <1>2, <1>4 DEF BusTypes
<1>9. BusTypes'
  BY <1>1, <1>2, <1>4, <1>6, <1>8 DEF BusTypes
<1>10. NumbersGiven'
  <2> SUFFICES ASSUME NEW p \in broadcast'
               PROVE  \E j \in Insts : Given(p, j, epoch'[j], roomLog'[j])
    BY DEF NumbersGiven
  <2>1. CASE p = p0
    <3>1. epoch[i] <= epoch[i] /\ n0 <= n0
      BY <1>2, <1>3 DEF BusTypes
    <3> QED BY <1>1, <1>4, <1>6, <2>1, <3>1 DEF Given
  <2>2. CASE p \in broadcast
    <3>1. PICK j \in Insts : Given(p, j, epoch[j], roomLog[j])
      BY <2>2 DEF SpaceInv, NumbersGiven
    <3>2. p.room \in BusRooms /\ p.number \in Nat
      BY <1>2, <2>2, PacketsAre DEF BusTypes
    <3>3. Len(roomLog[j][p.room]) <= Len(roomLog'[j][p.room]) /\ Len(roomLog[j][p.room]) \in Nat
          /\ Len(roomLog'[j][p.room]) \in Nat
      BY <1>6, <3>2
    <3>4. \A x, y, z \in Nat : x <= y /\ y <= z => x <= z
      OBVIOUS
    <3> QED BY <1>1, <3>1, <3>2, <3>3, <3>4 DEF Given
  <2> QED BY <1>1, <2>1, <2>2
<1>11. OnTheWay'
  <2> SUFFICES ASSUME NEW j \in Insts
               PROVE  /\ \A p \in handing'[j] : p \in broadcast' /\ p.from = InstId(j)'
                      /\ \A n \in DOMAIN inbox'[j] :
                           inbox'[j][n] \in broadcast' /\ \A o \in Insts : inbox'[j][n] \notin handing'[o]
                      /\ \A m, n \in DOMAIN inbox'[j] : inbox'[j][m] = inbox'[j][n] => m = n
    BY DEF OnTheWay
  <2>1. InstId(j)' = InstId(j)
    BY <1>1 DEF InstId
  <2>2. \A p \in handing'[j] : p \in broadcast' /\ p.from = InstId(j)
    BY <1>1, <1>4, <1>8 DEF SpaceInv, OnTheWay
  <2>3. \A n \in DOMAIN inbox[j] : inbox[j][n] \in broadcast
                                   /\ \A o \in Insts : inbox[j][n] \notin handing[o]
    BY DEF SpaceInv, OnTheWay
  <2>4. \A n \in DOMAIN inbox'[j] :
            inbox'[j][n] \in broadcast' /\ \A o \in Insts : inbox'[j][n] \notin handing'[o]
    BY <1>1, <1>5, <1>8, <2>3
  <2>5. \A m, n \in DOMAIN inbox[j] : inbox[j][m] = inbox[j][n] => m = n
    BY DEF SpaceInv, OnTheWay
  <2> QED BY <1>1, <2>1, <2>2, <2>4, <2>5
<1>12. InTheRooms'
  <2> SUFFICES ASSUME NEW j \in Insts, NEW q \in BusRooms, NEW n \in DOMAIN roomLog'[j][q],
                      roomLog'[j][q][n].packet # Notice
               PROVE  /\ roomLog'[j][q][n].packet \in broadcast'
                      /\ roomLog'[j][q][n].packet.room = q
                      /\ Placed(roomLog'[j][q][n].packet, n, InstId(j)', handing', inbox'[j])
    BY DEF InTheRooms
  <2>1. CASE n \in DOMAIN roomLog[j][q] /\ roomLog'[j][q][n] = roomLog[j][q][n]
    <3> DEFINE p == roomLog[j][q][n].packet
    <3>1. p \in broadcast /\ p.room = q /\ Placed(p, n, InstId(j), handing, inbox[j])
      BY <2>1 DEF SpaceInv, InTheRooms
    <3>2. p = roomLog'[j][q][n].packet
      BY <2>1
    <3> HIDE DEF p
    <3>3. CASE p.from = InstId(j)
      BY <1>1, <3>1, <3>2, <3>3 DEF Placed, InstId, p
    <3>4. CASE p.from # InstId(j)
      <4>1. \A o \in Insts : p \notin handing[o] /\ \A x \in DOMAIN inbox[j] : inbox[j][x] # p
        BY <3>1, <3>4 DEF Placed
      <4>2. \A o \in Insts : p \notin handing'[o] /\ \A x \in DOMAIN inbox'[j] : inbox'[j][x] # p
        BY <1>1, <1>5, <1>8, <3>1, <4>1
      <4> QED BY <1>1, <3>1, <3>2, <3>4, <4>2 DEF Placed, InstId, p
    <3> QED BY <3>3, <3>4
  <2>2. CASE j = i /\ q = r /\ n = n0 /\ roomLog'[j][q][n] = Entry(p0, n)
    <3>1. roomLog'[j][q][n].packet = p0
      BY <1>7, <2>2
    <3> QED BY <1>1, <1>4, <2>2, <3>1 DEF Placed, InstId
  <2> QED BY <1>6, <2>1, <2>2
<1>13. OneNumberSpace'
  <2> SUFFICES ASSUME NEW j \in Insts, NEW q \in BusRooms, NEW m \in DOMAIN roomLog'[j][q],
                      NEW n \in DOMAIN roomLog'[j][q]
               PROVE  /\ roomLog'[j][q][n].shown = n
                      /\ m < n /\ roomLog'[j][q][n].packet # Notice
                            => roomLog'[j][q][m].packet # roomLog'[j][q][n].packet
    BY DEF OneNumberSpace
  <2>1. \A x \in DOMAIN roomLog[j][q], y \in DOMAIN roomLog[j][q] :
            /\ roomLog[j][q][y].shown = y
            /\ x < y /\ roomLog[j][q][y].packet # Notice
                  => roomLog[j][q][x].packet # roomLog[j][q][y].packet
    BY DEF SpaceInv, OneNumberSpace
  <2>2. \A x \in DOMAIN roomLog'[j][q] :
          \/ x \in DOMAIN roomLog[j][q] /\ roomLog'[j][q][x] = roomLog[j][q][x]
          \/ x = n0 /\ roomLog'[j][q][x].packet = p0 /\ roomLog'[j][q][x].shown = x
    BY <1>6, <1>7
  <2>3. \A x \in DOMAIN roomLog[j][q] : roomLog[j][q][x].packet # p0
    <3>1. p0 # Notice
      BY <1>4, PacketsAre
    <3> QED BY <1>5, <3>1 DEF SpaceInv, InTheRooms
  <2>4. ~(n0 < n0)
    BY <1>3
  <2> QED BY <2>1, <2>2, <2>3, <2>4
<1> QED BY <1>9, <1>10, <1>11, <1>12, <1>13 DEF SpaceInv

(* Another instance's message takes a number of this room. *)
LEMMA AcceptStep ==
    ASSUME SpaceInv, NEW i \in Insts, ReceiveAccepted(i)
    PROVE  SpaceInv'
<1> DEFINE p0 == Head(inbox[i])
           r == p0.room
           n0 == NextNumber(i, r)
<1>1. /\ inbox[i] # <<>> /\ inbox' = [inbox EXCEPT ![i] = Tail(@)] /\ p0.from # InstId(i)
      /\ EnterRoom(i, r, Entry(p0, n0))
      /\ UNCHANGED <<epoch, handing, broadcast>>
  BY DEF ReceiveAccepted, Receive, OwnPacket, ShownHere
<1>2. BusTypes /\ OnTheWay
  BY DEF SpaceInv
<1>3. /\ inbox' \in [Insts -> Seq(Packets)]
      /\ p0 \in Packets /\ p0 \in broadcast
      /\ \A j \in Insts : p0 \notin handing[j]
      /\ \E x \in DOMAIN inbox[i] : inbox[i][x] = p0
      /\ \A j \in Insts : \A n \in DOMAIN inbox'[j] :
                \E m \in DOMAIN inbox[j] : inbox'[j][n] = inbox[j][m]
      /\ \A j \in Insts : \A m, n \in DOMAIN inbox'[j] : inbox'[j][m] = inbox'[j][n] => m = n
      /\ \A n \in DOMAIN inbox'[i] : inbox'[i][n] # p0
  BY <1>1, <1>2, HeadIsTaken
<1> HIDE DEF p0
<1>4. r \in BusRooms /\ p0 # Notice
  BY <1>3, PacketsAre
<1>5. /\ roomLog' \in [Insts -> [BusRooms -> Seq(LogEntries)]] /\ n0 \in Nat
      /\ \A j \in Insts, q \in BusRooms :
                /\ Len(roomLog[j][q]) \in Nat /\ Len(roomLog'[j][q]) \in Nat
                /\ Len(roomLog[j][q]) <= Len(roomLog'[j][q])
                /\ \A n \in DOMAIN roomLog'[j][q] :
                     \/ n \in DOMAIN roomLog[j][q] /\ roomLog'[j][q][n] = roomLog[j][q][n]
                     \/ /\ j = i /\ q = r /\ n = n0
                        /\ roomLog'[j][q][n] = Entry(p0, n)
  <2> HIDE DEF r
  <2> QED BY <1>1, <1>2, <1>3, <1>4, RoomGrows
<1> HIDE DEF n0, r
<1>6. \A n : Entry(p0, n).packet = p0 /\ Entry(p0, n).shown = n
  BY DEF Entry
<1>7. BusTypes'
  BY <1>1, <1>2, <1>3, <1>5 DEF BusTypes
<1>8. NumbersGiven'
  <2> SUFFICES ASSUME NEW p \in broadcast'
               PROVE  \E j \in Insts : Given(p, j, epoch'[j], roomLog'[j])
    BY DEF NumbersGiven
  <2>1. PICK j \in Insts : Given(p, j, epoch[j], roomLog[j])
    BY <1>1 DEF SpaceInv, NumbersGiven
  <2>2. p.room \in BusRooms /\ p.number \in Nat
    BY <1>1, <1>2, PacketsAre DEF BusTypes
  <2>3. Len(roomLog[j][p.room]) <= Len(roomLog'[j][p.room]) /\ Len(roomLog[j][p.room]) \in Nat
        /\ Len(roomLog'[j][p.room]) \in Nat
    BY <1>5, <2>2
  <2>4. \A x, y, z \in Nat : x <= y /\ y <= z => x <= z
    OBVIOUS
  <2> QED BY <1>1, <2>1, <2>2, <2>3, <2>4 DEF Given
<1>9. OnTheWay'
  <2>1. \A j \in Insts : InstId(j)' = InstId(j)
    BY <1>1 DEF InstId
  <2>2. \A j \in Insts : \A n \in DOMAIN inbox'[j] :
            inbox'[j][n] \in broadcast' /\ \A o \in Insts : inbox'[j][n] \notin handing'[o]
    BY <1>1, <1>2, <1>3 DEF OnTheWay
  <2>3. \A j \in Insts : \A p \in handing'[j] : p \in broadcast' /\ p.from = InstId(j)'
    BY <1>1, <1>2, <2>1 DEF OnTheWay
  <2> QED BY <1>3, <2>2, <2>3 DEF OnTheWay
<1>10. InTheRooms'
  <2> SUFFICES ASSUME NEW j \in Insts, NEW q \in BusRooms, NEW n \in DOMAIN roomLog'[j][q],
                      roomLog'[j][q][n].packet # Notice
               PROVE  /\ roomLog'[j][q][n].packet \in broadcast'
                      /\ roomLog'[j][q][n].packet.room = q
                      /\ Placed(roomLog'[j][q][n].packet, n, InstId(j)', handing', inbox'[j])
    BY DEF InTheRooms
  <2>1. CASE n \in DOMAIN roomLog[j][q] /\ roomLog'[j][q][n] = roomLog[j][q][n]
    <3> DEFINE p == roomLog[j][q][n].packet
    <3>1. p \in broadcast /\ p.room = q /\ Placed(p, n, InstId(j), handing, inbox[j])
      BY <2>1 DEF SpaceInv, InTheRooms
    <3>2. p = roomLog'[j][q][n].packet
      BY <2>1
    <3> HIDE DEF p
    <3>3. CASE p.from = InstId(j)
      BY <1>1, <3>1, <3>2, <3>3 DEF Placed, InstId, p
    <3>4. CASE p.from # InstId(j)
      <4>1. \A o \in Insts : p \notin handing[o] /\ \A x \in DOMAIN inbox[j] : inbox[j][x] # p
        BY <3>1, <3>4 DEF Placed
      <4>2. \A o \in Insts : p \notin handing'[o] /\ \A x \in DOMAIN inbox'[j] : inbox'[j][x] # p
        BY <1>1, <1>3, <4>1
      <4> QED BY <1>1, <3>1, <3>2, <3>4, <4>2 DEF Placed, InstId, p
    <3> QED BY <3>3, <3>4
  <2>2. CASE j = i /\ q = r /\ n = n0 /\ roomLog'[j][q][n] = Entry(p0, n)
    <3>1. roomLog'[j][q][n].packet = p0
      BY <1>6, <2>2
    <3>2. Placed(p0, n, InstId(i)', handing', inbox'[i])
      <4>1. p0.from # InstId(i)'
        BY <1>1 DEF InstId
      <4>2. \A o \in Insts : p0 \notin handing'[o] /\ \A x \in DOMAIN inbox'[i] : inbox'[i][x] # p0
        BY <1>1, <1>3
      <4> QED BY <4>1, <4>2 DEF Placed
    <3> QED BY <1>1, <1>3, <2>2, <3>1, <3>2 DEF r, Placed
  <2> QED BY <1>5, <2>1, <2>2
<1>11. OneNumberSpace'
  <2> SUFFICES ASSUME NEW j \in Insts, NEW q \in BusRooms, NEW m \in DOMAIN roomLog'[j][q],
                      NEW n \in DOMAIN roomLog'[j][q]
               PROVE  /\ roomLog'[j][q][n].shown = n
                      /\ m < n /\ roomLog'[j][q][n].packet # Notice
                            => roomLog'[j][q][m].packet # roomLog'[j][q][n].packet
    BY DEF OneNumberSpace
  <2>1. \A x \in DOMAIN roomLog[j][q], y \in DOMAIN roomLog[j][q] :
            /\ roomLog[j][q][y].shown = y
            /\ x < y /\ roomLog[j][q][y].packet # Notice
                  => roomLog[j][q][x].packet # roomLog[j][q][y].packet
    BY DEF SpaceInv, OneNumberSpace
  <2>2. \A x \in DOMAIN roomLog'[j][q] :
          \/ x \in DOMAIN roomLog[j][q] /\ roomLog'[j][q][x] = roomLog[j][q][x]
          \/ /\ j = i /\ q = r /\ x = n0
             /\ roomLog'[j][q][x].packet = p0 /\ roomLog'[j][q][x].shown = x
    BY <1>5, <1>6
  <2>3. \A x \in DOMAIN roomLog[i][r] : roomLog[i][r][x].packet # p0
    <3> SUFFICES ASSUME NEW x \in DOMAIN roomLog[i][r], roomLog[i][r][x].packet = p0
                 PROVE  FALSE
      OBVIOUS
    <3>1. Placed(p0, x, InstId(i), handing, inbox[i])
      BY <1>4 DEF SpaceInv, InTheRooms, r
    <3> QED BY <1>1, <1>3, <3>1 DEF Placed
  <2>4. ~(n0 < n0)
    BY <1>5
  <2> QED BY <2>1, <2>2, <2>3, <2>4
<1> QED BY <1>7, <1>8, <1>9, <1>10, <1>11 DEF SpaceInv

(* A new life has a new name and an empty memory. *)
LEMMA RestartStep ==
    ASSUME SpaceInv, NEW i \in Insts, RestartInstance(i)
    PROVE  SpaceInv'
<1>1. /\ epoch[i] < MaxInstRestarts /\ epoch' = [epoch EXCEPT ![i] = epoch[i] + 1]
      /\ roomLog' = [roomLog EXCEPT ![i] = [r \in BusRooms |-> <<>>]]
      /\ handing' = [handing EXCEPT ![i] = {}]
      /\ inbox' = [inbox EXCEPT ![i] = <<>>] /\ broadcast' = broadcast
  BY DEF RestartInstance, SpaceInv, BusTypes
<1>2. BusTypes
  BY DEF SpaceInv
<1>3. epoch[i] + 1 \in 0 .. MaxInstRestarts /\ epoch[i] + 1 > epoch[i] /\ epoch[i] \in Nat
  <2>1. epoch[i] \in 0 .. MaxInstRestarts /\ MaxInstRestarts \in Nat
    BY <1>2, BusAssumption DEF BusTypes
  <2> QED BY <1>1, <2>1
<1>4. /\ epoch' \in [Insts -> 0 .. MaxInstRestarts] /\ epoch'[i] = epoch[i] + 1
      /\ \A j \in Insts \ {i} : epoch'[j] = epoch[j]
  BY <1>1, <1>2, <1>3 DEF BusTypes
<1>5. /\ handing' \in [Insts -> SUBSET Packets] /\ handing'[i] = {}
      /\ inbox' \in [Insts -> Seq(Packets)] /\ inbox'[i] = <<>>
      /\ \A j \in Insts \ {i} : handing'[j] = handing[j] /\ inbox'[j] = inbox[j]
  BY <1>1, <1>2, EmptySeq DEF BusTypes
<1>6. /\ roomLog' \in [Insts -> [BusRooms -> Seq(LogEntries)]]
      /\ \A q \in BusRooms : roomLog'[i][q] = <<>>
      /\ \A j \in Insts \ {i} : roomLog'[j] = roomLog[j]
  <2>1. [r \in BusRooms |-> <<>>] \in [BusRooms -> Seq(LogEntries)]
    BY EmptySeq
  <2> QED BY <1>1, <1>2, <2>1 DEF BusTypes
<1>7. DOMAIN <<>> = {}
  OBVIOUS
<1>8. BusTypes'
  BY <1>1, <1>2, <1>4, <1>5, <1>6 DEF BusTypes
<1>9. NumbersGiven'
  <2> SUFFICES ASSUME NEW p \in broadcast'
               PROVE  \E j \in Insts : Given(p, j, epoch'[j], roomLog'[j])
    BY DEF NumbersGiven
  <2>1. PICK j \in Insts : Given(p, j, epoch[j], roomLog[j])
    BY <1>1 DEF SpaceInv, NumbersGiven
  <2>2. CASE j = i
    <3>1. p.life \in Nat
      BY <1>1, <1>2, PacketsAre DEF BusTypes
    <3>2. p.life <= epoch'[i] /\ p.life # epoch'[i]
      BY <1>3, <1>4, <2>1, <2>2, <3>1 DEF Given
    <3> QED BY <2>1, <2>2, <3>2 DEF Given
  <2>3. CASE j # i
    BY <1>4, <1>6, <2>1, <2>3
  <2> QED BY <2>2, <2>3
<1>10. \A j \in Insts : j # i => InstId(j)' = InstId(j)
  BY <1>4 DEF InstId
<1>11. OnTheWay'
  <2>1. OnTheWay
    BY DEF SpaceInv
  <2>2. \A j \in Insts : handing'[j] \subseteq handing[j]
    BY <1>5
  <2>3. ASSUME NEW j \in Insts
        PROVE  /\ \A p \in handing'[j] : p \in broadcast' /\ p.from = InstId(j)'
               /\ \A n \in DOMAIN inbox'[j] :
                    inbox'[j][n] \in broadcast' /\ \A o \in Insts : inbox'[j][n] \notin handing'[o]
               /\ \A m, n \in DOMAIN inbox'[j] : inbox'[j][m] = inbox'[j][n] => m = n
    <3>1. CASE j = i
      BY <1>5, <1>7, <3>1
    <3>2. CASE j # i
      <4>1. handing'[j] = handing[j] /\ inbox'[j] = inbox[j] /\ InstId(j)' = InstId(j)
        BY <1>5, <1>10, <3>2
      <4>2. /\ \A p \in handing[j] : p \in broadcast /\ p.from = InstId(j)
            /\ \A n \in DOMAIN inbox[j] :
                 inbox[j][n] \in broadcast /\ \A o \in Insts : inbox[j][n] \notin handing[o]
            /\ \A m, n \in DOMAIN inbox[j] : inbox[j][m] = inbox[j][n] => m = n
        BY <2>1 DEF OnTheWay
      <4> QED BY <1>1, <2>2, <4>1, <4>2
    <3> QED BY <3>1, <3>2
  <2> QED BY <2>3 DEF OnTheWay
<1>12. InTheRooms'
  <2> SUFFICES ASSUME NEW j \in Insts, NEW q \in BusRooms, NEW n \in DOMAIN roomLog'[j][q],
                      roomLog'[j][q][n].packet # Notice
               PROVE  /\ roomLog'[j][q][n].packet \in broadcast'
                      /\ roomLog'[j][q][n].packet.room = q
                      /\ Placed(roomLog'[j][q][n].packet, n, InstId(j)', handing', inbox'[j])
    BY DEF InTheRooms
  <2>1. j # i /\ roomLog'[j] = roomLog[j] /\ inbox'[j] = inbox[j] /\ InstId(j)' = InstId(j)
    BY <1>5, <1>6, <1>7, <1>10
  <2> DEFINE p == roomLog[j][q][n].packet
  <2>2. p \in broadcast /\ p.room = q /\ Placed(p, n, InstId(j), handing, inbox[j])
    BY <2>1 DEF SpaceInv, InTheRooms
  <2>3. p = roomLog'[j][q][n].packet
    BY <2>1
  <2> HIDE DEF p
  <2>4. CASE p.from = InstId(j)
    BY <1>1, <2>1, <2>2, <2>3, <2>4 DEF Placed, p
  <2>5. CASE p.from # InstId(j)
    <3>1. \A o \in Insts : p \notin handing[o] /\ \A x \in DOMAIN inbox[j] : inbox[j][x] # p
      BY <2>2, <2>5 DEF Placed
    <3>2. \A o \in Insts : p \notin handing'[o] /\ \A x \in DOMAIN inbox'[j] : inbox'[j][x] # p
      BY <1>5, <2>1, <3>1
    <3> QED BY <1>1, <2>1, <2>2, <2>3, <2>5, <3>2 DEF Placed, p
  <2> QED BY <2>4, <2>5
<1>13. OneNumberSpace'
  <2> SUFFICES ASSUME NEW j \in Insts, NEW q \in BusRooms, NEW m \in DOMAIN roomLog'[j][q],
                      NEW n \in DOMAIN roomLog'[j][q]
               PROVE  /\ roomLog'[j][q][n].shown = n
                      /\ m < n /\ roomLog'[j][q][n].packet # Notice
                            => roomLog'[j][q][m].packet # roomLog'[j][q][n].packet
    BY DEF OneNumberSpace
  <2>1. roomLog'[j] = roomLog[j]
    BY <1>6, <1>7
  <2> QED BY <2>1 DEF SpaceInv, OneNumberSpace
<1> QED BY <1>8, <1>9, <1>11, <1>12, <1>13 DEF SpaceInv

(* A cluster that starts has sent nothing. *)
LEMMA SpaceStart == BusInit => SpaceInv
<1> SUFFICES ASSUME BusInit PROVE SpaceInv
  OBVIOUS
<1> USE DEF BusInit
<1>1. DOMAIN <<>> = {}
  OBVIOUS
<1>2. BusTypes
  BY BusAssumption, EmptySeq DEF BusTypes
<1>3. \A i \in Insts : \A r \in BusRooms : roomLog[i][r] = <<>>
  OBVIOUS
<1>4. \A i \in Insts : handing[i] = {} /\ inbox[i] = <<>>
  OBVIOUS
<1>5. NumbersGiven
  BY DEF NumbersGiven
<1>6. OnTheWay
  BY <1>1, <1>4 DEF OnTheWay
<1>7. InTheRooms /\ OneNumberSpace
  BY <1>1, <1>3 DEF InTheRooms, OneNumberSpace
<1> QED BY <1>2, <1>5, <1>6, <1>7 DEF SpaceInv

(* Every action keeps SpaceInv. *)
LEMMA SpaceStep == SpaceInv /\ [BusNext]_busVars => SpaceInv'
<1> SUFFICES ASSUME SpaceInv, [BusNext]_busVars PROVE SpaceInv'
  OBVIOUS
<1>1. ASSUME NEW i \in Insts, NEW r \in BusRooms, PublishRoom(i, r) PROVE SpaceInv'
  BY <1>1, PublishStep
<1>2. ASSUME NEW i \in Insts, NEW r \in BusRooms, PublishNotice(i, r) PROVE SpaceInv'
  BY <1>2, NoticeStep
<1>3. ASSUME NEW i \in Insts, NEW p \in handing[i], HandToRedis(i, p) PROVE SpaceInv'
  BY <1>3, HandStep
<1>4. ASSUME NEW i \in Insts, NEW p \in handing[i], PublishFails(i, p) PROVE SpaceInv'
  BY <1>4, FailStep
<1>5. ASSUME NEW i \in Insts,
             LosePacket(i) \/ ReceiveOwn(i) \/ ReceiveNobody(i) \/ ReceiveRefused(i)
      PROVE  SpaceInv'
  <2>1. /\ inbox[i] # <<>> /\ inbox' = [inbox EXCEPT ![i] = Tail(@)]
        /\ UNCHANGED <<epoch, roomLog, handing, broadcast>>
    BY <1>5 DEF LosePacket, ReceiveOwn, ReceiveNobody, ReceiveRefused, Receive
  <2> QED BY <2>1, LeaveStep
<1>6. ASSUME NEW i \in Insts, ReceiveAccepted(i) PROVE SpaceInv'
  BY <1>6, AcceptStep
<1>7. ASSUME NEW i \in Insts, RestartInstance(i) PROVE SpaceInv'
  BY <1>7, RestartStep
<1>8. CASE UNCHANGED busVars
  <2>1. UNCHANGED <<epoch, roomLog, handing, inbox, broadcast>>
    BY <1>8 DEF busVars
  <2>2. BusTypes' /\ NumbersGiven'
    BY <2>1 DEF SpaceInv, BusTypes, NumbersGiven
  <2>3. OnTheWay'
    BY <2>1 DEF SpaceInv, OnTheWay, InstId
  <2>4. InTheRooms'
    BY <2>1 DEF SpaceInv, InTheRooms, Placed, InstId
  <2>5. OneNumberSpace'
    BY <2>1 DEF SpaceInv, OneNumberSpace
  <2> QED BY <2>2, <2>3, <2>4, <2>5 DEF SpaceInv
<1> QED BY <1>1, <1>2, <1>3, <1>4, <1>5, <1>6, <1>7, <1>8 DEF BusNext

(* The clients of an instance see one series of numbers in a room, and what was
   written here once (initClusterBus: instId, the payload rebuilt with the number of
   this room). *)
THEOREM RoomsHaveOneNumberSpace == BusSpec => []OneNumberSpace
<1>1. SpaceInv => OneNumberSpace
  BY DEF SpaceInv
<1> QED BY <1>1, SpaceStart, SpaceStep, PTL DEF BusSpec

-----------------------------------------------------------------------------
(* What a receiver makes of the numbers it hears (checkClusterRoomSeq). *)

Keys == (Insts \X (0 .. MaxInstRestarts)) \X BusRooms
Tables == UNION {[ks -> 1 .. MaxNumber] : ks \in SUBSET Keys}

SeenTypes ==
    /\ lastSeq \in [Insts -> Tables]
    /\ gaps \in [Insts -> Nat] /\ regressions \in [Insts -> Nat]
    /\ inboundDropped \in [Insts -> Nat] /\ emptied \in [Insts -> Nat]
    /\ heardBus \in [Insts -> Seq(Packets)]
    /\ \A i \in Insts : /\ IsFiniteSet(DOMAIN lastSeq[i])
                        /\ Cardinality(DOMAIN lastSeq[i]) <= MaxBaselines
                        /\ emptied[i] <= Len(heardBus[i])
                        /\ \A x \in DOMAIN heardBus[i] : heardBus[i][x] \in broadcast

(* The table holds, for every room heard of since it was emptied, the highest number. *)
TableOf(t, s) ==
    /\ \A x \in DOMAIN s : Key(s[x]) \in DOMAIN t /\ s[x].number <= t[Key(s[x])]
    /\ \A k \in DOMAIN t :
        /\ \E x \in DOMAIN s : Key(s[x]) = k /\ s[x].number = t[k]
        /\ \E x \in DOMAIN s : Key(s[x]) = k /\ IsFirst(s, x)
TablesTell == \A i \in Insts : TableOf(lastSeq[i], Recent(i))

(* The counter holds every number missing between two that were heard, whether it was
   broadcast or not, and until the table is emptied only late numbers besides. *)
HolesCounted == \A i \in Insts :
    /\ gaps[i] >= Cardinality(Holes(Recent(i)))
    /\ emptied[i] = 0 => gaps[i] <= Cardinality(Holes(Recent(i))) + regressions[i]

SeenInv == SeenTypes /\ TablesTell /\ RegressionsHonest /\ HolesCounted

Late(s, p) == \E y \in DOMAIN s :
    Key(s[y]) = Key(p) /\ s[y].life = p.life /\ s[y].number >= p.number

(* A key of the table is a name and a room. *)
LEMMA KeysAre ==
    ASSUME NEW p \in Packets
    PROVE  /\ Key(p) \in Keys /\ Key(p) = <<p.from, p.room>>
           /\ \A q : Key(q) = Key(p) => q.from = p.from /\ q.room = p.room
  BY DEF Key, Keys, Packets

(* The tables are the functions from sets of keys to numbers. *)
LEMMA TablesAre ==
    /\ \A t \in Tables : DOMAIN t \subseteq Keys /\ t \in [DOMAIN t -> 1 .. MaxNumber]
    /\ \A t, ks : ks \subseteq Keys /\ t \in [ks -> 1 .. MaxNumber] => t \in Tables
  BY DEF Tables

(* The baseline only rises. *)
LEMMA MaxOfTwo ==
    ASSUME NEW x \in Nat, NEW y \in Nat
    PROVE  Baseline(x, y) = IF x >= y THEN x ELSE y
<1>1. Baseline(x, y) \in {x, y} /\ \A z \in {x, y} : Baseline(x, y) >= z
  <2>1. \E u \in {x, y} : \A z \in {x, y} : u >= z
    OBVIOUS
  <2> QED BY <2>1 DEF Baseline, Max
<1> QED BY <1>1

(* One more packet is heard. *)
LEMMA OneMore ==
    ASSUME NEW s \in Seq(Packets), NEW p \in Packets
    PROVE  /\ Append(s, p) \in Seq(Packets)
           /\ Len(s) \in Nat /\ DOMAIN s = 1 .. Len(s)
           /\ DOMAIN Append(s, p) = 1 .. Len(s) + 1
           /\ \A x \in DOMAIN s : Append(s, p)[x] = s[x] /\ s[x] \in Packets
           /\ Append(s, p)[Len(s) + 1] = p
           /\ \A x \in DOMAIN Append(s, p) : x \in DOMAIN s \/ x = Len(s) + 1
           /\ \A x \in DOMAIN s : x # Len(s) + 1 /\ x \in DOMAIN Append(s, p)
           /\ \A x \in DOMAIN s : \A y \in 1 .. x - 1 : y \in DOMAIN s
           /\ \A y \in 1 .. (Len(s) + 1) - 1 : y \in DOMAIN s
           /\ \A y \in DOMAIN s : y \in 1 .. (Len(s) + 1) - 1
<1>1. /\ Append(s, p) \in Seq(Packets) /\ Len(Append(s, p)) = Len(s) + 1
      /\ DOMAIN Append(s, p) = 1 .. Len(s) + 1
      /\ \A x \in 1 .. Len(s) : Append(s, p)[x] = s[x]
      /\ Append(s, p)[Len(s) + 1] = p
  BY AppendProperties
<1>2. Len(s) \in Nat /\ DOMAIN s = 1 .. Len(s) /\ \A x \in 1 .. Len(s) : s[x] \in Packets
  BY LenProperties, ElementOfSeq
<1> DEFINE n == Len(s)
<1>3. /\ \A x \in 1 .. n + 1 : x \in 1 .. n \/ x = n + 1
      /\ \A x \in 1 .. n : x # n + 1 /\ x \in 1 .. n + 1
      /\ \A x \in 1 .. n : \A y \in 1 .. x - 1 : y \in 1 .. n
      /\ \A y \in 1 .. (n + 1) - 1 : y \in 1 .. n
      /\ \A y \in 1 .. n : y \in 1 .. (n + 1) - 1
  <2> HIDE DEF n
  <2>1. n \in Nat
    BY <1>2 DEF n
  <2> QED BY <2>1
<1> QED BY <1>1, <1>2, <1>3

(* A packet more is an inversion more if it is late, and changes no other. *)
LEMMA InversionsGrow ==
    ASSUME NEW s \in Seq(Packets), NEW p \in Packets
    PROVE  /\ IsFiniteSet(Inversions(s)) /\ Cardinality(Inversions(s)) \in Nat
           /\ Cardinality(Inversions(Append(s, p))) =
                Cardinality(Inversions(s)) + (IF Late(s, p) THEN 1 ELSE 0)
<1> DEFINE t == Append(s, p)
           n == Len(s) + 1
<1>1. /\ Len(s) \in Nat /\ DOMAIN s = 1 .. Len(s)
      /\ DOMAIN t = 1 .. n
      /\ \A x \in DOMAIN s : t[x] = s[x] /\ s[x] \in Packets
      /\ t[n] = p
      /\ \A x \in DOMAIN t : x \in DOMAIN s \/ x = n
      /\ \A x \in DOMAIN s : x # n /\ x \in DOMAIN t
      /\ \A x \in DOMAIN s : \A y \in 1 .. x - 1 : y \in DOMAIN s
      /\ \A y \in 1 .. n - 1 : y \in DOMAIN s
      /\ \A y \in DOMAIN s : y \in 1 .. n - 1
      /\ n \in DOMAIN t
  <2>1. n \in 1 .. n
    <3>1. Len(s) \in Nat
      BY OneMore
    <3> QED BY <3>1
  <2> QED BY <2>1, OneMore
<1>2. IsFiniteSet(1 .. Len(s))
  BY <1>1, FS_Interval
<1>3. IsFiniteSet(Inversions(s))
  <2>1. Inversions(s) \subseteq 1 .. Len(s)
    BY <1>1 DEF Inversions
  <2> QED BY <1>2, <2>1, FS_Subset
<1> DEFINE Inv(u, x) == \E y \in 1 .. x - 1 :
        Key(u[y]) = Key(u[x]) /\ u[y].life = u[x].life /\ u[y].number >= u[x].number
<1>4. \A u : Inversions(u) = {x \in DOMAIN u : Inv(u, x)}
  BY DEF Inversions
<1>5. \A x \in DOMAIN s : Inv(t, x) <=> Inv(s, x)
  <2> HIDE DEF t, n
  <2> QED BY <1>1
<1>6. Inv(t, n) <=> Late(s, p)
  <2> HIDE DEF t, n
  <2> QED BY <1>1 DEF Late
<1> HIDE DEF t, n, Inv
<1>7. Inversions(t) = Inversions(s) \cup (IF Late(s, p) THEN {n} ELSE {}) /\ n \notin Inversions(s)
  BY <1>1, <1>4, <1>5, <1>6
<1>8. Cardinality(Inversions(s)) \in Nat
  BY <1>3, FS_CardinalityType
<1>9. CASE Late(s, p)
  <2>1. Inversions(t) = Inversions(s) \cup {n}
    BY <1>7, <1>9
  <2>2. Cardinality(Inversions(t)) = Cardinality(Inversions(s)) + 1
    BY <1>3, <1>7, <2>1, FS_AddElement
  <2> QED BY <1>3, <1>8, <1>9, <2>2 DEF t
<1>10. CASE ~Late(s, p)
  <2>1. Inversions(t) = Inversions(s)
    BY <1>7, <1>10
  <2> QED BY <1>3, <1>8, <1>10, <2>1 DEF t
<1> QED BY <1>9, <1>10

(* The numbers that are missing: a number above all heard of its room leaves the ones
   between open, another may close one. *)
LEMMA HolesGrow ==
    ASSUME NEW s \in Seq(Packets), NEW p \in Packets, NEW tb \in Tables, TableOf(tb, s),
           NEW last \in Nat, last = IF Key(p) \in DOMAIN tb THEN tb[Key(p)] ELSE 0
    PROVE  /\ IsFiniteSet(Holes(s)) /\ Cardinality(Holes(s)) \in Nat
           /\ Cardinality(Holes(Append(s, p))) \in Nat /\ Missing(last, p.number) \in Nat
           /\ Cardinality(Holes(Append(s, p))) <= Cardinality(Holes(s)) + Missing(last, p.number)
           /\ Cardinality(Holes(s)) + Missing(last, p.number) <=
                Cardinality(Holes(Append(s, p))) + (IF p.number <= last THEN 1 ELSE 0)
<1> DEFINE t == Append(s, p)
           n1 == Len(s) + 1
           k == Key(p)
           num == p.number
<1>1. /\ DOMAIN s = 1 .. Len(s) /\ DOMAIN t = 1 .. n1 /\ Len(s) \in Nat
      /\ \A x \in DOMAIN s : t[x] = s[x] /\ s[x] \in Packets
      /\ t[n1] = p
      /\ \A x \in DOMAIN t : x \in DOMAIN s \/ x = n1
      /\ \A x \in DOMAIN s : x # n1 /\ x \in DOMAIN t
      /\ \A x \in DOMAIN s : \A y \in 1 .. x - 1 : y \in DOMAIN s
      /\ \A y \in 1 .. n1 - 1 : y \in DOMAIN s
      /\ \A y \in DOMAIN s : y \in 1 .. n1 - 1
      /\ n1 \in DOMAIN t
  <2>1. n1 \in 1 .. n1
    <3>1. Len(s) \in Nat
      BY OneMore
    <3> QED BY <3>1
  <2> QED BY <2>1, OneMore
<1>2. num \in 1 .. MaxNumber /\ num \in Nat /\ num # 0 /\ MaxNumber \in Nat
  BY PacketsAre, BusAssumption
<1>3. \A x \in DOMAIN s : s[x].number \in Nat
  BY <1>1, PacketsAre
<1>4. \A x \in DOMAIN s : IsFirst(t, x) <=> IsFirst(s, x)
  <2> HIDE DEF t, n1
  <2> QED BY <1>1 DEF IsFirst
<1>5. \A x \in DOMAIN s : Key(s[x]) \in DOMAIN tb /\ s[x].number <= tb[Key(s[x])]
  BY DEF TableOf
<1> HIDE DEF t, n1, k, num
<1>6. IsFiniteSet(Holes(s)) /\ Cardinality(Holes(s)) \in Nat
  <2>1. IsFiniteSet(1 .. Len(s)) /\ IsFiniteSet(1 .. MaxNumber)
    BY <1>1, <1>2, FS_Interval
  <2>2. IsFiniteSet((DOMAIN s) \X (1 .. MaxNumber))
    BY <1>1, <2>1, FS_Product
  <2>3. Holes(s) \subseteq (DOMAIN s) \X (1 .. MaxNumber)
    BY DEF Holes
  <2> QED BY <2>2, <2>3, FS_Subset, FS_CardinalityType
<1>7. \A x \in DOMAIN s : NumbersOf(t, x) =
          IF Key(s[x]) = k THEN NumbersOf(s, x) \cup {num} ELSE NumbersOf(s, x)
  BY <1>1 DEF NumbersOf, k, num
<1>8. CASE k \notin DOMAIN tb
  <2>1. \A x \in DOMAIN s : Key(s[x]) # k
    BY <1>5, <1>8
  <2>2. \A x \in DOMAIN s : \A n : IsHole(t, x, n) <=> IsHole(s, x, n)
    BY <1>1, <1>4, <1>7, <2>1 DEF IsHole
  <2>3. NumbersOf(t, n1) = {num}
    BY <1>1, <2>1 DEF NumbersOf, k, num
  <2>4. \A n \in Nat : ~IsHole(t, n1, n)
    BY <1>1, <1>2, <2>3 DEF IsHole, num
  <2>5. Holes(t) = Holes(s)
    <3>1. \A h : h \in Holes(t) <=> h \in Holes(s)
      BY <1>1, <1>2, <2>2, <2>4 DEF Holes
    <3> QED BY <3>1
  <2>6. last = 0 /\ Missing(last, num) = 0 /\ ~(num <= last)
    BY <1>2, <1>8 DEF Missing, k
  <2> QED BY <1>6, <2>5, <2>6 DEF t, num
<1>9. CASE k \in DOMAIN tb
  <2>1. PICK x0 \in DOMAIN s : Key(s[x0]) = k /\ IsFirst(s, x0)
    BY <1>9 DEF TableOf
  <2>2. PICK top \in DOMAIN s : Key(s[top]) = k /\ s[top].number = last
    BY <1>9 DEF TableOf, k
  <2>3. \A x \in DOMAIN s : Key(s[x]) = k => s[x].number <= last
    BY <1>5, <1>9 DEF k
  <2>4. \A x \in DOMAIN s : Key(s[x]) = k /\ IsFirst(s, x) => x = x0
    <3> SUFFICES ASSUME NEW x \in DOMAIN s, Key(s[x]) = k, IsFirst(s, x), x # x0
                 PROVE  FALSE
      OBVIOUS
    <3>1. x \in Nat /\ x0 \in Nat /\ x >= 1 /\ x0 >= 1
      BY <1>1
    <3>2. x0 \in 1 .. x - 1 \/ x \in 1 .. x0 - 1
      BY <3>1
    <3> QED BY <2>1, <3>2 DEF IsFirst
  <2>5. ~IsFirst(t, n1)
    BY <1>1, <2>1 DEF IsFirst, k
  <2> DEFINE ns == NumbersOf(s, x0)
             first == s[x0].number
  <2>6. /\ first \in Nat /\ first <= last /\ last \in ns /\ last # 0
        /\ \A m \in ns : m \in Nat /\ m <= last
    <3>1. first \in Nat /\ first <= last
      BY <1>3, <2>1, <2>3
    <3>2. last \in ns
      BY <2>1, <2>2 DEF NumbersOf
    <3>3. \A m \in ns : m \in Nat /\ m <= last
      BY <1>3, <2>1, <2>3 DEF NumbersOf
    <3>4. last # 0
      BY <1>1, <2>2, PacketsAre
    <3> QED BY <3>1, <3>2, <3>3, <3>4
  <2>7. \A n : IsHole(s, x0, n) <=> first < n /\ n \notin ns /\ \E m \in ns : n < m
    BY <2>1 DEF IsHole
  <2>8. \A n : IsHole(t, x0, n) <=> first < n /\ n \notin ns /\ n # num /\ \E m \in ns \cup {num} : n < m
    <3>1. IsFirst(t, x0) /\ t[x0] = s[x0] /\ NumbersOf(t, x0) = ns \cup {num}
      BY <1>1, <1>4, <1>7, <2>1
    <3> HIDE DEF ns
    <3> QED BY <3>1 DEF IsHole
  <2>9. \A x \in DOMAIN s : \A n : x # x0 => (IsHole(t, x, n) <=> IsHole(s, x, n))
    <3> SUFFICES ASSUME NEW x \in DOMAIN s, NEW n, x # x0
                 PROVE  IsHole(t, x, n) <=> IsHole(s, x, n)
      OBVIOUS
    <3>1. CASE Key(s[x]) = k
      BY <1>4, <2>4, <3>1 DEF IsHole
    <3>2. CASE Key(s[x]) # k
      BY <1>1, <1>4, <1>7, <3>2 DEF IsHole
    <3> QED BY <3>1, <3>2
  <2> HIDE DEF ns, first
  <2>10. CASE num <= last
    <3>1. \A n \in Nat : IsHole(t, x0, n) <=> IsHole(s, x0, n) /\ n # num
      BY <1>2, <2>6, <2>7, <2>8, <2>10
    <3>2. Holes(t) = Holes(s) \ {<<x0, num>>}
      <4>1. \A x, n : <<x, n>> \in Holes(t) <=> <<x, n>> \in Holes(s) /\ <<x, n>> # <<x0, num>>
        <5>1. \A x \in DOMAIN s : \A n \in 1 .. MaxNumber :
                 IsHole(t, x, n) <=> IsHole(s, x, n) /\ ~(x = x0 /\ n = num)
          BY <2>9, <3>1, <1>2
        <5>2. \A n : ~IsHole(t, n1, n)
          BY <2>5 DEF IsHole
        <5> QED BY <1>1, <5>1, <5>2 DEF Holes
      <4>2. \A h \in Holes(t) : h = <<h[1], h[2]>>
        BY DEF Holes
      <4>3. \A h \in Holes(s) : h = <<h[1], h[2]>>
        BY DEF Holes
      <4> QED BY <4>1, <4>2, <4>3
    <3>3. Missing(last, num) = 0
      BY <1>2, <2>10 DEF Missing
    <3>4. \/ Cardinality(Holes(t)) = Cardinality(Holes(s)) - 1 /\ Cardinality(Holes(s)) # 0
          \/ Cardinality(Holes(t)) = Cardinality(Holes(s))
      <4>1. \/ <<x0, num>> \in Holes(s) /\ Cardinality(Holes(t)) = Cardinality(Holes(s)) - 1
            \/ Cardinality(Holes(t)) = Cardinality(Holes(s))
        BY <1>6, <3>2, FS_RemoveElement
      <4>2. <<x0, num>> \in Holes(s) => Cardinality(Holes(s)) # 0
        BY <1>6, FS_EmptySet
      <4> QED BY <4>1, <4>2
    <3> QED BY <1>6, <2>10, <3>3, <3>4 DEF t, num
  <2>11. CASE ~(num <= last)
    <3> DEFINE new == {x0} \X (last + 1 .. num - 1)
    <3>1. \A n \in Nat : IsHole(t, x0, n) <=> IsHole(s, x0, n) \/ n \in last + 1 .. num - 1
      <4> SUFFICES ASSUME NEW n \in Nat
                   PROVE  IsHole(t, x0, n) <=> IsHole(s, x0, n) \/ n \in last + 1 .. num - 1
        OBVIOUS
      <4>1. CASE n < last
        BY <1>2, <2>6, <2>7, <2>8, <2>11, <4>1
      <4>2. CASE n = last
        BY <1>2, <2>6, <2>7, <2>8, <2>11, <4>2
      <4>3. CASE n > last
        BY <1>2, <2>6, <2>7, <2>8, <2>11, <4>3
      <4> QED BY <4>1, <4>2, <4>3
    <3>2. Holes(t) = Holes(s) \cup new
      <4>1. \A x, n : <<x, n>> \in Holes(t) <=> <<x, n>> \in Holes(s) \/ <<x, n>> \in new
        <5>1. \A x \in DOMAIN s : \A n \in 1 .. MaxNumber :
                 IsHole(t, x, n) <=> IsHole(s, x, n) \/ (x = x0 /\ n \in last + 1 .. num - 1)
          BY <2>9, <3>1, <1>2
        <5>2. \A n : ~IsHole(t, n1, n)
          BY <2>5 DEF IsHole
        <5>3. \A n \in last + 1 .. num - 1 : n \in 1 .. MaxNumber
          BY <1>2
        <5>4. \A x, n : <<x, n>> \in new <=> x = x0 /\ n \in last + 1 .. num - 1
          OBVIOUS
        <5> HIDE DEF new
        <5> QED BY <1>1, <5>1, <5>2, <5>3, <5>4 DEF Holes
      <4>2. \A h \in Holes(t) : h = <<h[1], h[2]>>
        BY DEF Holes
      <4>3. \A h \in Holes(s) : h = <<h[1], h[2]>>
        BY DEF Holes
      <4>4. \A h \in new : h = <<h[1], h[2]>>
        OBVIOUS
      <4> HIDE DEF new
      <4> QED BY <4>1, <4>2, <4>3, <4>4
    <3>3. \A n \in last + 1 .. num - 1 : ~IsHole(s, x0, n)
      BY <1>2, <2>6, <2>7
    <3>4. Holes(s) \cap new = {}
      BY <3>3 DEF Holes
    <3>5. IsFiniteSet(new) /\ Cardinality(new) = Missing(last, num)
      <4>1. IsFiniteSet(last + 1 .. num - 1)
            /\ Cardinality(last + 1 .. num - 1) = Missing(last, num)
        <5>1. last + 1 \in Int /\ num - 1 \in Int
          BY <1>2
        <5>2. IsFiniteSet(last + 1 .. num - 1)
              /\ Cardinality(last + 1 .. num - 1) =
                   IF last + 1 > num - 1 THEN 0 ELSE (num - 1) - (last + 1) + 1
          BY <5>1, FS_Interval
        <5>3. Missing(last, num) = IF last + 1 > num - 1 THEN 0 ELSE (num - 1) - (last + 1) + 1
          BY <1>2, <2>6, <2>11 DEF Missing
        <5> QED BY <5>2, <5>3
      <4>2. IsFiniteSet({x0}) /\ Cardinality({x0}) = 1
        BY FS_Singleton
      <4> DEFINE between == last + 1 .. num - 1
      <4> HIDE DEF between
      <4>3. IsFiniteSet(between) /\ Cardinality(between) = Missing(last, num) /\ new = {x0} \X between
        BY <4>1 DEF between
      <4>4. IsFiniteSet({x0} \X between) /\ Cardinality({x0} \X between) = Cardinality({x0}) * Cardinality(between)
        BY <4>2, <4>3, FS_Product
      <4>5. IsFiniteSet(new) /\ Cardinality(new) = 1 * Missing(last, num)
        BY <4>2, <4>3, <4>4
      <4>6. Missing(last, num) \in Nat
        BY <1>2 DEF Missing
      <4> QED BY <4>5, <4>6
    <3> HIDE DEF new
    <3>6. Cardinality(Holes(t)) = Cardinality(Holes(s)) + Missing(last, num)
      <4>1. Cardinality(Holes(s) \cup new) =
               Cardinality(Holes(s)) + Cardinality(new) - Cardinality(Holes(s) \cap new)
        BY <1>6, <3>5, FS_Union
      <4>2. Cardinality(Holes(s) \cap new) = 0
        BY <3>4, FS_EmptySet
      <4>3. Missing(last, num) \in Nat
        BY <1>2 DEF Missing
      <4> QED BY <1>6, <3>2, <3>5, <4>1, <4>2, <4>3
    <3>7. Missing(last, num) \in Nat
      BY <1>2 DEF Missing
    <3> QED BY <1>6, <2>11, <3>6, <3>7 DEF t, num
  <2> QED BY <2>10, <2>11
<1> QED BY <1>8, <1>9

(* What was heard since the table was emptied, with one packet more. *)
LEMMA RecentGoesOn ==
    ASSUME NEW h \in Seq(Packets), NEW e \in Nat, e <= Len(h), NEW p \in Packets
    PROVE  /\ SubSeq(h, e + 1, Len(h)) \in Seq(Packets)
           /\ \A x \in DOMAIN SubSeq(h, e + 1, Len(h)) :
                \E y \in DOMAIN h : SubSeq(h, e + 1, Len(h))[x] = h[y]
           /\ SubSeq(Append(h, p), e + 1, Len(Append(h, p))) = Append(SubSeq(h, e + 1, Len(h)), p)
<1> DEFINE n == Len(h)
           t == Append(h, p)
           r == SubSeq(h, e + 1, n)
           q == SubSeq(t, e + 1, n + 1)
<1>1. /\ n \in Nat /\ DOMAIN h = 1 .. n /\ t \in Seq(Packets) /\ Len(t) = n + 1
      /\ \A x \in 1 .. n : h[x] \in Packets /\ t[x] = h[x]
      /\ t[n + 1] = p
  BY OneMore, LenProperties, AppendProperties, ElementOfSeq
<1>2. \A x \in 1 .. n + 1 : t[x] \in Packets
  <2> HIDE DEF n, t
  <2>1. \A x \in 1 .. n + 1 : x \in 1 .. n \/ x = n + 1
    BY <1>1
  <2> QED BY <1>1, <2>1
<1>3. e <= n
  OBVIOUS
<1> HIDE DEF n, t
<1>4. /\ e + 1 \in Int /\ n \in Int /\ n + 1 \in Int
      /\ \A x \in e + 1 .. n : x \in 1 .. n
      /\ \A x \in e + 1 .. n + 1 : x \in 1 .. n + 1
  BY <1>1
<1>5. /\ r \in Seq(Packets) /\ Len(r) = n - e
      /\ \A x \in 1 .. n - e : r[x] = h[x + e] /\ x + e \in 1 .. n
  <2>1. \A x \in e + 1 .. n : h[x] \in Packets
    BY <1>1, <1>4
  <2>2. /\ r \in Seq(Packets)
        /\ Len(r) = IF e + 1 <= n THEN n - (e + 1) + 1 ELSE 0
        /\ \A x \in 1 .. n - (e + 1) + 1 : r[x] = h[(e + 1) + x - 1]
    BY <1>4, <2>1, SubSeqProperties
  <2>3. (IF e + 1 <= n THEN n - (e + 1) + 1 ELSE 0) = n - e /\ n - (e + 1) + 1 = n - e
    BY <1>1, <1>3
  <2>4. \A x \in 1 .. n - e : (e + 1) + x - 1 = x + e /\ x + e \in 1 .. n
    BY <1>1, <1>3
  <2> HIDE DEF r
  <2> QED BY <2>2, <2>3, <2>4
<1>6. /\ q \in Seq(Packets) /\ Len(q) = (n - e) + 1
      /\ \A x \in 1 .. (n - e) + 1 : q[x] = t[x + e]
  <2>1. \A x \in e + 1 .. n + 1 : t[x] \in Packets
    BY <1>2, <1>4
  <2>2. /\ q \in Seq(Packets)
        /\ Len(q) = IF e + 1 <= n + 1 THEN (n + 1) - (e + 1) + 1 ELSE 0
        /\ \A x \in 1 .. (n + 1) - (e + 1) + 1 : q[x] = t[(e + 1) + x - 1]
    BY <1>4, <2>1, SubSeqProperties
  <2>3. (IF e + 1 <= n + 1 THEN (n + 1) - (e + 1) + 1 ELSE 0) = (n - e) + 1
        /\ (n + 1) - (e + 1) + 1 = (n - e) + 1
    BY <1>1, <1>3
  <2>4. \A x \in 1 .. (n - e) + 1 : (e + 1) + x - 1 = x + e
    BY <1>1, <1>3
  <2> HIDE DEF q
  <2> QED BY <2>2, <2>3, <2>4
<1> HIDE DEF r, q
<1>7. /\ Append(r, p) \in Seq(Packets) /\ Len(Append(r, p)) = (n - e) + 1
      /\ DOMAIN Append(r, p) = 1 .. (n - e) + 1
      /\ \A x \in 1 .. n - e : Append(r, p)[x] = r[x]
      /\ Append(r, p)[(n - e) + 1] = p
  BY <1>5, AppendProperties
<1>8. q = Append(r, p)
  <2>1. \A x \in 1 .. (n - e) + 1 : q[x] = Append(r, p)[x]
    <3> SUFFICES ASSUME NEW x \in 1 .. (n - e) + 1 PROVE q[x] = Append(r, p)[x]
      OBVIOUS
    <3>1. x \in 1 .. n - e \/ x = (n - e) + 1
      BY <1>1, <1>3
    <3>2. CASE x \in 1 .. n - e
      BY <1>1, <1>5, <1>6, <1>7, <3>2
    <3>3. CASE x = (n - e) + 1
      <4>1. x + e = n + 1
        BY <1>1, <1>3, <3>3
      <4> QED BY <1>1, <1>6, <1>7, <3>3, <4>1
    <3> QED BY <3>1, <3>2, <3>3
  <2> QED BY <1>6, <1>7, <2>1, SeqEqual
<1>9. \A x \in DOMAIN r : \E y \in DOMAIN h : r[x] = h[y]
  <2>1. DOMAIN r = 1 .. n - e
    BY <1>5, LenProperties
  <2> QED BY <1>1, <1>5, <2>1
<1>10. q = SubSeq(Append(h, p), e + 1, Len(Append(h, p)))
  BY <1>1 DEF q, t
<1> QED BY <1>5, <1>8, <1>9, <1>10 DEF r, n

(* The table after one packet more; what it counts as late is late. *)
LEMMA TableGrows ==
    ASSUME NEW s \in Seq(Packets), NEW p \in Packets, NEW tb \in Tables, TableOf(tb, s),
           \A x \in DOMAIN s : Key(s[x]) = Key(p) => s[x].life = p.life,
           NEW last, last = IF Key(p) \in DOMAIN tb THEN tb[Key(p)] ELSE 0,
           NEW tb2, tb2 = [k \in DOMAIN tb \cup {Key(p)} |->
                                IF k = Key(p) THEN Baseline(last, p.number) ELSE tb[k]]
    PROVE  /\ last \in Nat /\ tb2 \in Tables /\ DOMAIN tb2 = DOMAIN tb \cup {Key(p)}
           /\ TableOf(tb2, Append(s, p))
           /\ (p.number <= last <=> Late(s, p))
<1> DEFINE t == Append(s, p)
           n1 == Len(s) + 1
           k0 == Key(p)
           num == p.number
           b == Baseline(last, num)
<1>1. /\ t \in Seq(Packets) /\ DOMAIN s = 1 .. Len(s) /\ DOMAIN t = 1 .. n1 /\ Len(s) \in Nat
      /\ \A x \in DOMAIN s : t[x] = s[x] /\ s[x] \in Packets
      /\ t[n1] = p
      /\ \A x \in DOMAIN t : x \in DOMAIN s \/ x = n1
      /\ \A x \in DOMAIN s : x # n1 /\ x \in DOMAIN t
      /\ \A x \in DOMAIN s : \A y \in 1 .. x - 1 : y \in DOMAIN s
      /\ \A y \in 1 .. n1 - 1 : y \in DOMAIN s
      /\ n1 \in DOMAIN t
  <2>1. n1 \in 1 .. n1
    <3>1. Len(s) \in Nat
      BY OneMore
    <3> QED BY <3>1
  <2> QED BY <2>1, OneMore
<1>2. /\ num \in 1 .. MaxNumber /\ num \in Nat /\ num # 0 /\ MaxNumber \in Nat /\ k0 \in Keys
      /\ \A x \in DOMAIN s : s[x].number \in 1 .. MaxNumber /\ s[x].number \in Nat
  BY <1>1, PacketsAre, KeysAre, BusAssumption
<1>3. DOMAIN tb \subseteq Keys /\ \A k \in DOMAIN tb : tb[k] \in 1 .. MaxNumber /\ tb[k] \in Nat
  BY <1>2, TablesAre
<1>4. last \in Nat /\ last <= MaxNumber
  BY <1>2, <1>3
<1>5. b = (IF last >= num THEN last ELSE num) /\ b \in 1 .. MaxNumber /\ b \in Nat
      /\ num <= b /\ last <= b
  <2>1. b = IF last >= num THEN last ELSE num
    BY <1>2, <1>4, MaxOfTwo
  <2> HIDE DEF b, num
  <2> QED BY <1>2, <1>4, <2>1
<1> HIDE DEF t, n1, k0, num, b
<1>6. tb2 = [k \in DOMAIN tb \cup {k0} |-> IF k = k0 THEN b ELSE tb[k]]
  BY DEF k0, b, num
<1>7. /\ DOMAIN tb2 = DOMAIN tb \cup {k0} /\ tb2[k0] = b
      /\ \A k \in DOMAIN tb : k # k0 => tb2[k] = tb[k]
  BY <1>6
<1>8. tb2 \in Tables
  <2>1. tb2 \in [DOMAIN tb \cup {k0} -> 1 .. MaxNumber]
    BY <1>3, <1>5, <1>6
  <2> QED BY <1>2, <1>3, <2>1, TablesAre
<1>9. \A k \in DOMAIN tb : \A x \in DOMAIN s : Key(s[x]) = k => s[x].number <= tb[k]
  BY DEF TableOf
<1>10. last = IF k0 \in DOMAIN tb THEN tb[k0] ELSE 0
  BY DEF k0
<1>11. \A x \in DOMAIN s : IsFirst(t, x) <=> IsFirst(s, x)
  BY <1>1 DEF IsFirst
<1>12. ASSUME NEW x \in DOMAIN t
       PROVE  Key(t[x]) \in DOMAIN tb2 /\ t[x].number <= tb2[Key(t[x])]
  <2>1. CASE x = n1
    BY <1>1, <1>5, <1>7, <2>1 DEF k0, num
  <2>2. CASE x \in DOMAIN s
    <3>1. t[x] = s[x] /\ Key(s[x]) \in DOMAIN tb /\ s[x].number <= tb[Key(s[x])]
      BY <1>1, <2>2 DEF TableOf
    <3>2. CASE Key(s[x]) = k0
      <4>1. s[x].number <= last /\ s[x].number \in Nat
        BY <1>2, <1>10, <2>2, <3>1, <3>2
      <4>2. s[x].number <= b
        BY <1>4, <1>5, <4>1
      <4> QED BY <1>7, <3>1, <3>2, <4>2
    <3>3. CASE Key(s[x]) # k0
      BY <1>7, <3>1, <3>3
    <3> QED BY <3>2, <3>3
  <2> QED BY <1>1, <2>1, <2>2
<1>13. ASSUME NEW k \in DOMAIN tb2
       PROVE  /\ \E x \in DOMAIN t : Key(t[x]) = k /\ t[x].number = tb2[k]
              /\ \E x \in DOMAIN t : Key(t[x]) = k /\ IsFirst(t, x)
  <2>1. CASE k \in DOMAIN tb
    <3>1. /\ \E x \in DOMAIN s : Key(s[x]) = k /\ s[x].number = tb[k]
          /\ \E x \in DOMAIN s : Key(s[x]) = k /\ IsFirst(s, x)
      BY <2>1 DEF TableOf
    <3>2. \E x \in DOMAIN t : Key(t[x]) = k /\ IsFirst(t, x)
      BY <1>1, <1>11, <3>1
    <3>3. CASE k = k0 /\ ~(last >= num)
      <4>1. Key(t[n1]) = k /\ t[n1].number = tb2[k] /\ n1 \in DOMAIN t
        BY <1>1, <1>5, <1>7, <3>3 DEF k0, num
      <4> QED BY <3>2, <4>1
    <3>4. CASE k # k0 \/ last >= num
      <4>1. tb2[k] = tb[k]
        BY <1>5, <1>7, <1>10, <2>1, <3>4
      <4> QED BY <1>1, <3>1, <3>2, <4>1
    <3> QED BY <3>3, <3>4
  <2>2. CASE k \notin DOMAIN tb
    <3>1. k = k0 /\ last = 0 /\ b = num
      BY <1>2, <1>5, <1>7, <1>10, <2>2
    <3>2. Key(t[n1]) = k /\ t[n1].number = tb2[k] /\ n1 \in DOMAIN t
      BY <1>1, <1>7, <3>1 DEF k0, num
    <3>3. IsFirst(t, n1)
      <4>1. \A x \in DOMAIN s : Key(s[x]) # k
        BY <2>2 DEF TableOf
      <4> QED BY <1>1, <3>2, <4>1 DEF IsFirst
    <3> QED BY <3>2, <3>3
  <2> QED BY <2>1, <2>2
<1>14. TableOf(tb2, t)
  BY <1>12, <1>13 DEF TableOf
<1>15. (num <= last) <=> Late(s, p)
  <2>1. ASSUME num <= last
        PROVE  Late(s, p)
    <3>1. k0 \in DOMAIN tb /\ last = tb[k0]
      BY <1>2, <1>10, <2>1
    <3>2. PICK x \in DOMAIN s : Key(s[x]) = k0 /\ s[x].number = last
      BY <3>1 DEF TableOf
    <3>3. s[x].number >= num
      BY <1>2, <1>4, <2>1, <3>2
    <3> QED BY <3>2, <3>3 DEF Late, k0, num
  <2>2. ASSUME Late(s, p)
        PROVE  num <= last
    <3>1. PICK x \in DOMAIN s : Key(s[x]) = k0 /\ s[x].number >= num
      BY <2>2 DEF Late, k0, num
    <3>2. k0 \in DOMAIN tb /\ s[x].number <= tb[k0]
      BY <3>1 DEF TableOf
    <3> QED BY <1>2, <1>4, <1>10, <3>1, <3>2
  <2> QED BY <2>1, <2>2
<1> QED BY <1>4, <1>7, <1>8, <1>14, <1>15 DEF t, k0, num

-----------------------------------------------------------------------------
(* An empty table is the table of an empty memory. *)
LEMMA NothingHeard ==
    /\ <<>> \in Tables /\ <<>> \in Seq(Packets) /\ DOMAIN <<>> = {} /\ TableOf(<<>>, <<>>)
    /\ Cardinality(Holes(<<>>)) = 0 /\ Cardinality(Inversions(<<>>)) = 0
<1>1. DOMAIN <<>> = {} /\ <<>> \in Seq(Packets)
  OBVIOUS
<1>2. <<>> \in Tables
  <2>1. <<>> \in [{} -> 1 .. MaxNumber]
    OBVIOUS
  <2> QED BY <2>1, TablesAre
<1>3. TableOf(<<>>, <<>>)
  BY <1>1 DEF TableOf
<1>4. Holes(<<>>) = {} /\ Inversions(<<>>) = {}
  BY <1>1 DEF Holes, Inversions
<1> QED BY <1>1, <1>2, <1>3, <1>4, FS_EmptySet

(* Packets of one name are of one life. *)
LEMMA OneLife ==
    ASSUME NumbersGiven, NEW p \in broadcast, NEW q \in broadcast, Key(p) = Key(q)
    PROVE  p.life = q.life
<1>1. p.from = q.from
  BY DEF Key
<1>2. PICK i \in Insts : p.from = <<i, p.life>>
  BY DEF NumbersGiven, Given
<1>3. PICK j \in Insts : q.from = <<j, q.life>>
  BY DEF NumbersGiven, Given
<1>4. \A a, b : <<i, a>> = <<j, b>> => a = b
  OBVIOUS
<1> QED BY <1>1, <1>2, <1>3, <1>4

(* The subscription callback, whatever the room says to the packet. *)
LEMMA HearsStep ==
    ASSUME SpaceInv, SeenInv, NEW i \in Insts, Receive(i),
           inboundDropped' \in [Insts -> Nat]
    PROVE  SeenInv'
<1> DEFINE p == Head(inbox[i])
           num == p.number
           h == heardBus[i]
           must == MustEmpty(i, p)
           known == IF must THEN <<>> ELSE lastSeq[i]
           s == IF must THEN <<>> ELSE Recent(i)
           e == IF must THEN Len(h) ELSE emptied[i]
           last == IF Key(p) \in DOMAIN known THEN known[Key(p)] ELSE 0
           tb2 == [k \in DOMAIN known \cup {Key(p)} |->
                     IF k = Key(p) THEN Baseline(last, num) ELSE known[k]]
           late == IF num <= last THEN 1 ELSE 0
<1>1. /\ inbox[i] # <<>> /\ inbox' = [inbox EXCEPT ![i] = Tail(@)]
      /\ lastSeq' = [lastSeq EXCEPT ![i] = tb2]
      /\ gaps' = [gaps EXCEPT ![i] = gaps[i] + Missing(last, num)]
      /\ regressions' = [regressions EXCEPT ![i] = regressions[i] + late]
      /\ emptied' = [emptied EXCEPT ![i] = e]
      /\ heardBus' = [heardBus EXCEPT ![i] = Append(h, p)]
      /\ broadcast' = broadcast
  BY DEF Receive, CheckClusterRoomSeq, SeenInv, SeenTypes
<1>2. BusTypes /\ OnTheWay /\ NumbersGiven /\ SeenTypes /\ TablesTell
  BY DEF SpaceInv, SeenInv
<1>3. p \in Packets /\ p \in broadcast
  BY <1>1, <1>2, HeadIsTaken
<1>4. /\ h \in Seq(Packets) /\ emptied[i] \in Nat /\ emptied[i] <= Len(h) /\ Len(h) \in Nat
      /\ lastSeq[i] \in Tables /\ gaps[i] \in Nat /\ regressions[i] \in Nat
      /\ \A x \in DOMAIN h : h[x] \in broadcast
      /\ IsFiniteSet(DOMAIN lastSeq[i]) /\ Cardinality(DOMAIN lastSeq[i]) <= MaxBaselines
  <2>1. heardBus[i] \in Seq(Packets)
    BY <1>2 DEF SeenTypes
  <2>2. Len(h) \in Nat
    BY <2>1, LenProperties
  <2> QED BY <1>2, <2>1, <2>2 DEF SeenTypes
<1>5. num \in Nat /\ num # 0
  BY <1>3, PacketsAre
<1> HIDE DEF p, num
<1>6. /\ e \in Nat /\ e <= Len(h)
      /\ s = SubSeq(h, e + 1, Len(h))
      /\ TableOf(known, s) /\ known \in Tables
      /\ (must => s = <<>> /\ known = <<>> /\ e = Len(h))
      /\ (~must => s = Recent(i) /\ known = lastSeq[i] /\ e = emptied[i])
  <2>1. CASE must
    <3>1. SubSeq(h, Len(h) + 1, Len(h)) = <<>>
      BY <1>4, SubSeqEmpty
    <3>2. known = <<>> /\ s = <<>> /\ e = Len(h)
      BY <2>1
    <3>3. Len(h) \in Nat /\ Len(h) <= Len(h)
      BY <1>4
    <3> HIDE DEF must, known, s, e, h
    <3> QED BY <2>1, <3>1, <3>2, <3>3, NothingHeard
  <2>2. CASE ~must
    <3>1. TableOf(lastSeq[i], Recent(i)) /\ Recent(i) = SubSeq(h, emptied[i] + 1, Len(h))
      BY <1>2 DEF TablesTell, Recent
    <3> HIDE DEF must
    <3> QED BY <1>4, <2>2, <3>1
  <2> QED BY <2>1, <2>2
<1>7. /\ IsFiniteSet(DOMAIN known \cup {Key(p)})
      /\ Cardinality(DOMAIN known \cup {Key(p)}) <= MaxBaselines
  <2>1. MaxBaselines \in Nat /\ MaxBaselines >= 1
    BY BusAssumption
  <2>2. CASE must
    <3>1. DOMAIN known \cup {Key(p)} = {Key(p)}
      <4> HIDE DEF must, known
      <4> QED BY <1>6, <2>2, NothingHeard
    <3>2. IsFiniteSet({Key(p)}) /\ Cardinality({Key(p)}) = 1
      BY FS_Singleton
    <3> HIDE DEF known
    <3> QED BY <2>1, <3>1, <3>2
  <2>3. CASE ~must
    <3> DEFINE ks == DOMAIN lastSeq[i]
    <3>1. DOMAIN known = ks
      <4> HIDE DEF must, known
      <4> QED BY <1>6, <2>3
    <3>2. IsFiniteSet(ks) /\ Cardinality(ks) <= MaxBaselines /\ Cardinality(ks) \in Nat
      BY <1>4, FS_CardinalityType
    <3>3. ~(Cardinality(ks) >= MaxBaselines) \/ Key(p) \in ks
      BY <2>3 DEF MustEmpty, Known
    <3> HIDE DEF ks, known
    <3>4. IsFiniteSet(ks \cup {Key(p)})
          /\ Cardinality(ks \cup {Key(p)}) =
                IF Key(p) \in ks THEN Cardinality(ks) ELSE Cardinality(ks) + 1
      BY <3>2, FS_AddElement
    <3>5. Cardinality(ks \cup {Key(p)}) <= MaxBaselines
      BY <2>1, <3>2, <3>3, <3>4
    <3> QED BY <3>1, <3>4, <3>5
  <2> QED BY <2>2, <2>3
<1>8. must => Len(h) # 0
  <2> SUFFICES ASSUME must PROVE Len(h) # 0
    OBVIOUS
  <2>1. Cardinality(DOMAIN lastSeq[i]) # 0
    <3>1. MaxBaselines \in Nat /\ MaxBaselines # 0 /\ Cardinality(DOMAIN lastSeq[i]) \in Nat
      BY <1>4, BusAssumption, FS_CardinalityType
    <3> QED BY <3>1 DEF MustEmpty
  <2>2. DOMAIN lastSeq[i] # {}
    BY <2>1, FS_EmptySet
  <2>3. PICK x \in DOMAIN Recent(i) : TRUE
    BY <1>2, <2>2 DEF TablesTell, TableOf
  <2>4. \E y \in DOMAIN h : Recent(i)[x] = h[y]
    BY <1>3, <1>4, <2>3, RecentGoesOn DEF Recent
  <2> QED BY <1>4, <2>4, LenProperties
<1> HIDE DEF known, s, e
<1>9. /\ s \in Seq(Packets)
      /\ \A x \in DOMAIN s : \E y \in DOMAIN h : s[x] = h[y]
      /\ SubSeq(Append(h, p), e + 1, Len(Append(h, p))) = Append(s, p)
  <2> HIDE DEF h, must
  <2> QED BY <1>3, <1>4, <1>6, RecentGoesOn
<1>10. \A x \in DOMAIN s : Key(s[x]) = Key(p) => s[x].life = p.life
  BY <1>2, <1>3, <1>4, <1>9, OneLife
<1>11. /\ last \in Nat /\ tb2 \in Tables /\ DOMAIN tb2 = DOMAIN known \cup {Key(p)}
       /\ TableOf(tb2, Append(s, p))
       /\ (num <= last <=> Late(s, p))
  <2>1. last = IF Key(p) \in DOMAIN known THEN known[Key(p)] ELSE 0
    OBVIOUS
  <2>2. tb2 = [k \in DOMAIN known \cup {Key(p)} |->
                 IF k = Key(p) THEN Baseline(last, p.number) ELSE known[k]]
    BY DEF num
  <2> HIDE DEF h, must, last, tb2
  <2>3. /\ last \in Nat /\ tb2 \in Tables /\ DOMAIN tb2 = DOMAIN known \cup {Key(p)}
        /\ TableOf(tb2, Append(s, p))
        /\ (p.number <= last <=> Late(s, p))
    <3>1. p \in Packets /\ s \in Seq(Packets) /\ known \in Tables /\ TableOf(known, s)
      BY <1>3, <1>6, <1>9
    <3>2. \A x \in DOMAIN s : Key(s[x]) = Key(p) => s[x].life = p.life
      BY <1>10
    <3> HIDE DEF p, late
    <3> QED BY ONLY <3>1, <3>2, <2>1, <2>2, TableGrows
  <2> QED BY <2>3 DEF num
<1>12. /\ Cardinality(Holes(s)) \in Nat
       /\ Cardinality(Holes(Append(s, p))) \in Nat /\ Missing(last, num) \in Nat
       /\ Cardinality(Holes(Append(s, p))) <= Cardinality(Holes(s)) + Missing(last, num)
       /\ Cardinality(Holes(s)) + Missing(last, num) <= Cardinality(Holes(Append(s, p))) + late
  <2> HIDE DEF h, must
  <2> QED BY <1>3, <1>6, <1>9, <1>11, HolesGrow DEF num
<1>13. /\ Cardinality(Inversions(s)) \in Nat /\ Cardinality(Inversions(h)) \in Nat
       /\ Cardinality(Inversions(Append(s, p))) =
            Cardinality(Inversions(s)) + (IF Late(s, p) THEN 1 ELSE 0)
       /\ Cardinality(Inversions(Append(h, p))) =
            Cardinality(Inversions(h)) + (IF Late(h, p) THEN 1 ELSE 0)
  <2> HIDE DEF h, must
  <2> QED BY <1>3, <1>4, <1>9, InversionsGrow
<1>14. Late(s, p) => Late(h, p)
  BY <1>9 DEF Late
<1> HIDE DEF last, tb2
<1>15. late \in {0, 1} /\ (late = 1 <=> Late(s, p)) /\ (late = 0 <=> ~Late(s, p))
  BY <1>11
<1> HIDE DEF late
<1>16. /\ heardBus'[i] = Append(h, p) /\ emptied'[i] = e /\ lastSeq'[i] = tb2
       /\ gaps'[i] = gaps[i] + Missing(last, num) /\ regressions'[i] = regressions[i] + late
       /\ \A j \in Insts : j # i =>
            /\ heardBus'[j] = heardBus[j] /\ emptied'[j] = emptied[j] /\ lastSeq'[j] = lastSeq[j]
            /\ gaps'[j] = gaps[j] /\ regressions'[j] = regressions[j]
  BY <1>1, <1>2 DEF SeenTypes
<1>17. /\ Append(h, p) \in Seq(Packets) /\ Len(Append(h, p)) = Len(h) + 1
       /\ \A x \in DOMAIN Append(h, p) : Append(h, p)[x] \in broadcast
  <2> HIDE DEF h
  <2>1. /\ Append(h, p) \in Seq(Packets) /\ Len(Append(h, p)) = Len(h) + 1
    BY <1>3, <1>4, AppendProperties
  <2>2. /\ \A x \in DOMAIN h : Append(h, p)[x] = h[x]
        /\ Append(h, p)[Len(h) + 1] = p
        /\ \A x \in DOMAIN Append(h, p) : x \in DOMAIN h \/ x = Len(h) + 1
    BY <1>3, <1>4, OneMore
  <2> QED BY <1>3, <1>4, <2>1, <2>2
<1>18. Recent(i)' = Append(s, p) /\ \A j \in Insts : j # i => Recent(j)' = Recent(j)
  BY <1>9, <1>16 DEF Recent
<1>19. e <= Len(Append(h, p))
  <2> HIDE DEF h
  <2> QED BY <1>4, <1>6, <1>17
<1>20. SeenTypes'
  <2>1. lastSeq' \in [Insts -> Tables]
    BY <1>1, <1>2, <1>11 DEF SeenTypes
  <2>2. gaps[i] + Missing(last, num) \in Nat /\ regressions[i] + late \in Nat
    BY <1>4, <1>12, <1>15
  <2>3. gaps' \in [Insts -> Nat] /\ regressions' \in [Insts -> Nat]
    BY <1>1, <1>2, <2>2 DEF SeenTypes
  <2>4. emptied' \in [Insts -> Nat] /\ heardBus' \in [Insts -> Seq(Packets)]
    BY <1>1, <1>2, <1>6, <1>17 DEF SeenTypes
  <2>5. ASSUME NEW j \in Insts
        PROVE  /\ IsFiniteSet(DOMAIN lastSeq'[j])
               /\ Cardinality(DOMAIN lastSeq'[j]) <= MaxBaselines
               /\ emptied'[j] <= Len(heardBus'[j])
               /\ \A x \in DOMAIN heardBus'[j] : heardBus'[j][x] \in broadcast
    <3>1. CASE j = i
      BY <1>7, <1>11, <1>16, <1>17, <1>19, <3>1
    <3>2. CASE j # i
      BY <1>2, <1>16, <3>2 DEF SeenTypes
    <3> QED BY <3>1, <3>2
  <2> QED BY <1>1, <2>1, <2>3, <2>4, <2>5 DEF SeenTypes
<1>21. TablesTell'
  <2>1. ASSUME NEW j \in Insts
        PROVE  TableOf(lastSeq'[j], Recent(j)')
    <3>1. CASE j = i
      BY <1>11, <1>16, <1>18, <3>1
    <3>2. CASE j # i
      BY <1>2, <1>16, <1>18, <3>2 DEF TablesTell
    <3> QED BY <3>1, <3>2
  <2> QED BY <2>1 DEF TablesTell
<1>22. RegressionsHonest'
  <2>1. regressions[i] <= Cardinality(Inversions(h)) /\ regressions[i] >= Cardinality(Inversions(Recent(i)))
    BY DEF SeenInv, RegressionsHonest
  <2>2. regressions[i] >= Cardinality(Inversions(s))
    <3>1. CASE must
      <4>1. Cardinality(Inversions(s)) = 0
        BY <1>6, <3>1, NothingHeard
      <4> HIDE DEF must
      <4> QED BY <1>4, <4>1
    <3>2. CASE ~must
      BY <1>6, <2>1, <3>2
    <3> QED BY <3>1, <3>2
  <2>3. /\ regressions[i] + late <= Cardinality(Inversions(Append(h, p)))
        /\ regressions[i] + late >= Cardinality(Inversions(Append(s, p)))
    <3> DEFINE a == Cardinality(Inversions(h))
               b == Cardinality(Inversions(s))
               c == Cardinality(Inversions(Append(h, p)))
               d == Cardinality(Inversions(Append(s, p)))
    <3>1. /\ a \in Nat /\ b \in Nat /\ c = a + (IF Late(h, p) THEN 1 ELSE 0)
          /\ d = b + (IF Late(s, p) THEN 1 ELSE 0)
          /\ regressions[i] <= a /\ regressions[i] >= b /\ regressions[i] \in Nat
      BY <1>4, <1>13, <2>1, <2>2
    <3> HIDE DEF a, b, c, d
    <3>2. regressions[i] + late <= c /\ regressions[i] + late >= d
      BY <1>14, <1>15, <3>1
    <3> QED BY <3>2 DEF c, d
  <2>4. ASSUME NEW j \in Insts
        PROVE  /\ regressions'[j] <= Cardinality(Inversions(heardBus'[j]))
               /\ regressions'[j] >= Cardinality(Inversions(Recent(j)'))
    <3>1. CASE j = i
      BY <1>16, <1>18, <2>3, <3>1
    <3>2. CASE j # i
      BY <1>16, <1>18, <3>2 DEF SeenInv, RegressionsHonest
    <3> QED BY <3>1, <3>2
  <2> QED BY <2>4 DEF RegressionsHonest
<1>23. HolesCounted'
  <2>1. /\ gaps[i] >= Cardinality(Holes(Recent(i)))
        /\ emptied[i] = 0 => gaps[i] <= Cardinality(Holes(Recent(i))) + regressions[i]
    BY DEF SeenInv, HolesCounted
  <2>2. /\ gaps[i] >= Cardinality(Holes(s))
        /\ e = 0 => gaps[i] <= Cardinality(Holes(s)) + regressions[i]
    <3>1. CASE must
      <4>1. Cardinality(Holes(s)) = 0 /\ e # 0
        BY <1>6, <1>8, <3>1, NothingHeard
      <4> QED BY <1>4, <4>1
    <3>2. CASE ~must
      BY <1>6, <2>1, <3>2
    <3> QED BY <3>1, <3>2
  <2>3. /\ gaps[i] + Missing(last, num) >= Cardinality(Holes(Append(s, p)))
        /\ e = 0 => gaps[i] + Missing(last, num)
                      <= Cardinality(Holes(Append(s, p))) + (regressions[i] + late)
    <3> DEFINE a == Cardinality(Holes(s))
               b == Cardinality(Holes(Append(s, p)))
               m == Missing(last, num)
    <3>1. /\ a \in Nat /\ b \in Nat /\ m \in Nat /\ b <= a + m /\ a + m <= b + late
          /\ gaps[i] >= a /\ (e = 0 => gaps[i] <= a + regressions[i])
          /\ gaps[i] \in Nat /\ regressions[i] \in Nat /\ late \in Nat
      BY <1>4, <1>12, <1>15, <2>2
    <3> HIDE DEF a, b, m
    <3>2. gaps[i] + m >= b /\ (e = 0 => gaps[i] + m <= b + (regressions[i] + late))
      BY <3>1
    <3> QED BY <3>2 DEF b, m
  <2>4. ASSUME NEW j \in Insts
        PROVE  /\ gaps'[j] >= Cardinality(Holes(Recent(j)'))
               /\ emptied'[j] = 0 => gaps'[j] <= Cardinality(Holes(Recent(j)')) + regressions'[j]
    <3>1. CASE j = i
      BY <1>16, <1>18, <2>3, <3>1
    <3>2. CASE j # i
      BY <1>16, <1>18, <3>2 DEF SeenInv, HolesCounted
    <3> QED BY <3>1, <3>2
  <2> QED BY <2>4 DEF HolesCounted
<1> QED BY <1>20, <1>21, <1>22, <1>23 DEF SeenInv

(* A message that is sent, lost, or the instance's own tells a receiver nothing. *)
LEMMA HearsNothing ==
    ASSUME SeenInv, broadcast \subseteq broadcast',
           UNCHANGED <<lastSeq, gaps, regressions, inboundDropped, heardBus, emptied>>
    PROVE  SeenInv'
<1>1. SeenTypes /\ TablesTell /\ RegressionsHonest /\ HolesCounted
  BY DEF SeenInv
<1>2. SeenTypes'
  BY <1>1 DEF SeenTypes
<1>3. \A i \in Insts : Recent(i)' = Recent(i)
  BY DEF Recent
<1>4. TablesTell'
  BY <1>1, <1>3 DEF TablesTell
<1>5. RegressionsHonest'
  BY <1>1, <1>3 DEF RegressionsHonest
<1>6. HolesCounted'
  BY <1>1, <1>3 DEF HolesCounted
<1> QED BY <1>2, <1>4, <1>5, <1>6 DEF SeenInv

(* A new life has heard nothing. *)
LEMMA ForgetsWhatItHeard ==
    ASSUME SeenInv, NEW i \in Insts, RestartInstance(i)
    PROVE  SeenInv'
<1>1. /\ lastSeq' = [lastSeq EXCEPT ![i] = <<>>] /\ heardBus' = [heardBus EXCEPT ![i] = <<>>]
      /\ gaps' = [gaps EXCEPT ![i] = 0] /\ regressions' = [regressions EXCEPT ![i] = 0]
      /\ inboundDropped' = [inboundDropped EXCEPT ![i] = 0]
      /\ emptied' = [emptied EXCEPT ![i] = 0] /\ broadcast' = broadcast
  BY DEF RestartInstance
<1>2. SeenTypes /\ TablesTell /\ RegressionsHonest /\ HolesCounted
  BY DEF SeenInv
<1>3. /\ lastSeq'[i] = <<>> /\ heardBus'[i] = <<>> /\ gaps'[i] = 0 /\ regressions'[i] = 0
      /\ emptied'[i] = 0
      /\ \A j \in Insts : j # i =>
            /\ heardBus'[j] = heardBus[j] /\ emptied'[j] = emptied[j] /\ lastSeq'[j] = lastSeq[j]
            /\ gaps'[j] = gaps[j] /\ regressions'[j] = regressions[j]
  BY <1>1, <1>2 DEF SeenTypes
<1>4. Recent(i)' = <<>> /\ \A j \in Insts : j # i => Recent(j)' = Recent(j)
  <2>1. Len(<<>>) = 0 /\ SubSeq(<<>>, 1, 0) = <<>>
    BY SubSeqEmpty
  <2>2. Recent(i)' = SubSeq(<<>>, 1, 0)
    BY <1>3, <2>1 DEF Recent
  <2> QED BY <1>3, <2>1, <2>2 DEF Recent
<1>5. SeenTypes'
  <2>1. /\ lastSeq' \in [Insts -> Tables] /\ heardBus' \in [Insts -> Seq(Packets)]
        /\ gaps' \in [Insts -> Nat] /\ regressions' \in [Insts -> Nat]
        /\ inboundDropped' \in [Insts -> Nat] /\ emptied' \in [Insts -> Nat]
    BY <1>1, <1>2, NothingHeard DEF SeenTypes
  <2>2. IsFiniteSet({}) /\ Cardinality({}) = 0 /\ 0 <= MaxBaselines /\ Len(<<>>) = 0
    BY BusAssumption, FS_EmptySet
  <2>3. ASSUME NEW j \in Insts
        PROVE  /\ IsFiniteSet(DOMAIN lastSeq'[j])
               /\ Cardinality(DOMAIN lastSeq'[j]) <= MaxBaselines
               /\ emptied'[j] <= Len(heardBus'[j])
               /\ \A x \in DOMAIN heardBus'[j] : heardBus'[j][x] \in broadcast
    <3>1. CASE j = i
      BY <1>3, <2>2, <3>1, NothingHeard
    <3>2. CASE j # i
      BY <1>2, <1>3, <3>2 DEF SeenTypes
    <3> QED BY <3>1, <3>2
  <2> QED BY <1>1, <2>1, <2>3 DEF SeenTypes
<1>6. TablesTell'
  <2>1. \A j \in Insts : TableOf(lastSeq'[j], Recent(j)')
    BY <1>2, <1>3, <1>4, NothingHeard DEF TablesTell
  <2> QED BY <2>1 DEF TablesTell
<1>7. RegressionsHonest'
  <2>1. ASSUME NEW j \in Insts
        PROVE  /\ regressions'[j] <= Cardinality(Inversions(heardBus'[j]))
               /\ regressions'[j] >= Cardinality(Inversions(Recent(j)'))
    <3>1. CASE j = i
      BY <1>3, <1>4, <3>1, NothingHeard
    <3>2. CASE j # i
      BY <1>2, <1>3, <1>4, <3>2 DEF RegressionsHonest
    <3> QED BY <3>1, <3>2
  <2> QED BY <2>1 DEF RegressionsHonest
<1>8. HolesCounted'
  <2>1. ASSUME NEW j \in Insts
        PROVE  /\ gaps'[j] >= Cardinality(Holes(Recent(j)'))
               /\ emptied'[j] = 0 => gaps'[j] <= Cardinality(Holes(Recent(j)')) + regressions'[j]
    <3>1. CASE j = i
      BY <1>3, <1>4, <3>1, NothingHeard
    <3>2. CASE j # i
      BY <1>2, <1>3, <1>4, <3>2 DEF HolesCounted
    <3> QED BY <3>1, <3>2
  <2> QED BY <2>1 DEF HolesCounted
<1> QED BY <1>5, <1>6, <1>7, <1>8 DEF SeenInv

(* An instance that starts has heard nothing. *)
LEMMA SeenStart == BusInit => SeenInv
<1> SUFFICES ASSUME BusInit PROVE SeenInv
  OBVIOUS
<1>1. /\ lastSeq = [i \in Insts |-> <<>>] /\ heardBus = [i \in Insts |-> <<>>]
      /\ gaps = [i \in Insts |-> 0] /\ regressions = [i \in Insts |-> 0]
      /\ inboundDropped = [i \in Insts |-> 0] /\ emptied = [i \in Insts |-> 0]
  BY DEF BusInit
<1>2. IsFiniteSet({}) /\ Cardinality({}) = 0 /\ 0 <= MaxBaselines /\ Len(<<>>) = 0
  BY BusAssumption, FS_EmptySet
<1>3. SeenTypes
  BY <1>1, <1>2, NothingHeard DEF SeenTypes
<1>4. \A i \in Insts : Recent(i) = <<>>
  <2>1. SubSeq(<<>>, 1, 0) = <<>>
    BY SubSeqEmpty
  <2> QED BY <1>1, <1>2, <2>1 DEF Recent
<1>5. TablesTell
  BY <1>1, <1>4, NothingHeard DEF TablesTell
<1>6. RegressionsHonest
  BY <1>1, <1>4, NothingHeard DEF RegressionsHonest
<1>7. HolesCounted
  BY <1>1, <1>4, NothingHeard DEF HolesCounted
<1> QED BY <1>3, <1>5, <1>6, <1>7 DEF SeenInv

(* Every action keeps SeenInv. *)
LEMMA SeenStep == SpaceInv /\ SeenInv /\ [BusNext]_busVars => SeenInv'
<1> SUFFICES ASSUME SpaceInv, SeenInv, [BusNext]_busVars PROVE SeenInv'
  OBVIOUS
<1>1. ASSUME NEW i \in Insts, NEW r \in BusRooms, PublishRoom(i, r) \/ PublishNotice(i, r)
      PROVE  SeenInv'
  BY <1>1, HearsNothing DEF PublishRoom, PublishNotice
<1>2. ASSUME NEW i \in Insts, NEW p \in handing[i], HandToRedis(i, p) \/ PublishFails(i, p)
      PROVE  SeenInv'
  BY <1>2, HearsNothing DEF HandToRedis, PublishFails
<1>3. ASSUME NEW i \in Insts, LosePacket(i) \/ ReceiveOwn(i) PROVE SeenInv'
  BY <1>3, HearsNothing DEF LosePacket, ReceiveOwn
<1>4. ASSUME NEW i \in Insts, ReceiveAccepted(i) \/ ReceiveNobody(i) PROVE SeenInv'
  <2>1. Receive(i) /\ UNCHANGED inboundDropped
    BY <1>4 DEF ReceiveAccepted, ReceiveNobody
  <2>2. inboundDropped' \in [Insts -> Nat]
    BY <2>1 DEF SeenInv, SeenTypes
  <2> QED BY <2>1, <2>2, HearsStep
<1>5. ASSUME NEW i \in Insts, ReceiveRefused(i) PROVE SeenInv'
  <2>1. Receive(i) /\ inboundDropped' = [inboundDropped EXCEPT ![i] = @ + 1]
    BY <1>5 DEF ReceiveRefused
  <2>2. inboundDropped' \in [Insts -> Nat]
    BY <2>1 DEF SeenInv, SeenTypes
  <2> QED BY <2>1, <2>2, HearsStep
<1>6. ASSUME NEW i \in Insts, RestartInstance(i) PROVE SeenInv'
  BY <1>6, ForgetsWhatItHeard
<1>7. CASE UNCHANGED busVars
  BY <1>7, HearsNothing DEF busVars
<1> QED BY <1>1, <1>2, <1>3, <1>4, <1>5, <1>6, <1>7 DEF BusNext

(* Both halves of the invariant hold in every state. *)
LEMMA SeenAlways == BusSpec => [](SpaceInv /\ SeenInv)
<1>1. SpaceInv /\ SeenInv /\ [BusNext]_busVars => (SpaceInv /\ SeenInv)'
  BY SpaceStep, SeenStep
<1>2. BusInit => SpaceInv /\ SeenInv
  BY SpaceStart, SeenStart
<1> QED BY <1>1, <1>2, PTL DEF BusSpec

(* What was heard since the table was emptied is a sequence of packets. *)
LEMMA RecentPackets ==
    ASSUME SeenTypes, NEW i \in Insts
    PROVE  Recent(i) \in Seq(Packets)
<1> DEFINE h == heardBus[i]
           n == Len(h)
           e == emptied[i]
<1>1. h \in Seq(Packets) /\ e \in Nat
  BY DEF SeenTypes
<1>2. n \in Nat /\ \A x \in 1 .. n : h[x] \in Packets
  BY <1>1, LenProperties, ElementOfSeq
<1> HIDE DEF h, n, e
<1>3. e + 1 \in Int /\ n \in Int /\ \A x \in e + 1 .. n : h[x] \in Packets
  BY <1>1, <1>2
<1>4. SubSeq(h, e + 1, n) \in Seq(Packets)
  BY <1>3, SubSeqProperties
<1> QED BY <1>4 DEF Recent, h, n, e

(* The holes are those of messages that were broadcast and those of other numbers. *)
LEMMA HolesAreTwoKinds ==
    ASSUME NEW s \in Seq(Packets)
    PROVE  /\ Cardinality(LostHoles(s)) \in Nat /\ Cardinality(UnsentHoles(s)) \in Nat
           /\ Cardinality(Holes(s)) = Cardinality(LostHoles(s)) + Cardinality(UnsentHoles(s))
<1>1. IsFiniteSet(Holes(s))
  <2>1. DOMAIN s = 1 .. Len(s) /\ Len(s) \in Nat /\ MaxNumber \in Nat
    BY LenProperties, BusAssumption
  <2>2. IsFiniteSet((DOMAIN s) \X (1 .. MaxNumber))
    <3>1. IsFiniteSet(1 .. Len(s)) /\ IsFiniteSet(1 .. MaxNumber)
      BY <2>1, FS_Interval
    <3> QED BY <2>1, <3>1, FS_Product
  <2>3. Holes(s) \subseteq (DOMAIN s) \X (1 .. MaxNumber)
    BY DEF Holes
  <2> QED BY <2>2, <2>3, FS_Subset
<1>2. LostHoles(s) \subseteq Holes(s) /\ UnsentHoles(s) \subseteq Holes(s)
  BY DEF LostHoles, UnsentHoles
<1>3. /\ LostHoles(s) \cup UnsentHoles(s) = Holes(s)
      /\ LostHoles(s) \cap UnsentHoles(s) = {}
  BY <1>2 DEF UnsentHoles
<1>4. IsFiniteSet(LostHoles(s)) /\ IsFiniteSet(UnsentHoles(s))
  BY <1>1, <1>2, FS_Subset
<1>5. Cardinality(LostHoles(s)) \in Nat /\ Cardinality(UnsentHoles(s)) \in Nat
  BY <1>4, FS_CardinalityType
<1>6. Cardinality(LostHoles(s) \cup UnsentHoles(s)) =
        Cardinality(LostHoles(s)) + Cardinality(UnsentHoles(s))
          - Cardinality(LostHoles(s) \cap UnsentHoles(s))
  BY <1>4, FS_Union
<1>7. Cardinality({}) = 0
  BY FS_EmptySet
<1>8. Cardinality(Holes(s)) =
        Cardinality(LostHoles(s)) + Cardinality(UnsentHoles(s)) - 0
  BY <1>3, <1>6, <1>7
<1> DEFINE a == Cardinality(LostHoles(s))
           b == Cardinality(UnsentHoles(s))
<1>9. a + b - 0 = a + b
  <2>1. a \in Nat /\ b \in Nat
    BY <1>5
  <2> HIDE DEF a, b
  <2> QED BY <2>1
<1> QED BY <1>5, <1>8, <1>9

(* Every message that was broadcast and is missing between two numbers that were heard
   is in ws_cluster_seq_gap_total, however the packets overtook each other, and until
   the table is emptied the counter holds besides them only numbers that came late and
   numbers that were never broadcast (checkClusterRoomSeq). *)
THEOREM LossIsNoticed == BusSpec => []LossNoticed
<1>1. ASSUME SpaceInv, SeenInv PROVE LossNoticed
  <2> SUFFICES ASSUME NEW i \in Insts
               PROVE  /\ gaps[i] >= Cardinality(LostHoles(Recent(i)))
                      /\ emptied[i] = 0
                          => gaps[i] <= Cardinality(LostHoles(Recent(i)))
                                          + Cardinality(UnsentHoles(Recent(i))) + regressions[i]
    BY DEF LossNoticed
  <2>1. gaps[i] \in Nat /\ regressions[i] \in Nat
    BY <1>1 DEF SeenInv, SeenTypes
  <2>2. Recent(i) \in Seq(Packets)
    BY <1>1, RecentPackets DEF SeenInv
  <2>3. /\ gaps[i] >= Cardinality(Holes(Recent(i)))
        /\ emptied[i] = 0 => gaps[i] <= Cardinality(Holes(Recent(i))) + regressions[i]
    BY <1>1 DEF SeenInv, HolesCounted
  <2> DEFINE a == Cardinality(LostHoles(Recent(i)))
             b == Cardinality(UnsentHoles(Recent(i)))
             c == Cardinality(Holes(Recent(i)))
  <2>4. a \in Nat /\ b \in Nat /\ c = a + b
    BY <2>2, HolesAreTwoKinds
  <2> HIDE DEF a, b, c
  <2>5. gaps[i] >= c /\ (emptied[i] = 0 => gaps[i] <= c + regressions[i])
    BY <2>3 DEF c
  <2>6. gaps[i] >= a /\ (emptied[i] = 0 => gaps[i] <= a + b + regressions[i])
    BY <2>1, <2>4, <2>5
  <2> QED BY <2>6 DEF a, b
<1>2. SpaceInv /\ SeenInv => LossNoticed
  BY <1>1
<1> QED BY <1>2, SeenAlways, PTL

(* ws_cluster_out_of_order_total counts packets that came late or twice and no
   others, and all of them as long as the table is not emptied. *)
THEOREM RegressionsAreHonest == BusSpec => []RegressionsHonest
<1>1. SpaceInv /\ SeenInv => RegressionsHonest
  BY DEF SeenInv
<1> QED BY <1>1, SeenAlways, PTL

(* The types of the bus: the table of numbers never outgrows
   kMaxClusterSeqBaselines, and nothing is on its way that was not broadcast. *)
THEOREM BusTypesKept == BusSpec => []BusTypeOK
<1>1. ASSUME SpaceInv, SeenInv PROVE BusTypeOK
  <2>1. BusTypes /\ OnTheWay /\ SeenTypes
    BY <1>1 DEF SpaceInv, SeenInv
  <2>2. ASSUME NEW i \in Insts
        PROVE  /\ handing[i] \subseteq broadcast /\ Range(inbox[i]) \subseteq broadcast
               /\ \A k \in DOMAIN lastSeq[i] : lastSeq[i][k] \in 1 .. MaxNumber
               /\ Cardinality(DOMAIN lastSeq[i]) <= MaxBaselines
               /\ gaps[i] \in Nat /\ regressions[i] \in Nat /\ inboundDropped[i] \in Nat
    <3>1. handing[i] \subseteq broadcast /\ Range(inbox[i]) \subseteq broadcast
      BY <2>1 DEF OnTheWay, Range
    <3>2. \A k \in DOMAIN lastSeq[i] : lastSeq[i][k] \in 1 .. MaxNumber
      <4>1. lastSeq[i] \in Tables
        BY <2>1 DEF SeenTypes
      <4> QED BY <4>1, TablesAre
    <3> QED BY <2>1, <3>1, <3>2 DEF SeenTypes
  <2> QED BY <2>1, <2>2 DEF BusTypeOK, BusTypes
<1>2. SpaceInv /\ SeenInv => BusTypeOK
  BY <1>1
<1> QED BY <1>2, SeenAlways, PTL

=============================================================================
