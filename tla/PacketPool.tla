----------------------------- MODULE PacketPool -----------------------------
(***************************************************************************)
(* The pool of packets, src/getmedia/FFModule/MemManager: PacketPool,      *)
(* PacketList, EvoPacketAllocator and the packets EvoMemory and EvoAVFrame.*)
(*                                                                         *)
(* A shape is <<kind, a, b>>: "memory" of a * b bytes, "video" of width a  *)
(* and height b, "audio" of a channels and b samples; the formats are left *)
(* out.  Its tag is the shape itself.  A packet remembers its shape, but   *)
(* an audio packet has only 16 bits for the number of samples.             *)
(*                                                                         *)
(* The functions of PacketPool run under PoolMutex and are single steps;   *)
(* GetInstance has no lock.                                                *)
(***************************************************************************)
EXTENDS Integers, Sequences, FiniteSets, Functions

CONSTANTS
  Threads,
  Shapes,       \* shapes that are asked for
  Wrap,         \* 2^16
  Limit,        \* the number of lists a pool may have, 100
  ListLimit,    \* PACKET_LIST_MAX_SIZE, 100
  MaxPackets    \* bound: packets made

ASSUME PoolAssumption ==
  /\ IsFiniteSet(Threads)
  /\ {Wrap, Limit, ListLimit} \subseteq Nat \ {0} /\ MaxPackets \in Nat
  /\ Shapes \subseteq {"memory", "video", "audio"} \X (Nat \ {0}) \X (Nat \ {0})

VARIABLES
  Instance, MapSize,    \* the statics; pools are numbered from 1
  ListMap,              \* of each pool, from tags to sequences of packets
  packets,              \* the packets that live: shape, bytes it has room for
                        \* and whether PacketData is set
  nextPacket,
  at, pool,             \* where a thread stands in GetInstance or DeleteInstance,
                        \* what GetInstance returned
  hand,                 \* packets a thread owns
  starved,              \* an allocation has failed
  purged                \* lists deleted by DeleteInstance

poolVars == <<Instance, MapSize, ListMap, packets, nextPacket, at, pool, hand, starved, purged>>

Bytes(s) == s[2] * s[3]

\* What a packet remembers of its shape.
Kept(s) == IF s[1] = "audio" THEN <<"audio", s[2], s[3] % Wrap>> ELSE s

PpInit ==
  /\ Instance = 0 /\ MapSize = 0 /\ ListMap = <<>>
  /\ packets = <<>> /\ nextPacket = 1
  /\ at = [t \in Threads |-> "idle"] /\ pool = [t \in Threads |-> 0]
  /\ hand = [t \in Threads |-> {}]
  /\ starved = FALSE /\ purged = 0

Goes(t, from, to) == at[t] = from /\ at' = [at EXCEPT ![t] = to]

\* The thread is done with the pool it was given.
Uses(t) == Goes(t, "ready", "idle") /\ pool' = [pool EXCEPT ![t] = 0]

-----------------------------------------------------------------------------
\* GetInstance tests the pointer, makes a pool, sets its size and reads the
\* pointer again.
GetInstanceTests(t) ==
  /\ Goes(t, "idle", IF Instance = 0 THEN "create" ELSE "return")
  /\ UNCHANGED <<Instance, MapSize, ListMap, packets, nextPacket, pool, hand, starved, purged>>

GetInstanceCreates(t) ==
  /\ Goes(t, "create", "size")
  /\ ListMap' = Append(ListMap, <<>>)
  /\ Instance' = Len(ListMap')
  /\ UNCHANGED <<MapSize, packets, nextPacket, pool, hand, starved, purged>>

GetInstanceSizes(t) ==
  /\ Goes(t, "size", "return")
  /\ MapSize' = Limit
  /\ UNCHANGED <<Instance, ListMap, packets, nextPacket, pool, hand, starved, purged>>

GetInstanceReturns(t) ==
  /\ Goes(t, "return", "ready")
  /\ pool' = [pool EXCEPT ![t] = Instance]
  /\ UNCHANGED <<Instance, MapSize, ListMap, packets, nextPacket, hand, starved, purged>>

GetInstance(t) ==
  GetInstanceTests(t) \/ GetInstanceCreates(t) \/ GetInstanceSizes(t) \/ GetInstanceReturns(t)

-----------------------------------------------------------------------------
Lists(t) == ListMap[pool[t]]
HasRoom(t) == Cardinality(DOMAIN Lists(t)) < MapSize

WithList(f, tag, list) == [k \in DOMAIN f \cup {tag} |-> IF k = tag THEN list ELSE f[k]]

SetsList(t, tag, list) == ListMap' = [ListMap EXCEPT ![pool[t]] = WithList(@, tag, list)]

WithPacket(p, packet) == packets' = WithList(packets, p, packet)

\* Validate: PacketData is made again, of the packet's own shape, if it is not
\* set; images and samples that cannot be had are not noticed.
Validated(p) ==
  LET packet == packets[p]
  IN  IF packet.set \/ Bytes(packet.shape) = 0 THEN {packet}
      ELSE {[packet EXCEPT !.set = TRUE, !.room = Bytes(packet.shape)]} \cup
           IF packet.shape[1] = "memory" THEN {} ELSE {[packet EXCEPT !.set = TRUE]}

\* CreateNew: for images and samples DataSize < 0 is never true of an unsigned
\* number, so a packet without room is returned.
Creates(t, s) ==
  \/ /\ nextPacket <= MaxPackets
     /\ nextPacket' = nextPacket + 1
     /\ hand' = [hand EXCEPT ![t] = @ \cup {nextPacket}]
     /\ \E room \in IF s[1] = "memory" THEN {Bytes(s)} ELSE {0, Bytes(s)} :
          /\ WithPacket(nextPacket, [shape |-> Kept(s), room |-> room, set |-> TRUE])
          /\ starved' = (starved \/ room = 0)
  \/ starved' = TRUE /\ UNCHANGED <<packets, nextPacket, hand>>

\* PoolNew: GetPacket finds a packet, or makes a list for later ones and leaves
\* it to CreateNew.
PoolNewFinds(t, s) ==
  /\ Uses(t)
  /\ s \in DOMAIN Lists(t) /\ Lists(t)[s] # <<>>
  /\ LET p == Head(Lists(t)[s])
     IN  /\ SetsList(t, s, Tail(Lists(t)[s]))
         /\ hand' = [hand EXCEPT ![t] = @ \cup {p}]
         /\ \E packet \in Validated(p) :
              /\ WithPacket(p, packet)
              /\ starved' = (starved \/ packet.room = 0)
  /\ UNCHANGED <<Instance, MapSize, nextPacket, purged>>

PoolNewCreates(t, s) ==
  /\ Uses(t)
  /\ IF s \notin DOMAIN Lists(t)
     THEN IF HasRoom(t) THEN SetsList(t, s, <<>>) ELSE UNCHANGED ListMap
     ELSE Lists(t)[s] = <<>> /\ UNCHANGED ListMap
  /\ Creates(t, s)
  /\ UNCHANGED <<Instance, MapSize, purged>>

Deletes(ps) == packets' = Restrict(packets, DOMAIN packets \ ps)

\* Faulty: the caller keeps the packet.
PoolDeleteKeeps(t, p) ==
  LET tag == packets[p].shape
      list == IF tag \in DOMAIN Lists(t) THEN Lists(t)[tag] ELSE <<>>
  IN  /\ Uses(t) /\ p \in hand[t]
      /\ UNCHANGED hand
      /\ IF Len(list) < ListLimit /\ (tag \in DOMAIN Lists(t) \/ HasRoom(t))
         THEN SetsList(t, tag, Append(list, p)) /\ UNCHANGED packets
         ELSE Deletes({p}) /\ UNCHANGED ListMap
      /\ UNCHANGED <<Instance, MapSize, nextPacket, starved, purged>>

\* PoolDelete: PutPacket keeps the packet under its own tag if there is room.
PoolDelete(t, p) ==
  LET tag == packets[p].shape
      list == IF tag \in DOMAIN Lists(t) THEN Lists(t)[tag] ELSE <<>>
  IN  /\ Uses(t) /\ p \in hand[t]
      /\ hand' = [hand EXCEPT ![t] = @ \ {p}]
      /\ IF Len(list) < ListLimit /\ (tag \in DOMAIN Lists(t) \/ HasRoom(t))
         THEN SetsList(t, tag, Append(list, p)) /\ UNCHANGED packets
         ELSE Deletes({p}) /\ UNCHANGED ListMap
      /\ UNCHANGED <<Instance, MapSize, nextPacket, starved, purged>>

Delete(t, p) ==
  /\ at[t] = "idle" /\ p \in hand[t]
  /\ hand' = [hand EXCEPT ![t] = @ \ {p}] /\ Deletes({p})
  /\ UNCHANGED <<Instance, MapSize, ListMap, nextPacket, at, pool, starved, purged>>

\* Null takes a packet's data away.
NullPacket(t, p) ==
  /\ at[t] = "idle" /\ p \in hand[t] /\ packets[p].set
  /\ WithPacket(p, [packets[p] EXCEPT !.set = FALSE, !.room = 0])
  /\ UNCHANGED <<Instance, MapSize, ListMap, nextPacket, at, pool, hand, starved, purged>>

\* DeleteInstance asks whether there are lists before it takes the lock: others
\* may come, or go, in between.  It dereferences Instance without a test, so it
\* may only be called when there is one.  Instance is read again with the lock
\* held, once here: the loop reads it in each round.
DeleteInstanceTests(t) ==
  /\ Instance # 0 /\ ListMap[Instance] # <<>>
  /\ Goes(t, "idle", "purge")
  /\ UNCHANGED <<Instance, MapSize, ListMap, packets, nextPacket, pool, hand, starved, purged>>

DeleteInstancePurges(t) ==
  /\ Goes(t, "purge", "idle")
  /\ LET lists == ListMap[Instance]
     IN  /\ Deletes(UNION {{lists[tag][i] : i \in DOMAIN lists[tag]} : tag \in DOMAIN lists})
         /\ ListMap' = [ListMap EXCEPT ![Instance] = <<>>]
         /\ MapSize' = MapSize - Cardinality(DOMAIN lists)
         /\ purged' = purged + Cardinality(DOMAIN lists)
  /\ UNCHANGED <<Instance, nextPacket, pool, hand, starved>>

DeleteInstance(t) == DeleteInstanceTests(t) \/ DeleteInstancePurges(t)

PpNext ==
  \E t \in Threads :
    \/ GetInstance(t) \/ DeleteInstance(t)
    \/ \E s \in Shapes : PoolNewFinds(t, s) \/ PoolNewCreates(t, s)
    \/ \E p \in DOMAIN packets : PoolDelete(t, p) \/ Delete(t, p) \/ NullPacket(t, p)

PpSpec == PpInit /\ [][PpNext]_poolVars

-----------------------------------------------------------------------------
PpTypeOK ==
  /\ Instance \in 0 .. Len(ListMap) /\ MapSize \in 0 .. Limit
  /\ DOMAIN packets \subseteq 1 .. nextPacket - 1
  /\ \A p \in DOMAIN packets :
       packets[p].room \in Nat /\ packets[p].set \in BOOLEAN /\ packets[p].shape[2] \in Nat
  /\ \A t \in Threads :
       /\ at[t] \in {"idle", "create", "size", "return", "ready", "purge"}
       /\ pool[t] \in 0 .. Len(ListMap)
  /\ starved \in BOOLEAN /\ purged \in Nat

Places(q) ==
  UNION {{<<q, tag, i>> : i \in DOMAIN ListMap[q][tag]} : tag \in DOMAIN ListMap[q]}

Pooled == UNION {Places(q) : q \in DOMAIN ListMap}

TagAt(x) == ListMap[x[1]][x[2]][x[3]]

(***************************************************************************)
(* Every packet that lives has one owner, a thread or one place in one     *)
(* list, and every place in a list holds one that lives, of the list's     *)
(* tag.  A packet whose data is set has the room that its tag promises     *)
(* unless memory has run out before.  The pool never has more lists than   *)
(* MapSize allows; a race to make the first pool makes at most one per     *)
(* thread, and without one each list deleted is one less for good.         *)
(***************************************************************************)
PoolSound ==
  /\ \A x, y \in Pooled : TagAt(x) = TagAt(y) => x = y
  /\ \A t, u \in Threads : t # u => hand[t] \cap hand[u] = {}
  /\ \A t \in Threads : hand[t] \cap {TagAt(x) : x \in Pooled} = {}
  /\ DOMAIN packets = (UNION {hand[t] : t \in Threads}) \cup {TagAt(x) : x \in Pooled}
  /\ \A x \in Pooled : packets[TagAt(x)].shape = x[2]
  /\ \A p \in DOMAIN packets :
       packets[p].set /\ ~starved => packets[p].room >= Bytes(packets[p].shape)
  /\ Instance # 0 => Cardinality(DOMAIN ListMap[Instance]) <= MapSize
  /\ Len(ListMap) <= Cardinality(Threads)
  /\ Len(ListMap) = 1 => MapSize \in {0, Limit - purged}

=============================================================================
