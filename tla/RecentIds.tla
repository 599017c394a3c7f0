------------------------------ MODULE RecentIds ------------------------------
(***************************************************************************)
(* The deduplication cache of the gateway (gateway.rs, `recent_ids`): an   *)
(* LRU cache of message ids behind a mutex.  A message whose id is cached  *)
(* is a duplicate, and the lookup refreshes the id; any other id is put    *)
(* into the cache, which evicts the least recently used one when full.     *)
(***************************************************************************)
EXTENDS Naturals, Sequences, FiniteSets

CONSTANTS
  Ids,        \* message ids
  Capacity,   \* RECENT_MESSAGE_CACHE_CAPACITY
  MaxOffers   \* bound of the model: the number of messages offered

ASSUME RecentAssumption ==
  /\ Capacity \in Nat \ {0}
  /\ MaxOffers \in Nat

VARIABLES
  recent,     \* recent_ids, least recently used first
  trail       \* history: the ids offered, and whether each was accepted

recentVars == <<recent, trail>>

Elements(seq) == {seq[i] : i \in DOMAIN seq}

IsDuplicate(id) == id \in Elements(recent)

\* The place of a cached id: the map holds it once.
Place(id) == CHOOSE i \in DOMAIN recent : recent[i] = id

Without(id) ==
  SubSeq(recent, 1, Place(id) - 1) \o SubSeq(recent, Place(id) + 1, Len(recent))

\* Mutation: contains() or peek(), which leave the order alone.
Peek(id) == UNCHANGED recent

\* recent.get(&id): the id becomes the most recently used one.
Refresh(id) == recent' = Append(Without(id), id)

\* Mutation: the id is looked up and never put into the cache.
RememberNone(id) == UNCHANGED recent

\* recent.put(id, ()) of a new id.
Remember(id) ==
  recent' = Append(IF Len(recent) = Capacity THEN Tail(recent) ELSE recent, id)

\* The dedup block at the head of both message paths (lines 217-225, 462-471).
Offer(id) == IF IsDuplicate(id) THEN Refresh(id) ELSE Remember(id)

-----------------------------------------------------------------------------
RecentInit == recent = <<>> /\ trail = <<>>

RecentNext ==
  /\ Len(trail) < MaxOffers
  /\ \E id \in Ids :
       /\ Offer(id)
       /\ trail' = Append(trail, [id |-> id, accepted |-> ~IsDuplicate(id)])

RecentSpec == RecentInit /\ [][RecentNext]_recentVars

-----------------------------------------------------------------------------
RecentTypeOK ==
  /\ recent \in Seq(Ids)
  /\ Len(recent) <= Capacity
  /\ trail \in Seq([id : Ids, accepted : BOOLEAN])

\* Offer j is the latest earlier one with the id of offer i.
IsPrevious(j, i) ==
  /\ j < i /\ trail[j].id = trail[i].id
  /\ \A k \in j+1 .. i-1 : trail[k].id # trail[i].id

IdsBetween(j, i) == {trail[k].id : k \in j+1 .. i-1}

(* The cache against its reference definition: a message is accepted        *)
(* exactly when its id was never offered before or at least Capacity other  *)
(* ids were offered since it last was.  So a redelivery is dropped however  *)
(* many times it comes, as long as it comes within Capacity other messages  *)
(* ("prevents reprocessing of repeated pushes", gateway.rs, lines 216-225). *)
DedupExact ==
  \A i \in DOMAIN trail :
    trail[i].accepted <=>
      \A j \in 1 .. i-1 : IsPrevious(j, i) => Cardinality(IdsBetween(j, i)) >= Capacity
=============================================================================
