--------------------------- MODULE IdentityProofs ---------------------------
(* The stream id of a subreddit is unique, for any number of creators.       *)
EXTENDS StreamIdentity, TLAPS

\* Once the identity key exists, no other id is left anywhere.
Known(id) ==
    /\ claim \in {None, id}
    /\ meta \subseteq {id}
    /\ used \subseteq {id}
    /\ \A c \in Start : sid[c] \in {None, id}

\* A subreddit nobody has claimed yet.
Fresh ==
    /\ claim = None /\ meta = {} /\ used = {}
    /\ \A c \in Start : pc[c] \in {"check", "identify", "done"} /\ sid[c] = None

\* A subreddit with an old stream that nobody has deleted or backfilled yet:
\* no creator has got past its first check.
Legacy ==
    /\ claim = Old /\ meta = {Old} /\ used = {Old}
    /\ \A c \in Start : \/ pc[c] \in {"check", "done"} /\ sid[c] = None
                        \/ pc[c] = "backfill" /\ sid[c] = Old

\* A call that is about to write an id has one.
HasId ==
    \A c \in Start : pc[c] \in {"backfill", "claim", "write"} => sid[c] # None

IInv ==
    /\ TypeOK
    /\ HasId
    /\ IF identity = None THEN Fresh \/ Legacy ELSE Known(identity)

USE IdentityAssumption DEF Id

\* A subreddit starts out fresh or with an old stream.
LEMMA InitIInv == Init => IInv
BY DEF Init, IInv, TypeOK, Phase, HasId, Fresh, Legacy

\* Every step keeps the inductive invariant, and the identity once it is known.
LEMMA NextIInv ==
    ASSUME IInv, [Next]_vars
    PROVE  IInv' /\ (identity # None => identity' = identity)
<1> USE DEF IInv, TypeOK, Phase, HasId, Goes
<1>1. ASSUME NEW c \in Start, Create(c)
      PROVE  IInv' /\ (identity # None => identity' = identity)
  <2>1. CASE Check(c)     BY <2>1 DEF Check, Known, Fresh, Legacy
  <2>2. CASE Backfill(c)  BY <2>2 DEF Backfill, Known, Fresh, Legacy
  <2>3. CASE Identify(c)  BY <2>3 DEF Identify, Known, Fresh, Legacy
  <2>4. CASE Reuse(c)     BY <2>4 DEF Reuse, Known, Fresh, Legacy
  <2>5. CASE Claim(c)
    <3>1. identity # None /\ Known(identity) /\ sid[c] = identity
        BY <2>5 DEF Claim, Known, Fresh, Legacy
    <3> QED BY <2>5, <3>1 DEF Claim, Known
  <2>6. CASE WriteMeta(c)
    <3>1. identity # None /\ Known(identity) /\ sid[c] = identity
        BY <2>6 DEF WriteMeta, Known, Fresh, Legacy
    <3> QED BY <2>6, <3>1 DEF WriteMeta, Known
  <2> QED BY <1>1, <2>1, <2>2, <2>3, <2>4, <2>5, <2>6 DEF Create
<1>2. ASSUME NEW id \in Id, Delete(id)
      PROVE  IInv' /\ (identity # None => identity' = identity)
    BY <1>2 DEF Delete, Known, Fresh, Legacy
<1>3. CASE UNCHANGED vars
    BY <1>3 DEF vars, Known, Fresh, Legacy
<1> QED BY <1>1, <1>2, <1>3 DEF Next

\* Every attempt on a subreddit claims it under the same id.
THEOREM OneId == Spec => []OneIdForEver
<1>1. IInv /\ [Next]_vars => IInv'
    BY NextIInv
<1>2. IInv => OneIdForEver
    BY DEF IInv, Fresh, Legacy, Known, OneIdForEver
<1> QED BY <1>1, <1>2, InitIInv, PTL DEF Spec

\* The identity of a subreddit is never replaced.
THEOREM IdentityIsKept == Spec => IdentityKept
<1>1. IInv /\ [Next]_vars => IInv' /\ (identity # None => identity' = identity)
    BY NextIInv
<1> QED BY <1>1, InitIInv, PTL DEF Spec, IdentityKept
=============================================================================
