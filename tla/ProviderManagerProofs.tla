----------------------- MODULE ProviderManagerProofs -----------------------
(***************************************************************************)
(* Safety of ProviderManager for any providers and any number of requests. *)
(* Inv says which instances the map and the list may have, whatever the    *)
(* requests do to one another. RunInv says, while no edit of the source    *)
(* meets another request, that each provider is as it is configured or the *)
(* request at work will yet come to it; it needs Base, which says that     *)
(* there is one such request and what it may have read.                    *)
(***************************************************************************)
EXTENDS ProviderManager, FiniteSetTheorems, SequenceTheorems, WellFoundedInduction, TLAPS

Elements(s) == {s[n] : n \in 1..Len(s)}

\* A list made of a finite set has each element once.
LEMMA ListFact ==
    ASSUME NEW A, IsFiniteSet(A)
    PROVE  /\ SetToSeq(A) \in Seq(A)
           /\ \A j, k \in DOMAIN SetToSeq(A) : SetToSeq(A)[j] = SetToSeq(A)[k] => j = k
<1>1. Cardinality(A) \in Nat /\ \E f \in [1..Cardinality(A) -> A] : IsInjective(f)
  BY FS_CardinalityType DEF ExistsBijection, Bijection, Injection, Surjection
<1>2. SetToSeq(A) \in [1..Cardinality(A) -> A] /\ IsInjective(SetToSeq(A))
  BY <1>1 DEF SetToSeq
<1> QED BY <1>1, <1>2 DEF IsInjective

\* The list without its i-th element.
LEMMA RemoveAtFact ==
    ASSUME NEW S, NEW s \in Seq(S), NEW i \in 1..Len(s)
    PROVE  /\ RemoveAt(s, i) \in Seq(S)
           /\ Len(RemoveAt(s, i)) = Len(s) - 1
           /\ \A j \in 1..(Len(s) - 1) :
                 RemoveAt(s, i)[j] = IF j < i THEN s[j] ELSE s[j + 1]
<1> DEFINE a == SubSeq(s, 1, i - 1)
           b == SubSeq(s, i + 1, Len(s))
<1>1. /\ a \in Seq(S) /\ Len(a) = i - 1
      /\ \A j \in 1..(i - 1) : a[j] = s[j]
  OBVIOUS
<1>2. /\ b \in Seq(S) /\ Len(b) = Len(s) - i
      /\ \A j \in 1..(Len(s) - i) : b[j] = s[i + j]
  OBVIOUS
<1> HIDE DEF a, b
<1>3. /\ a \o b \in Seq(S) /\ Len(a \o b) = Len(a) + Len(b)
      /\ \A j \in 1..(Len(a) + Len(b)) :
            (a \o b)[j] = IF j <= Len(a) THEN a[j] ELSE b[j - Len(a)]
  BY <1>1, <1>2, ConcatProperties
<1>4. RemoveAt(s, i) = a \o b
  BY DEF RemoveAt, a, b
<1>5. Len(s) \in Nat /\ i \in Int /\ Len(a) + Len(b) = Len(s) - 1
  BY <1>1, <1>2
<1>6. ASSUME NEW j \in 1..(Len(s) - 1)
      PROVE  (a \o b)[j] = IF j < i THEN s[j] ELSE s[j + 1]
  <2>1. (a \o b)[j] = IF j <= Len(a) THEN a[j] ELSE b[j - Len(a)]
    BY <1>3, <1>5
  <2>2. CASE j < i
    BY <1>1, <1>5, <2>1, <2>2
  <2>3. CASE ~(j < i)
    <3>1. j - Len(a) \in 1..(Len(s) - i) /\ i + (j - Len(a)) = j + 1
      BY <1>1, <1>5, <2>3
    <3> QED BY <1>1, <1>2, <1>5, <2>1, <2>3, <3>1
  <2> QED BY <2>2, <2>3
<1> QED BY <1>3, <1>4, <1>5, <1>6

\* Taking the only occurrence of an element out of a list leaves the others.
LEMMA RemoveFirstFact ==
    ASSUME NEW S, NEW s \in Seq(S), IsInjective(s), NEW e
    PROVE  /\ RemoveFirst(s, e) \in Seq(S) /\ IsInjective(RemoveFirst(s, e))
           /\ Elements(RemoveFirst(s, e)) = Elements(s) \ {e}
<1>1. CASE ~ \E n \in 1..Len(s) : s[n] = e
  BY <1>1 DEF RemoveFirst, Elements
<1>2. CASE \E n \in 1..Len(s) : s[n] = e
  <2> DEFINE I == {n \in 1..Len(s) : s[n] = e}
  <2>1. I # {} /\ I \subseteq Nat
    BY <1>2
  <2>2. Min(I) \in I
    <3> DEFINE less == {ss \in Nat \X Nat : ss[1] < ss[2]}
    <3>1. IsWellFoundedOn(less, Nat)
      BY NatLessThanWellFounded, Zenon DEF OpToRel
    <3>2. PICK x \in I : \A y \in I : ~ (<<y, x>> \in less)
      <4> HIDE DEF I, less
      <4> QED BY <2>1, <3>1, WFMin
    <3>3. ASSUME NEW y \in I PROVE x <= y
      <4>1. x \in Nat /\ y \in Nat
        BY <2>1
      <4>2. ~ (y < x)
        BY <3>2, <4>1
      <4> QED BY <4>1, <4>2
    <3> QED BY <2>1, <3>3 DEF Min
  <2>3. PICK n \in 1..Len(s) : s[n] = e /\ RemoveFirst(s, e) = RemoveAt(s, n)
    BY <1>2, <2>1, <2>2 DEF RemoveFirst, SelectInSeq
  <2> DEFINE t == RemoveAt(s, n)
             Old(m) == IF m < n THEN m ELSE m + 1
             New(m) == IF m < n THEN m ELSE m - 1
  <2>a. /\ t \in Seq(S) /\ Len(t) = Len(s) - 1 /\ Len(s) \in Nat /\ n \in Nat
        /\ \A m \in 1..(Len(s) - 1) : t[m] = IF m < n THEN s[m] ELSE s[m + 1]
    BY RemoveAtFact
  <2> HIDE DEF t
  <2>b. \A m \in 1..Len(t) : t[m] = s[Old(m)] /\ Old(m) \in 1..Len(s) /\ Old(m) # n
    BY <2>a
  <2>c. \A m \in 1..Len(s) : m # n => New(m) \in 1..Len(t) /\ Old(New(m)) = m
    BY <2>a
  <2>d. \A m, k \in 1..Len(t) : Old(m) = Old(k) => m = k
    BY <2>a
  <2>4. /\ t \in Seq(S) /\ Len(t) = Len(s) - 1 /\ Len(s) \in Nat
        /\ \A m \in 1..Len(t) : t[m] = s[Old(m)] /\ Old(m) \in 1..Len(s) /\ Old(m) # n
        /\ \A m \in 1..Len(s) : m # n => New(m) \in 1..Len(t) /\ Old(New(m)) = m
        /\ \A m, k \in 1..Len(t) : Old(m) = Old(k) => m = k
    BY <2>a, <2>b, <2>c, <2>d
  <2> HIDE DEF Old, New
  <2>5. /\ \A m, k \in 1..Len(s) : s[m] = s[k] => m = k
        /\ DOMAIN t = 1..Len(t) /\ DOMAIN s = 1..Len(s)
    BY <2>a DEF IsInjective
  <2>6. IsInjective(t)
    BY <2>4, <2>5 DEF IsInjective
  <2>7. Elements(t) = Elements(s) \ {e}
    <3>1. \A x \in Elements(t) : x \in Elements(s) /\ x # e
      BY <2>3, <2>4, <2>5 DEF Elements
    <3>2. \A x \in Elements(s) : x # e => x \in Elements(t)
      <4> SUFFICES ASSUME NEW m \in 1..Len(s), s[m] # e PROVE s[m] \in Elements(t)
        BY DEF Elements
      <4>1. New(m) \in 1..Len(t) /\ t[New(m)] = s[m]
        BY <2>3, <2>4
      <4> QED BY <4>1 DEF Elements
    <3> QED BY <3>1, <3>2
  <2> QED BY <2>3, <2>4, <2>6, <2>7 DEF t
<1> QED BY <1>1, <1>2

\* The list without its first element.
LEMMA TailFact ==
    ASSUME NEW S, NEW s \in Seq(S), s # <<>>
    PROVE  /\ Tail(s) \in Seq(S) /\ Head(s) \in S /\ Head(s) = s[1]
           /\ Len(Tail(s)) = Len(s) - 1 /\ Len(s) \in Nat \ {0}
           /\ \A n \in 1..Len(Tail(s)) : Tail(s)[n] = s[n + 1]
    OBVIOUS

----------------------------------------------------------------------------
(* The invariant                                                           *)

BeforeLoad == {"resource", "reload", "terminate", "closing", "terminated", "load"}
Closing == {"closing", "sweeping"}

\* What a request was sent for, as far as it has to be known where the request is.
PointsOf(r) ==
    /\ at[r] = "away" => req[r].op = "none" /\ todo[r] = <<>>
    /\ req[r].op \in {"create", "update", "delete"} => {req[r].id,
                                                        req[r].from} \subseteq Ids
    /\ req[r].op \in {"create", "update"} => req[r].new \in Settings
    /\ req[r].op = "edit" /\ at[r] # "done" => req[r].id \in Ids /\ req[r].new \in Settings
    /\ at[r] = "resource" => req[r].op \in {"create", "update", "delete", "unsource"}
    /\ at[r] \in {"load", "loading", "loaded"} => req[r].op \in {"create", "update", "edit"}
    /\ at[r] \in {"reload", "sweep", "sweeping", "swept"} => req[r].op \in {"update",
                                                                            "edit"}
    /\ at[r] \in Closing \cup {"terminated", "swept"} => keys[r] # <<>>

Unmade(w, p) == inst[<<w, p>>].at = "none"

\* What a request has still to load has no instance of the request's yet.
FreshOf(r) ==
    /\ at[r] = "away" => \A p \in Ids : Unmade(r, p)
    /\ at[r] \in BeforeLoad /\ req[r].id \in Ids => Unmade(r, req[r].id)
    /\ at[r] = "loading" => inst[<<r, req[r].id>>].at = "loading"
    /\ \A n \in 1..Len(todo[r]) :
        /\ Unmade(r, todo[r][n][1])
        /\ at[r] \in BeforeLoad => todo[r][n][1] # req[r].id
        /\ \A m \in 1..Len(todo[r]) : todo[r][m][1] = todo[r][n][1] => m = n

BootInv ==
    /\ booting # <<>> => \A r \in Requests : at[r] = "away"
    /\ \A n \in 1..Len(booting) :
        /\ Unmade(Boot, booting[n])
        /\ \A m \in 1..Len(booting) : booting[m] = booting[n] => m = n

\* What the manager knows has been loaded, and it finds it by its id.
Used == {"open", "closing", "broken"}

KnownInv ==
    /\ \A i \in Elements(insts) : inst[i].at \in Used
    /\ curr # None => inst[curr].at \in Used
    /\ \A p \in Ids : instMap[p] # None => instMap[p][2] = p /\ inst[instMap[p]].at \in Used

\* What is being closed cannot be given to anybody but by its id.
Left == {"closing", "closed", "broken"}
Unlisted(i) == i \notin Elements(insts) /\ (curr # None => curr # i)

TargetOf(r) ==
    at[r] \in Closing =>
        /\ target[r] \in Instances /\ target[r][2] = Head(keys[r])
        /\ inst[target[r]].at \in Left /\ Unlisted(target[r])

RequestInv == \A r \in Requests : PointsOf(r) /\ FreshOf(r) /\ TargetOf(r)

Inv == TypeOK /\ RequestInv /\ BootInv /\ KnownInv

----------------------------------------------------------------------------
(* What a step of a request leaves alone                                   *)

Moves(r) ==
    \A s \in Requests \ {r} :
        /\ at'[s] = at[s] /\ req'[s] = req[s] /\ todo'[s] = todo[s] /\ keys'[s] = keys[s]
        /\ target'[s] = target[s]

Undisturbed(r) ==
    \A i \in Instances :
        /\ i[1] # r /\ inst[i].at \in {"none", "loading"} => inst'[i].at = inst[i].at
        /\ inst[i].at \in Left => inst'[i].at \in Left
        /\ inst[i].at \in Left /\ Unlisted(i) => Unlisted(i)'

\* What has to be shown of a step that a request takes.
LEMMA StepFact ==
    ASSUME Inv, NEW r \in Requests, booting' = <<>>, TypeOK', KnownInv', Moves(r),
           Undisturbed(r), PointsOf(r)', FreshOf(r)', TargetOf(r)'
    PROVE  Inv'
<1>1. BootInv'
  BY DEF BootInv
<1>2. ASSUME NEW s \in Requests \ {r} PROVE PointsOf(s)' /\ FreshOf(s)' /\ TargetOf(s)'
  <2>0. /\ at'[s] = at[s] /\ req'[s] = req[s] /\ todo'[s] = todo[s] /\ keys'[s] = keys[s]
        /\ target'[s] = target[s] /\ s \in Requests
    BY DEF Moves
  <2>1. PointsOf(s) /\ FreshOf(s) /\ TargetOf(s)
    BY DEF Inv, RequestInv
  <2>2. PointsOf(s)'
    BY <2>0, <2>1 DEF PointsOf
  <2>3. \A p \in Ids : <<s, p>> \in Instances /\ <<s, p>>[1] # r
    BY DEF Instances, Writers
  <2>4. ASSUME NEW p \in Ids, inst[<<s, p>>].at \in {"none", "loading"}
        PROVE  inst'[<<s, p>>].at = inst[<<s, p>>].at
    BY <2>3, <2>4 DEF Undisturbed
  <2>5. /\ at[s] = "loading" => req[s].id \in Ids
        /\ \A n \in 1..Len(todo[s]) : todo[s][n][1] \in Ids
    <3>1. at[s] = "loading" => req[s].id \in Ids
      BY <2>1 DEF PointsOf
    <3>2. todo[s] \in Seq(Ids \X Settings)
      BY DEF Inv, TypeOK
    <3> QED BY <3>1, <3>2
  <2>6. FreshOf(s)'
    BY <2>0, <2>1, <2>4, <2>5 DEF FreshOf, Unmade
  <2>7. TargetOf(s)'
    BY <2>0, <2>1 DEF TargetOf, Undisturbed
  <2> QED BY <2>2, <2>6, <2>7
<1>3. RequestInv'
  BY <1>2 DEF RequestInv
<1> QED BY <1>1, <1>3 DEF Inv

\* A step that leaves the instances alone.
LEMMA QuietFact ==
    ASSUME Inv, NEW r \in Requests, booting' = <<>>, TypeOK', Moves(r), PointsOf(r)',
           UNCHANGED <<instVars, target>>, todo'[r] = todo[r],
           at'[r] \notin Closing \cup {"loading", "away"},
           at'[r] \in BeforeLoad =>
              at[r] = "away" \/ (at[r] \in BeforeLoad /\ req'[r].id = req[r].id)
    PROVE  Inv'
<1>0. TypeOK /\ PointsOf(r) /\ FreshOf(r) /\ TargetOf(r)
  BY DEF Inv, RequestInv
<1>1. KnownInv' /\ Undisturbed(r)
  BY DEF Inv, KnownInv, Undisturbed, instVars, Unlisted
<1>2. TargetOf(r)'
  BY DEF TargetOf
<1>3. FreshOf(r)'
  <2>1. \A p \in Ids : Unmade(r, p)' <=> Unmade(r, p)
    BY DEF Unmade, instVars
  <2>2. \A n \in 1..Len(todo[r]) : todo[r][n][1] \in Ids
    <3>1. todo[r] \in Seq(Ids \X Settings)
      BY <1>0 DEF TypeOK
    <3> QED BY <3>1
  <2>3. CASE at[r] = "away"
    <3>1. Len(todo[r]) = 0 /\ \A p \in Ids : Unmade(r, p)
      BY <1>0, <2>3 DEF PointsOf, FreshOf
    <3> QED BY <2>1, <3>1 DEF FreshOf
  <2>4. CASE at[r] # "away"
    BY <1>0, <2>1, <2>2, <2>4 DEF FreshOf
  <2> QED BY <2>3, <2>4
<1> QED BY <1>1, <1>2, <1>3, StepFact


----------------------------------------------------------------------------
(* The steps that leave the instances alone                                *)

Parts == {"away", "resource", "reload", "terminate", "closing", "terminated", "load",
          "loading", "loaded", "sweep", "sweeping", "swept", "done"}
ReqType == [op : {"none", "create", "update", "delete", "edit", "unsource"},
            id : Ids \cup {None}, from : Ids \cup {None}, new : Settings \cup {None}]

ConfigOK ==
    /\ config \in [Ids -> Settings \cup {None}] /\ listed \in [Ids -> Settings \cup {None}]
    /\ aliased \in BOOLEAN /\ (aliased => listed = config)
    /\ sources \in [Writers -> Writers \cup {None}] /\ current \in Writers
    /\ seen \in Writers
InstOK ==
    /\ inst \in [Instances ->
                    [at : {"none", "loading", "open", "closing", "closed", "broken"},
                     own : Writers \cup {None}, src : Writers \cup {None}]]
    /\ instMap \in [Ids -> Instances \cup {None}]
    /\ insts \in Seq(Instances) /\ IsInjective(insts)
    /\ curr \in Instances \cup {None}
RequestOK ==
    /\ at \in [Requests -> Parts]
    /\ req \in [Requests -> ReqType]
    /\ todo \in [Requests -> Seq(Ids \X Settings)] /\ keys \in [Requests -> Seq(Ids)]
    /\ target \in [Requests -> Instances \cup {None}]
LockOK == holder \in [Locks -> Requests \cup {None}] /\ queue \in [Locks -> Seq(Requests)]
RestOK ==
    /\ running \in Requests \cup {None}
    /\ booting \in Seq(Ids)
    /\ failed \subseteq Ids /\ leaked \subseteq Instances /\ overlapped \in BOOLEAN

\* The parts of the type invariant, by the variables they are about.
LEMMA TypeParts ==
    /\ TypeOK <=> ConfigOK /\ InstOK /\ RequestOK /\ LockOK /\ RestOK
    /\ TypeOK' <=> ConfigOK' /\ InstOK' /\ RequestOK' /\ LockOK' /\ RestOK'
BY DEF TypeOK, ConfigOK, InstOK, RequestOK, LockOK, RestOK, Parts, ReqType

\* A part holds as long as its variables stay.
LEMMA TypesKept ==
    /\ ConfigOK /\ UNCHANGED configVars => ConfigOK'
    /\ InstOK /\ UNCHANGED instVars => InstOK'
    /\ RequestOK /\ UNCHANGED requestVars => RequestOK'
    /\ LockOK /\ UNCHANGED lockVars => LockOK'
BY DEF ConfigOK, InstOK, RequestOK, LockOK, configVars, instVars, requestVars, lockVars

\* No request comes before the boot is over.
LEMMA Booted == ASSUME Inv, NEW r \in Requests, at[r] # "away" PROVE booting = <<>>
BY DEF Inv, BootInv

\* A request that asks for a lock.
LEMMA AcquiresFact ==
    ASSUME LockOK, NEW r \in Requests, NEW k \in Locks, Acquires(r, k)
    PROVE  /\ LockOK' /\ running' \in Requests \cup {None}
           /\ at' = [at EXCEPT ![r] = k]
<1>1. at' = [at EXCEPT ![r] = k] /\ running' \in Requests \cup {None}
  BY DEF Acquires
<1>2. CASE holder' = [holder EXCEPT ![k] = r] /\ UNCHANGED queue
  BY <1>1, <1>2 DEF LockOK
<1>3. CASE queue' = [queue EXCEPT ![k] = Append(queue[k], r)] /\ UNCHANGED holder
  <2>1. Append(queue[k], r) \in Seq(Requests)
    BY DEF LockOK
  <2> QED BY <1>1, <1>3, <2>1 DEF LockOK
<1> QED BY <1>1, <1>2, <1>3 DEF Acquires, Lock!Enter

\* A request that returns or raises.
LEMMA EndsFact ==
    ASSUME LockOK, NEW r \in Requests, Ends(r)
    PROVE  /\ LockOK' /\ running' = None /\ at' = [at EXCEPT ![r] = "done"]
BY DEF LockOK, Ends, Suspends

\* A request that moves on leaves the others where they are.
LEMMA MovesFact ==
    ASSUME RequestOK, NEW r \in Requests, NEW point,
           at' = [at EXCEPT ![r] = point],
           \A s \in Requests \ {r} : /\ req'[s] = req[s] /\ todo'[s] = todo[s]
                                     /\ keys'[s] = keys[s] /\ target'[s] = target[s]
    PROVE  Moves(r) /\ at'[r] = point
BY DEF RequestOK, Moves

\* A request that comes.
LEMMA ComesStep ==
    ASSUME Inv, NEW r \in Requests,
           NEW op \in {"create", "update", "delete", "unsource"},
           NEW id \in Ids \cup {None}, NEW from \in Ids \cup {None},
           NEW new \in Settings \cup {None},
           op # "unsource" => id \in Ids /\ from \in Ids,
           op \in {"create", "update"} => new \in Settings,
           Comes(r, op, id, from, new), Acquires(r, "resource"), ConfigOK',
           UNCHANGED <<instVars, todo, keys, target, booting, failed, leaked>>
    PROVE  Inv'
<1>1. TypeOK /\ PointsOf(r) /\ booting = <<>> /\ at[r] = "away"
  BY DEF Inv, RequestInv, Comes, Idle
<1>2. ConfigOK /\ InstOK /\ RequestOK /\ LockOK /\ RestOK
  BY <1>1, TypeParts
<1>3. /\ req' = [req EXCEPT ![r] = [op |-> op, id |-> id, from |-> from, new |-> new]]
      /\ overlapped' \in BOOLEAN
  BY <1>2 DEF Comes, RestOK
<1>4. /\ LockOK' /\ running' \in Requests \cup {None} /\ at' = [at EXCEPT ![r] = "resource"]
  BY <1>2, AcquiresFact DEF Locks
<1>5. RequestOK' /\ RestOK' /\ InstOK'
  <2>1. [op |-> op, id |-> id, from |-> from, new |-> new] \in ReqType
    BY DEF ReqType
  <2>2. RequestOK'
    BY <1>2, <1>3, <1>4, <2>1 DEF RequestOK, Parts
  <2> QED BY <1>2, <1>3, <1>4, <2>2, TypesKept DEF RestOK
<1>6. TypeOK'
  BY <1>4, <1>5, TypeParts
<1>7. Moves(r) /\ at'[r] = "resource"
  BY <1>2, <1>3, <1>4, MovesFact DEF RequestOK
<1>8. req'[r].op = op /\ req'[r].id = id /\ req'[r].from = from /\ req'[r].new = new
  BY <1>2, <1>3 DEF RequestOK
<1>9. PointsOf(r)'
  BY <1>7, <1>8 DEF PointsOf, Closing
<1>10. booting' = <<>> /\ UNCHANGED <<instVars, target>> /\ todo'[r] = todo[r]
  BY <1>1
<1>11. at'[r] \notin Closing \cup {"loading", "away"}
  BY <1>7 DEF Closing
<1>12. at'[r] \in BeforeLoad =>
          at[r] = "away" \/ (at[r] \in BeforeLoad /\ req'[r].id = req[r].id)
  BY <1>1
<1>13. Moves(r)
  BY <1>7
<1> QED BY <1>6, <1>9, <1>10, <1>11, <1>12, <1>13, QuietFact, Zenon

\* The requests that begin with resource_lock.
LEMMA RequestStep ==
    ASSUME Inv, NEW r \in Requests,
           \/ \E p \in Ids, enable \in BOOLEAN : Create(r, p, enable)
           \/ \E p, q \in Ids, enable \in BOOLEAN : Update(r, p, q, enable)
           \/ \E p \in Ids : Switch(r, p) \/ Delete(r, p)
           \/ Unsource(r)
    PROVE  Inv'
<1>0. ConfigOK /\ (UNCHANGED configVars => ConfigOK')
  BY TypeParts, TypesKept DEF Inv
<1>1. r \in Writers /\ None \in Ids \cup {None}
  BY DEF Writers
<1>2. ASSUME NEW p \in Ids, NEW enable \in BOOLEAN, Create(r, p, enable) PROVE Inv'
  BY <1>0, <1>1, <1>2, ComesStep DEF Create, Settings
<1>3. ASSUME NEW p \in Ids, NEW q \in Ids, NEW enable \in BOOLEAN, Update(r, p, q, enable)
      PROVE  Inv'
  BY <1>0, <1>1, <1>3, ComesStep DEF Update, Settings
<1>4. ASSUME NEW p \in Ids, Switch(r, p) PROVE Inv'
  <2>1. listed[p] \in Settings
    BY <1>0, <1>4 DEF ConfigOK, Switch
  <2>2. [listed[p] EXCEPT !.enable = ~@] \in Settings
    BY <2>1 DEF Settings
  <2> QED BY <1>0, <1>1, <1>4, <2>2, ComesStep DEF Switch
<1>5. ASSUME NEW p \in Ids, Delete(r, p) PROVE Inv'
  BY <1>0, <1>1, <1>5, ComesStep DEF Delete
<1>6. ASSUME Unsource(r) PROVE Inv'
  <2>1. ConfigOK'
    BY <1>0, <1>1, <1>6 DEF ConfigOK, Unsource
  <2> QED BY <1>1, <1>6, <2>1, ComesStep DEF Unsource
<1> QED BY <1>2, <1>3, <1>4, <1>5, <1>6

\* A request that goes on without touching an instance.
LEMMA GoesStep ==
    ASSUME Inv, NEW r \in Requests, NEW point \in Parts \ (Closing \cup {"loading", "away"}),
           at[r] # "away", at' = [at EXCEPT ![r] = point],
           ConfigOK', LockOK', keys'[r] \in Seq(Ids), running' \in Requests \cup {None},
           \E ks : keys' = [keys EXCEPT ![r] = ks],
           failed' \subseteq Ids,
           UNCHANGED <<instVars, req, todo, target, booting, leaked, overlapped>>,
           PointsOf(r) => PointsOf(r)',
           point \in BeforeLoad => at[r] \in BeforeLoad
    PROVE  Inv'
<1>1. /\ TypeOK /\ PointsOf(r) /\ booting = <<>>
      /\ ConfigOK /\ InstOK /\ RequestOK /\ LockOK /\ RestOK
  BY Booted, TypeParts DEF Inv, RequestInv
<1>2. RequestOK'
  BY <1>1 DEF RequestOK
<1>3. InstOK' /\ RestOK'
  BY <1>1, TypesKept DEF RestOK
<1>4. TypeOK'
  BY <1>2, <1>3, TypeParts
<1>5. Moves(r) /\ at'[r] = point
  <2>1. PICK ks : keys' = [keys EXCEPT ![r] = ks]
    OBVIOUS
  <2>2. \A s \in Requests \ {r} : /\ req'[s] = req[s] /\ todo'[s] = todo[s]
                                  /\ keys'[s] = keys[s] /\ target'[s] = target[s]
    BY <1>1, <2>1 DEF RequestOK
  <2> QED BY <1>1, <2>2, MovesFact
<1> QED BY <1>1, <1>4, <1>5, QuietFact


\* What the steps of a request that leave the instances alone do to it.
LEMMA QuietSteps ==
    ASSUME Inv, NEW r \in Requests,
           \/ Refuses(r) \/ StoreCreated(r) \/ StoreUpdated(r) \/ BeginDelete(r)
           \/ BeginReload(r) \/ Deleted(r) \/ DeleteEnds(r) \/ CreateEnds(r) \/ Reloads(r)
           \/ Synchronizes(r) \/ SweepsOn(r)
    PROVE  Inv'
<1>0. /\ TypeOK /\ PointsOf(r) /\ ConfigOK /\ InstOK /\ RequestOK /\ LockOK /\ RestOK
      /\ (UNCHANGED configVars => ConfigOK') /\ (UNCHANGED lockVars => LockOK')
  BY TypeParts, TypesKept DEF Inv, RequestInv
<1>1. /\ keys[r] \in Seq(Ids) /\ r \in Requests \cup {None} /\ None \in Requests \cup {None}
      /\ r \in Writers
      /\ req[r] \in ReqType
  BY <1>0 DEF RequestOK, Writers
<1>2. /\ keys = [keys EXCEPT ![r] = keys[r]]
      /\ \A S : S \subseteq Ids => IsFiniteSet(S) /\ SetToSeq(S) \in Seq(Ids)
  <2>1. keys = [keys EXCEPT ![r] = keys[r]]
    BY <1>0 DEF RequestOK
  <2>2. ASSUME NEW S, S \subseteq Ids PROVE IsFiniteSet(S) /\ SetToSeq(S) \in Seq(Ids)
    <3>1. IsFiniteSet(S)
      BY <2>2, ProviderManagerAssumption, FS_Subset
    <3>2. SetToSeq(S) \in Seq(S)
      BY <3>1, ListFact
    <3> QED BY <2>2, <3>1, <3>2
  <2> QED BY <2>1, <2>2
<1>3. CASE Refuses(r)
  <2>1. /\ at[r] = "resource" /\ at' = [at EXCEPT ![r] = "done"]
        /\ UNCHANGED <<instVars, req, todo, target, booting, leaked, overlapped>>
    BY <1>0, <1>3, EndsFact DEF Refuses, Runs, history
  <2>2. LockOK' /\ running' \in Requests \cup {None}
    BY <1>0, <1>3, EndsFact DEF Refuses
  <2>3. ConfigOK'
    BY <1>0, <1>3 DEF Refuses, configVars
  <2>4. /\ keys'[r] \in Seq(Ids) /\ failed' \subseteq Ids
        /\ \E ks : keys' = [keys EXCEPT ![r] = ks]
    BY <1>0, <1>1, <1>2, <1>3 DEF Refuses, RestOK, history
  <2>5. PointsOf(r)'
    BY <1>0, <1>1, <2>1 DEF PointsOf, Closing, RequestOK, Settings
  <2>6. "done" \in Parts \ (Closing \cup {"loading", "away"}) /\ at[r] # "away"
    BY <2>1 DEF Parts, Closing
  <2>7. "done" \in BeforeLoad => at[r] \in BeforeLoad
    BY <2>1 DEF BeforeLoad
  <2> QED BY <2>1, <2>2, <2>3, <2>4, <2>5, <2>6, <2>7, GoesStep
<1>4. CASE StoreCreated(r)
  <2>1. /\ at[r] = "resource" /\ at' = [at EXCEPT ![r] = "load"]
        /\ UNCHANGED <<instVars, req, todo, target, booting, leaked, overlapped>>
        /\ req[r].op = "create"
    BY <1>0, <1>4 DEF StoreCreated, Runs, history, Continues
  <2>2. LockOK' /\ running' \in Requests \cup {None}
    BY <1>0, <1>4 DEF StoreCreated, Continues
  <2>3. ConfigOK'
    BY <1>0, <1>1, <1>4 DEF StoreCreated, ConfigOK, PointsOf
  <2>4. /\ keys'[r] \in Seq(Ids) /\ failed' \subseteq Ids
        /\ \E ks : keys' = [keys EXCEPT ![r] = ks]
    BY <1>0, <1>1, <1>2, <1>4 DEF StoreCreated, RestOK, history
  <2>5. PointsOf(r)'
    BY <1>0, <1>1, <2>1 DEF PointsOf, Closing, RequestOK, Settings
  <2>6. "load" \in Parts \ (Closing \cup {"loading", "away"}) /\ at[r] # "away"
    BY <2>1 DEF Parts, Closing
  <2>7. "load" \in BeforeLoad => at[r] \in BeforeLoad
    BY <2>1 DEF BeforeLoad
  <2> QED BY <2>1, <2>2, <2>3, <2>4, <2>5, <2>6, <2>7, GoesStep
<1>5. CASE StoreUpdated(r)
  <2>1. /\ at[r] = "resource" /\ at' = [at EXCEPT ![r] = "reload"]
        /\ UNCHANGED <<instVars, req, todo, target, booting, leaked, overlapped>>
        /\ req[r].op = "update"
    BY <1>0, <1>5, AcquiresFact DEF StoreUpdated, Runs, history, Locks
  <2>2. LockOK' /\ running' \in Requests \cup {None}
    BY <1>0, <1>5, AcquiresFact DEF StoreUpdated, Locks
  <2>3. ConfigOK'
    BY <1>0, <1>1, <1>5 DEF StoreUpdated, ConfigOK, PointsOf
  <2>4. /\ keys'[r] \in Seq(Ids) /\ failed' \subseteq Ids
        /\ \E ks : keys' = [keys EXCEPT ![r] = ks]
    BY <1>0, <1>1, <1>2, <1>5 DEF StoreUpdated, RestOK, history
  <2>5. PointsOf(r)'
    BY <1>0, <1>1, <2>1 DEF PointsOf, Closing, RequestOK, Settings
  <2>6. "reload" \in Parts \ (Closing \cup {"loading", "away"}) /\ at[r] # "away"
    BY <2>1 DEF Parts, Closing
  <2>7. "reload" \in BeforeLoad => at[r] \in BeforeLoad
    BY <2>1 DEF BeforeLoad
  <2> QED BY <2>1, <2>2, <2>3, <2>4, <2>5, <2>6, <2>7, GoesStep
<1>6. CASE BeginDelete(r)
  <2>1. /\ at[r] = "resource" /\ at' = [at EXCEPT ![r] = "terminate"]
        /\ UNCHANGED <<instVars, req, todo, target, booting, leaked, overlapped>>
        /\ req[r].op \in {"delete", "unsource"}
    BY <1>0, <1>6 DEF BeginDelete, Runs, history, Continues
  <2>2. LockOK' /\ running' \in Requests \cup {None}
    BY <1>0, <1>6 DEF BeginDelete, Continues
  <2>3. ConfigOK'
    BY <1>0, <1>6 DEF BeginDelete, configVars
  <2>4. /\ keys'[r] \in Seq(Ids) /\ failed' \subseteq Ids
        /\ \E ks : keys' = [keys EXCEPT ![r] = ks]
    <3>1. req[r].op = "delete" => <<req[r].id>> \in Seq(Ids)
      BY <1>0 DEF PointsOf
    <3>2. SetToSeq({p \in Sourced : listed[p] # None}) \in Seq(Ids)
      BY <1>2, ProviderManagerAssumption
    <3>3. keys' = [keys EXCEPT ![r] =
                    IF req[r].op = "delete" THEN <<req[r].id>>
                    ELSE SetToSeq({p \in Sourced : listed[p] # None})]
      BY <1>6 DEF BeginDelete
    <3> QED BY <1>0, <1>6, <2>1, <3>1, <3>2, <3>3 DEF BeginDelete, RequestOK, RestOK,
               history
  <2>5. PointsOf(r)'
    BY <1>0, <1>1, <2>1 DEF PointsOf, Closing, RequestOK, Settings
  <2>6. "terminate" \in Parts \ (Closing \cup {"loading", "away"}) /\ at[r] # "away"
    BY <2>1 DEF Parts, Closing
  <2>7. "terminate" \in BeforeLoad => at[r] \in BeforeLoad
    BY <2>1 DEF BeforeLoad
  <2> QED BY <2>1, <2>2, <2>3, <2>4, <2>5, <2>6, <2>7, GoesStep
<1>7. CASE BeginReload(r)
  <2>1. /\ at[r] = "reload" /\ at' = [at EXCEPT ![r] = "terminate"]
        /\ UNCHANGED <<instVars, req, todo, target, booting, leaked, overlapped>>
    BY <1>0, <1>7 DEF BeginReload, Runs, history, Continues
  <2>2. LockOK' /\ running' \in Requests \cup {None}
    BY <1>0, <1>7 DEF BeginReload, Continues
  <2>3. ConfigOK'
    BY <1>0, <1>7 DEF BeginReload, configVars
  <2>4. /\ keys'[r] \in Seq(Ids) /\ failed' \subseteq Ids
        /\ \E ks : keys' = [keys EXCEPT ![r] = ks]
    <3>1. <<req[r].id>> \in Seq(Ids)
      BY <1>0, <2>1 DEF PointsOf
    <3> QED BY <1>0, <1>7, <3>1 DEF BeginReload, RequestOK, RestOK, history
  <2>5. PointsOf(r)'
    BY <1>0, <1>1, <2>1 DEF PointsOf, Closing, RequestOK, Settings
  <2>6. "terminate" \in Parts \ (Closing \cup {"loading", "away"}) /\ at[r] # "away"
    BY <2>1 DEF Parts, Closing
  <2>7. "terminate" \in BeforeLoad => at[r] \in BeforeLoad
    BY <2>1 DEF BeforeLoad
  <2> QED BY <2>1, <2>2, <2>3, <2>4, <2>5, <2>6, <2>7, GoesStep
<1>8. CASE Deleted(r)
  <2>1. /\ at[r] = "terminated" /\ at' = [at EXCEPT ![r] = "terminate"]
        /\ UNCHANGED <<instVars, req, todo, target, booting, leaked, overlapped>>
        /\ req[r].op \in {"delete", "unsource"}
    BY <1>0, <1>8 DEF Deleted, Runs, history, Continues
  <2>a. Tail(keys[r]) \in Seq(Ids)
    <3>1. keys[r] # <<>>
      BY <1>0, <2>1 DEF PointsOf
    <3> QED BY <1>1, <3>1
  <2>2. LockOK' /\ running' \in Requests \cup {None}
    BY <1>0, <1>8 DEF Deleted, Continues
  <2>3. ConfigOK'
    <3>1. config' = [config EXCEPT ![Head(keys[r])] = None] /\ aliased' = FALSE
          /\ UNCHANGED <<listed, sources, current, seen>>
      BY <1>8 DEF Deleted
    <3> QED BY <1>0, <3>1 DEF ConfigOK
  <2>4. /\ keys'[r] \in Seq(Ids) /\ failed' \subseteq Ids
        /\ \E ks : keys' = [keys EXCEPT ![r] = ks]
    BY <1>0, <1>8, <2>a DEF Deleted, RequestOK, RestOK
  <2>5. PointsOf(r)'
    BY <1>0, <1>1, <2>1 DEF PointsOf, Closing, RequestOK, Settings
  <2>6. "terminate" \in Parts \ (Closing \cup {"loading", "away"}) /\ at[r] # "away"
    BY <2>1 DEF Parts, Closing
  <2>7. "terminate" \in BeforeLoad => at[r] \in BeforeLoad
    BY <2>1 DEF BeforeLoad
  <2> QED BY <2>1, <2>2, <2>3, <2>4, <2>5, <2>6, <2>7, GoesStep
<1>9. CASE DeleteEnds(r)
  <2>1. /\ at[r] = "terminate" /\ at' = [at EXCEPT ![r] = "done"]
        /\ UNCHANGED <<instVars, req, todo, target, booting, leaked, overlapped>>
    BY <1>0, <1>9, EndsFact DEF DeleteEnds, Runs, history
  <2>2. LockOK' /\ running' \in Requests \cup {None}
    BY <1>0, <1>9, EndsFact DEF DeleteEnds
  <2>3. ConfigOK'
    BY <1>0, <1>1, <1>9 DEF DeleteEnds, ConfigOK
  <2>4. /\ keys'[r] \in Seq(Ids) /\ failed' \subseteq Ids
        /\ \E ks : keys' = [keys EXCEPT ![r] = ks]
    BY <1>0, <1>1, <1>2, <1>9 DEF DeleteEnds, RestOK, history
  <2>5. PointsOf(r)'
    BY <1>0, <1>1, <2>1 DEF PointsOf, Closing, RequestOK, Settings
  <2>6. "done" \in Parts \ (Closing \cup {"loading", "away"}) /\ at[r] # "away"
    BY <2>1 DEF Parts, Closing
  <2>7. "done" \in BeforeLoad => at[r] \in BeforeLoad
    BY <2>1 DEF BeforeLoad
  <2> QED BY <2>1, <2>2, <2>3, <2>4, <2>5, <2>6, <2>7, GoesStep
<1>10. CASE CreateEnds(r)
  <2>1. /\ at[r] = "loaded" /\ at' = [at EXCEPT ![r] = "done"]
        /\ UNCHANGED <<instVars, req, todo, target, booting, leaked, overlapped>>
    BY <1>0, <1>10, EndsFact DEF CreateEnds, Runs, history
  <2>2. LockOK' /\ running' \in Requests \cup {None}
    BY <1>0, <1>10, EndsFact DEF CreateEnds
  <2>3. ConfigOK'
    BY <1>0, <1>1, <1>10 DEF CreateEnds, ConfigOK
  <2>4. /\ keys'[r] \in Seq(Ids) /\ failed' \subseteq Ids
        /\ \E ks : keys' = [keys EXCEPT ![r] = ks]
    BY <1>0, <1>1, <1>2, <1>10 DEF CreateEnds, RestOK, history
  <2>5. PointsOf(r)'
    BY <1>0, <1>1, <2>1 DEF PointsOf, Closing, RequestOK, Settings
  <2>6. "done" \in Parts \ (Closing \cup {"loading", "away"}) /\ at[r] # "away"
    BY <2>1 DEF Parts, Closing
  <2>7. "done" \in BeforeLoad => at[r] \in BeforeLoad
    BY <2>1 DEF BeforeLoad
  <2> QED BY <2>1, <2>2, <2>3, <2>4, <2>5, <2>6, <2>7, GoesStep
<1>11. CASE Reloads(r)
  <2>1. /\ at[r] = "terminated" /\ at' = [at EXCEPT ![r] = "load"]
        /\ UNCHANGED <<instVars, req, todo, target, booting, leaked, overlapped>>
        /\ req[r].op \in {"update", "edit"}
    BY <1>0, <1>11 DEF Reloads, Runs, history, Continues
  <2>2. LockOK' /\ running' \in Requests \cup {None}
    BY <1>0, <1>11 DEF Reloads, Continues
  <2>3. ConfigOK'
    BY <1>0, <1>11 DEF Reloads, configVars
  <2>4. /\ keys'[r] \in Seq(Ids) /\ failed' \subseteq Ids
        /\ \E ks : keys' = [keys EXCEPT ![r] = ks]
    <3>1. <<>> \in Seq(Ids)
      OBVIOUS
    <3> QED BY <1>0, <1>11, <3>1 DEF Reloads, RequestOK, RestOK, history
  <2>5. PointsOf(r)'
    BY <1>0, <1>1, <2>1 DEF PointsOf, Closing, RequestOK, Settings
  <2>6. "load" \in Parts \ (Closing \cup {"loading", "away"}) /\ at[r] # "away"
    BY <2>1 DEF Parts, Closing
  <2>7. "load" \in BeforeLoad => at[r] \in BeforeLoad
    BY <2>1 DEF BeforeLoad
  <2> QED BY <2>1, <2>2, <2>3, <2>4, <2>5, <2>6, <2>7, GoesStep
<1>12. CASE Synchronizes(r)
  <2>1. /\ at[r] = "loaded" /\ at' = [at EXCEPT ![r] = "sweep"]
        /\ UNCHANGED <<instVars, req, todo, target, booting, leaked, overlapped>>
        /\ req[r].op \in {"update", "edit"}
    BY <1>0, <1>12 DEF Synchronizes, Runs, history, Continues
  <2>2. LockOK' /\ running' \in Requests \cup {None}
    BY <1>0, <1>12 DEF Synchronizes, Continues
  <2>3. ConfigOK'
    BY <1>0, <1>1, <1>12 DEF Synchronizes, ConfigOK
  <2>4. /\ keys'[r] \in Seq(Ids) /\ failed' \subseteq Ids
        /\ \E ks : keys' = [keys EXCEPT ![r] = ks]
    <3> DEFINE gone == {p \in Ids : instMap[p] # None /\ config[p] = None}
    <3>1. keys' = [keys EXCEPT ![r] = SetToSeq(gone)]
      BY <1>12 DEF Synchronizes
    <3>2. SetToSeq(gone) \in Seq(Ids)
      <4>1. gone \subseteq Ids
        OBVIOUS
      <4> HIDE DEF gone
      <4> QED BY <1>2, <4>1
    <3> HIDE DEF gone
    <3> QED BY <1>0, <1>12, <3>1, <3>2 DEF Synchronizes, RequestOK, RestOK, history
  <2>5. PointsOf(r)'
    BY <1>0, <1>1, <2>1 DEF PointsOf, Closing, RequestOK, Settings
  <2>6. "sweep" \in Parts \ (Closing \cup {"loading", "away"}) /\ at[r] # "away"
    BY <2>1 DEF Parts, Closing
  <2>7. "sweep" \in BeforeLoad => at[r] \in BeforeLoad
    BY <2>1 DEF BeforeLoad
  <2> QED BY <2>1, <2>2, <2>3, <2>4, <2>5, <2>6, <2>7, GoesStep
<1>13. CASE SweepsOn(r)
  <2>1. /\ at[r] = "swept" /\ at' = [at EXCEPT ![r] = "sweep"]
        /\ UNCHANGED <<instVars, req, todo, target, booting, leaked, overlapped>>
    BY <1>0, <1>13 DEF SweepsOn, Runs, history, Continues
  <2>a. Tail(keys[r]) \in Seq(Ids)
    <3>1. keys[r] # <<>>
      BY <1>0, <2>1 DEF PointsOf
    <3> QED BY <1>1, <3>1
  <2>2. LockOK' /\ running' \in Requests \cup {None}
    BY <1>0, <1>13 DEF SweepsOn, Continues
  <2>3. ConfigOK'
    BY <1>0, <1>13 DEF SweepsOn, configVars
  <2>4. /\ keys'[r] \in Seq(Ids) /\ failed' \subseteq Ids
        /\ \E ks : keys' = [keys EXCEPT ![r] = ks]
    BY <1>0, <1>13, <2>a DEF SweepsOn, RequestOK, RestOK, history
  <2>5. PointsOf(r)'
    BY <1>0, <1>1, <2>1 DEF PointsOf, Closing, RequestOK, Settings
  <2>6. "sweep" \in Parts \ (Closing \cup {"loading", "away"}) /\ at[r] # "away"
    BY <2>1 DEF Parts, Closing
  <2>7. "sweep" \in BeforeLoad => at[r] \in BeforeLoad
    BY <2>1 DEF BeforeLoad
  <2> QED BY <2>1, <2>2, <2>3, <2>4, <2>5, <2>6, <2>7, GoesStep
<1> QED BY <1>3, <1>4, <1>5, <1>6, <1>7, <1>8, <1>9, <1>10, <1>11, <1>12, <1>13


----------------------------------------------------------------------------
(* The steps that touch the instances                                      *)

\* A request that changes an instance, and nothing else of its own but how far it is
\* and the instance it closes.
LEMMA InstStep ==
    ASSUME Inv, NEW r \in Requests, NEW point \in Parts \ {"away"},
           booting' = <<>>, at' = [at EXCEPT ![r] = point],
           InstOK', LockOK', running' \in Requests \cup {None}, failed' \subseteq Ids,
           leaked' \subseteq Instances,
           NEW t \in Instances \cup {None}, target' = [target EXCEPT ![r] = t],
           UNCHANGED <<configVars, req, todo, keys, overlapped>>,
           KnownInv', Undisturbed(r), PointsOf(r)', FreshOf(r)', TargetOf(r)'
    PROVE  Inv'
<1>1. ConfigOK /\ InstOK /\ RequestOK /\ LockOK /\ RestOK
  BY TypeParts DEF Inv
<1>2. RequestOK' /\ RestOK'
  <2>1. <<>> \in Seq(Ids)
    OBVIOUS
  <2> QED BY <1>1, <2>1 DEF RequestOK, RestOK
<1>3. TypeOK'
  BY <1>1, <1>2, TypeParts, TypesKept
<1>4. Moves(r)
  BY <1>1, MovesFact DEF RequestOK
<1> QED BY <1>3, <1>4, StepFact

\* The parts of Inv, for the lemmas that need a few of them.
LEMMA InvFact ==
    ASSUME Inv, NEW r \in Requests
    PROVE  /\ ConfigOK /\ InstOK /\ RequestOK /\ LockOK /\ RestOK /\ KnownInv
           /\ PointsOf(r) /\ FreshOf(r) /\ TargetOf(r)
           /\ \A n \in 1..Len(todo[r]) : todo[r][n][1] \in Ids
           /\ \A p \in Ids : <<r, p>> \in Instances
           /\ at[r] \in Parts /\ req[r] \in ReqType
<1>1. /\ ConfigOK /\ InstOK /\ RequestOK /\ LockOK /\ RestOK /\ KnownInv
      /\ PointsOf(r) /\ FreshOf(r) /\ TargetOf(r)
  BY TypeParts DEF Inv, RequestInv
<1>2. todo[r] \in Seq(Ids \X Settings) /\ at[r] \in Parts /\ req[r] \in ReqType
  BY <1>1 DEF RequestOK
<1>3. \A n \in 1..Len(todo[r]) : todo[r][n][1] \in Ids
  BY <1>2
<1> QED BY <1>1, <1>2, <1>3 DEF Instances, Writers

\* An instance of r's own goes on, or one that has been left is closed.
LEMMA FreshKept ==
    ASSUME Inv, NEW r \in Requests, UNCHANGED <<req, todo>>,
           at'[r] \in BeforeLoad => at[r] \in BeforeLoad,
           at'[r] # "away",
           at'[r] = "loading" => inst'[<<r, req[r].id>>].at = "loading",
           \A p \in Ids : Unmade(r, p) =>
              \/ Unmade(r, p)'
              \/ /\ p = req[r].id /\ at'[r] \notin BeforeLoad
                 /\ \A n \in 1..Len(todo[r]) : todo[r][n][1] # p
    PROVE  FreshOf(r)'
BY InvFact DEF FreshOf

\* What a request leaves undone is an id.
LEMMA SpoilsFact == ASSUME Inv, NEW r \in Requests PROVE Spoils(r) \subseteq Ids
<1>1. req[r] \in ReqType /\ keys[r] \in Seq(Ids) /\ todo[r] \in Seq(Ids \X Settings)
  BY InvFact DEF RequestOK
<1>2. Range(keys[r]) \subseteq Ids /\ {req[r].id, req[r].from} \subseteq Ids \cup {None}
  BY <1>1 DEF Range, ReqType
<1>3. {todo[r][n][1] : n \in DOMAIN todo[r]} \subseteq Ids
  BY <1>1
<1> QED BY <1>2, <1>3 DEF Spoils

InstStates == {"none", "loading", "open", "closing", "closed", "broken"}

\* One instance changes its state, and keeps the settings it was made from.
LEMMA MarkFact ==
    ASSUME InstOK, NEW i \in Instances, NEW state \in InstStates,
           inst' = [inst EXCEPT ![i].at = state]
    PROVE  /\ inst' \in [Instances -> [at : InstStates, own : Writers \cup {None},
                                       src : Writers \cup {None}]]
           /\ inst'[i].at = state /\ inst'[i].own = inst[i].own
           /\ inst'[i].src = inst[i].src
           /\ \A j \in Instances \ {i} : inst'[j] = inst[j]
<1>1. inst \in [Instances -> [at : InstStates, own : Writers \cup {None},
                              src : Writers \cup {None}]]
  BY DEF InstOK, InstStates
<1>2. inst[i] \in [at : InstStates, own : Writers \cup {None}, src : Writers \cup {None}]
  BY <1>1
<1>3. [inst[i] EXCEPT !.at = state] \in [at : InstStates, own : Writers \cup {None},
                                         src : Writers \cup {None}]
  BY <1>2
<1>4. inst' = [inst EXCEPT ![i] = [inst[i] EXCEPT !.at = state]]
  OBVIOUS
<1> QED BY <1>1, <1>2, <1>3, <1>4

\* Terminating begins: what is being closed is listed no more.
LEMMA TerminatesStep ==
    ASSUME Inv, NEW r \in Requests,
           NEW point, NEW closing \in Closing, NEW next,
           \/ point = "terminate" /\ closing = "closing" /\ next = "terminated"
           \/ point = "sweep" /\ closing = "sweeping" /\ next = "swept",
           Terminates(r, point, closing, next)
    PROVE  Inv'
<1> DEFINE k == Head(keys[r])
           i == instMap[k]
<1>1. at[r] = point /\ keys[r] # <<>> /\ booting = <<>> /\ booting' = <<>>
  BY Booted DEF Terminates, Runs
<1>2. k \in Ids /\ keys[r] \in Seq(Ids)
  <2>1. keys[r] \in Seq(Ids)
    BY InvFact DEF RequestOK
  <2> QED BY <1>1, <2>1
<1>3. CASE i = None
  <2>1. /\ at' = [at EXCEPT ![r] = next] /\ running' = r
        /\ UNCHANGED <<configVars, lockVars, keys, failed, instVars, req, todo, target,
                       booting, leaked, overlapped>>
    BY <1>3 DEF Terminates, Continues, history
  <2>2. /\ ConfigOK' /\ LockOK' /\ keys'[r] \in Seq(Ids) /\ failed' \subseteq Ids
        /\ running' \in Requests \cup {None} /\ \E ks : keys' = [keys EXCEPT ![r] = ks]
    <3>1. keys = [keys EXCEPT ![r] = keys[r]]
      BY InvFact DEF RequestOK
    <3> QED BY <1>2, <2>1, <3>1, InvFact, TypesKept DEF RestOK
  <2>3. PointsOf(r)'
    BY <1>1, <2>1, InvFact DEF PointsOf, RequestOK, Closing
  <2>4. next \in Parts \ (Closing \cup {"loading", "away"}) /\ at[r] # "away"
        /\ (next \in BeforeLoad => at[r] \in BeforeLoad)
    BY <1>1 DEF Parts, Closing, BeforeLoad
  <2> QED BY <2>1, <2>2, <2>3, <2>4, GoesStep
<1>4. CASE i # None
  <2>1. /\ at' = [at EXCEPT ![r] = closing] /\ running' = None
        /\ target' = [target EXCEPT ![r] = i]
        /\ inst' = [inst EXCEPT ![i].at = "closing"]
        /\ insts' = RemoveFirst(insts, i)
        /\ curr' = IF curr = i THEN None ELSE curr
        /\ UNCHANGED instMap
        /\ UNCHANGED <<configVars, lockVars, keys, failed, req, todo, booting, leaked,
                       overlapped>>
    BY <1>4 DEF Terminates, Suspends, history
  <2>2. i \in Instances /\ i[2] = k /\ inst[i].at \in Used
    BY <1>2, <1>4, InvFact DEF KnownInv, InstOK
  <2>3. /\ insts' \in Seq(Instances) /\ IsInjective(insts')
        /\ Elements(insts') = Elements(insts) \ {i}
    BY <2>1, InvFact, RemoveFirstFact DEF InstOK
  <2> HIDE DEF i, k
  <2>4. /\ InstOK' /\ inst'[i].at = "closing"
        /\ \A j \in Instances \ {i} : inst'[j] = inst[j]
    <3>1. /\ inst' \in [Instances -> [at : InstStates, own : Writers \cup {None},
                                      src : Writers \cup {None}]]
          /\ inst'[i].at = "closing" /\ \A j \in Instances \ {i} : inst'[j] = inst[j]
      BY <2>1, <2>2, InvFact, MarkFact DEF InstStates
    <3> QED BY <2>1, <2>3, <3>1, InvFact DEF InstOK, InstStates
  <2>5. KnownInv'
    <3>1. KnownInv /\ InstOK /\ Elements(insts) \subseteq Instances
      BY InvFact DEF InstOK, Elements
    <3>2. \A j \in Instances : inst[j].at \in Used => inst'[j].at \in Used
      BY <2>4 DEF Used
    <3> QED BY <2>1, <2>3, <3>1, <3>2 DEF KnownInv, InstOK
  <2>6. Undisturbed(r)
    <3>1. \A j \in Instances : inst[j].at \in {"none",
                                               "loading"} => inst'[j].at = inst[j].at
      BY <2>2, <2>4 DEF Used
    <3>2. \A j \in Instances : inst[j].at \in Left => inst'[j].at \in Left
      BY <2>4 DEF Left
    <3>3. ASSUME NEW j \in Instances, inst[j].at \in Left, Unlisted(j) PROVE Unlisted(j)'
      BY <2>1, <2>3, <3>3 DEF Unlisted
    <3> QED BY <3>1, <3>2, <3>3 DEF Undisturbed
  <2>7. PointsOf(r)' /\ at'[r] = closing /\ target'[r] = i
    BY <1>1, <2>1, InvFact DEF PointsOf, RequestOK, Closing
  <2>8. FreshOf(r)'
    <3>1. \A p \in Ids : Unmade(r, p) => Unmade(r, p)'
      BY <2>2, <2>4, InvFact DEF Unmade, Used
    <3> QED BY <1>1, <2>1, <2>7, <3>1, FreshKept DEF BeforeLoad
  <2>9. TargetOf(r)'
    <3>1. i \notin Elements(insts') /\ (curr' # None => curr' # i)
      BY <2>1, <2>3
    <3>2. keys'[r] = keys[r]
      BY <2>1
    <3> QED BY <2>2, <2>4, <2>7, <3>1, <3>2 DEF TargetOf, Unlisted, Left, k, Elements
  <2>10. /\ LockOK' /\ running' \in Requests \cup {None} /\ failed' \subseteq Ids
         /\ leaked' \subseteq Instances /\ closing \in Parts \ {"away"}
    BY <2>1, InvFact, TypesKept DEF RestOK, Parts, Closing
  <2> QED BY <1>1, <2>1, <2>2, <2>4, <2>5, <2>6, <2>7, <2>8, <2>9, <2>10, InstStep
<1> QED BY <1>3, <1>4


\* A close ends, and the entry of the id is deleted.
LEMMA CloseEndsStep ==
    ASSUME Inv, NEW r \in Requests, NEW closing, NEW next,
           \/ closing = "closing" /\ next = "terminated"
           \/ closing = "sweeping" /\ next = "swept",
           CloseEnds(r, closing, next)
    PROVE  Inv'
<1> DEFINE k == Head(keys[r])
           i == target[r]
<1>1. /\ at[r] = closing /\ closing \in Closing /\ booting = <<>> /\ booting' = <<>>
      /\ inst' = [inst EXCEPT ![i].at = "closed"]
      /\ target' = [target EXCEPT ![r] = None]
      /\ UNCHANGED <<configVars, insts, curr, req, todo, keys, leaked, overlapped>>
  BY DEF CloseEnds, Idle, Closing
<1>2. keys[r] # <<>> /\ k \in Ids /\ keys[r] \in Seq(Ids)
  <2>1. keys[r] \in Seq(Ids) /\ keys[r] # <<>>
    BY <1>1, InvFact DEF RequestOK, PointsOf
  <2> QED BY <2>1
<1>3. i \in Instances /\ i[2] = k /\ inst[i].at \in Left /\ Unlisted(i)
  BY <1>1, InvFact DEF TargetOf
<1>4. PICK point \in {next, "done"} :
        /\ at' = [at EXCEPT ![r] = point]
        /\ LockOK' /\ running' \in Requests \cup {None} /\ failed' \subseteq Ids
        /\ instMap' = [instMap EXCEPT ![k] = None]
  <2>1. CASE instMap[k] # None
    <3>1. /\ instMap' = [instMap EXCEPT ![k] = None] /\ at' = [at EXCEPT ![r] = next]
          /\ running' = r /\ UNCHANGED <<lockVars, failed>>
      BY <2>1 DEF CloseEnds, Continues
    <3> QED BY <3>1, InvFact, TypesKept DEF RestOK
  <2>2. CASE instMap[k] = None
    <3>1. Ends(r) /\ failed' = failed \cup Spoils(r) /\ UNCHANGED instMap
      BY <2>2 DEF CloseEnds
    <3>2. instMap' = [instMap EXCEPT ![k] = None]
      BY <2>2, <3>1, InvFact DEF InstOK
    <3> QED BY <3>1, <3>2, InvFact, EndsFact, SpoilsFact DEF RestOK
  <2> QED BY <2>1, <2>2
<1> HIDE DEF i, k
<1>5. /\ InstOK' /\ inst'[i].at = "closed"
      /\ \A j \in Instances \ {i} : inst'[j] = inst[j]
  <2>1. /\ inst' \in [Instances -> [at : InstStates, own : Writers \cup {None},
                                    src : Writers \cup {None}]]
        /\ inst'[i].at = "closed" /\ \A j \in Instances \ {i} : inst'[j] = inst[j]
    BY <1>1, <1>3, InvFact, MarkFact DEF InstStates
  <2> QED BY <1>1, <1>2, <1>4, <2>1, InvFact DEF InstOK, InstStates
<1>6. KnownInv'
  <2>1. KnownInv /\ InstOK /\ Elements(insts) \subseteq Instances
    BY InvFact DEF InstOK, Elements
  <2>2. \A j \in Elements(insts) : inst'[j].at \in Used
    BY <1>3, <1>5, <2>1 DEF KnownInv, Unlisted
  <2>3. curr # None => inst'[curr].at \in Used
    BY <1>3, <1>5, <2>1 DEF KnownInv, InstOK, Unlisted
  <2>4. ASSUME NEW p \in Ids, instMap'[p] # None
        PROVE  instMap'[p][2] = p /\ inst'[instMap'[p]].at \in Used
    <3>1. p # k /\ instMap'[p] = instMap[p]
      BY <1>2, <1>4, <2>1, <2>4 DEF InstOK
    <3>2. instMap[p][2] = p /\ inst[instMap[p]].at \in Used /\ instMap[p] \in Instances
      BY <2>1, <2>4, <3>1 DEF KnownInv, InstOK
    <3> QED BY <1>3, <1>5, <3>1, <3>2
  <2> QED BY <1>1, <2>2, <2>3, <2>4 DEF KnownInv, Elements
<1>7. Undisturbed(r)
  <2>1. \A j \in Instances : Unlisted(j)' <=> Unlisted(j)
    BY <1>1 DEF Unlisted, Elements
  <2>2. \A j \in Instances : /\ inst[j].at \in {"none",
                                                "loading"} => inst'[j].at = inst[j].at
                             /\ inst[j].at \in Left => inst'[j].at \in Left
    BY <1>3, <1>5 DEF Left
  <2> QED BY <2>1, <2>2 DEF Undisturbed
<1>8. PointsOf(r)' /\ at'[r] = point
  BY <1>1, <1>2, <1>4, InvFact DEF PointsOf, RequestOK, Closing
<1>9. FreshOf(r)'
  <2>1. \A p \in Ids : Unmade(r, p) => Unmade(r, p)'
    BY <1>3, <1>5, InvFact DEF Unmade, Left
  <2> QED BY <1>1, <1>8, <2>1, FreshKept DEF BeforeLoad
<1>10. TargetOf(r)' /\ point \in Parts \ {"away"} /\ leaked' \subseteq Instances
  BY <1>1, <1>8, InvFact DEF TargetOf, Closing, Parts, RestOK
<1> QED BY <1>1, <1>4, <1>5, <1>6, <1>7, <1>8, <1>9, <1>10, InstStep


\* A close fails: the instance is broken, and may stay in inst_map.
LEMMA CloseFailsStep ==
    ASSUME Inv, NEW r \in Requests, CloseFails(r)
    PROVE  Inv'
<1> DEFINE i == target[r]
<1>1. /\ at[r] \in Closing /\ booting = <<>> /\ booting' = <<>>
      /\ inst' = [inst EXCEPT ![i].at = "broken"]
      /\ target' = [target EXCEPT ![r] = None]
      /\ Ends(r) /\ failed' = failed \cup Spoils(r)
      /\ UNCHANGED <<configVars, instMap, insts, curr, req, todo, keys, leaked,
                     overlapped>>
  BY DEF CloseFails, Idle, Closing
<1>2. i \in Instances /\ inst[i].at \in Left
  BY <1>1, InvFact DEF TargetOf
<1>3. /\ at' = [at EXCEPT ![r] = "done"] /\ LockOK' /\ running' \in Requests \cup {None}
      /\ failed' \subseteq Ids
  BY <1>1, InvFact, EndsFact, SpoilsFact DEF RestOK
<1> HIDE DEF i
<1>4. /\ InstOK' /\ inst'[i].at = "broken"
      /\ \A j \in Instances \ {i} : inst'[j] = inst[j]
  <2>1. /\ inst' \in [Instances -> [at : InstStates, own : Writers \cup {None},
                                    src : Writers \cup {None}]]
        /\ inst'[i].at = "broken" /\ \A j \in Instances \ {i} : inst'[j] = inst[j]
    BY <1>1, <1>2, InvFact, MarkFact DEF InstStates
  <2> QED BY <1>1, <2>1, InvFact DEF InstOK, InstStates
<1>5. \A j \in Instances : /\ inst[j].at \in Used => inst'[j].at \in Used
                           /\ inst[j].at \in {"none", "loading"} => inst'[j].at = inst[j].at
                           /\ inst[j].at \in Left => inst'[j].at \in Left
  BY <1>2, <1>4 DEF Used, Left
<1>6. KnownInv'
  <2>1. KnownInv /\ InstOK /\ Elements(insts) \subseteq Instances
    BY InvFact DEF InstOK, Elements
  <2> QED BY <1>1, <1>5, <2>1 DEF KnownInv, InstOK, Elements
<1>7. Undisturbed(r)
  <2>1. \A j \in Instances : Unlisted(j)' <=> Unlisted(j)
    BY <1>1 DEF Unlisted, Elements
  <2> QED BY <1>5, <2>1 DEF Undisturbed
<1>8. PointsOf(r)' /\ at'[r] = "done"
  BY <1>1, <1>3, InvFact DEF PointsOf, RequestOK, Closing
<1>9. FreshOf(r)'
  <2>1. \A p \in Ids : Unmade(r, p) => Unmade(r, p)'
    BY <1>5, InvFact DEF Unmade
  <2> QED BY <1>1, <1>8, <2>1, FreshKept DEF BeforeLoad
<1>10. TargetOf(r)' /\ leaked' \subseteq Instances
  BY <1>1, <1>8, InvFact DEF TargetOf, Closing, RestOK
<1> QED BY <1>1, <1>3, <1>4, <1>6, <1>7, <1>8, <1>9, <1>10, InstStep DEF Parts

\* A load begins: nobody has made an instance under this request and id before.
LEMMA LoadsStep ==
    ASSUME Inv, NEW r \in Requests, Loads(r)
    PROVE  Inv'
<1> DEFINE p == req[r].id
           i == <<r, p>>
<1>1. /\ at[r] = "load" /\ booting = <<>> /\ booting' = <<>>
      /\ UNCHANGED <<configVars, instMap, insts, curr, req, todo, keys, target, leaked,
                     overlapped>>
  BY Booted DEF Loads, Runs
<1>2. p \in Ids /\ i \in Instances /\ inst[i].at = "none" /\ req[r].new \in Settings
  BY <1>1, InvFact DEF PointsOf, FreshOf, BeforeLoad, Unmade
<1>3. SUFFICES ASSUME inst' # inst PROVE Inv'
  <2>1. SUFFICES ASSUME inst' = inst PROVE Inv'
    OBVIOUS
  <2>2. UNCHANGED instVars
    BY <1>1, <2>1 DEF instVars
  <2>3. PICK point \in {"loaded", "done"} :
          /\ at' = [at EXCEPT ![r] = point] /\ LockOK' /\ running' \in Requests \cup {None}
          /\ failed' \subseteq Ids
    <3>1. CASE Ends(r) /\ failed' = failed \cup Spoils(r)
      BY <3>1, InvFact, EndsFact, SpoilsFact DEF RestOK
    <3>2. CASE at' = [at EXCEPT ![r] = "loaded"] /\ running' = r /\ UNCHANGED lockVars
                 /\ (failed' = failed \/ failed' = failed \cup {p})
      BY <1>2, <3>2, InvFact, TypesKept DEF RestOK
    <3>3. inst' # inst \/ inst' = inst
      OBVIOUS
    <3>4. CASE /\ Suspends(r, "loading")
               /\ inst' = [inst EXCEPT ![i] = [at |-> "loading", own |-> req[r].new.own,
                             src |-> IF p \in Sourced THEN merged ELSE None]]
      BY <1>2, <2>1, <3>4, InvFact DEF InstOK
    <3> QED BY <3>1, <3>2, <3>4 DEF Loads, Continues
  <2>4. PointsOf(r)'
    BY <1>1, <2>3, InvFact DEF PointsOf, RequestOK, Closing
  <2>5. /\ ConfigOK' /\ keys'[r] \in Seq(Ids) /\ \E ks : keys' = [keys EXCEPT ![r] = ks]
    <3>1. keys = [keys EXCEPT ![r] = keys[r]]
      BY InvFact DEF RequestOK
    <3> QED BY <1>1, <3>1, InvFact, TypesKept DEF RequestOK
  <2>6. point \in Parts \ (Closing \cup {"loading", "away"}) /\ at[r] # "away"
        /\ (point \in BeforeLoad => at[r] \in BeforeLoad)
    BY <1>1 DEF Parts, Closing, BeforeLoad
  <2> QED BY <1>1, <2>2, <2>3, <2>4, <2>5, <2>6, GoesStep
<1>4. /\ at' = [at EXCEPT ![r] = "loading"] /\ running' = None
      /\ inst' = [inst EXCEPT ![i] = [at |-> "loading", own |-> req[r].new.own,
                     src |-> IF p \in Sourced THEN merged ELSE None]]
      /\ UNCHANGED <<lockVars, failed>>
  BY <1>3 DEF Loads, Suspends
<1> HIDE DEF p, i
<1>5. /\ InstOK' /\ inst'[i].at = "loading"
      /\ \A j \in Instances \ {i} : inst'[j] = inst[j]
  <2>1. [at |-> "loading", own |-> req[r].new.own,
         src |-> IF p \in Sourced THEN merged ELSE None]
          \in [at : InstStates, own : Writers \cup {None}, src : Writers \cup {None}]
    BY <1>2, InvFact DEF InstStates, Settings, ConfigOK, merged
  <2> QED BY <1>1, <1>2, <1>4, <2>1, InvFact DEF InstOK, InstStates
<1>6. \A j \in Instances : /\ inst[j].at \in Used \cup Left => inst'[j] = inst[j]
                           /\ j[1] # r => inst'[j] = inst[j]
  BY <1>2, <1>5 DEF Used, Left, i
<1>7. KnownInv'
  <2>1. KnownInv /\ InstOK /\ Elements(insts) \subseteq Instances
    BY InvFact DEF InstOK, Elements
  <2>2. \A j \in Instances : inst[j].at \in Used => inst'[j].at \in Used
    BY <1>6
  <2> QED BY <1>1, <2>1, <2>2 DEF KnownInv, InstOK, Elements
<1>8. Undisturbed(r)
  <2>1. \A j \in Instances : Unlisted(j)' <=> Unlisted(j)
    BY <1>1 DEF Unlisted, Elements
  <2> QED BY <1>6, <2>1 DEF Undisturbed
<1>9. PointsOf(r)' /\ at'[r] = "loading"
  BY <1>1, <1>4, InvFact DEF PointsOf, RequestOK, Closing
<1>10. FreshOf(r)'
  <2>1. \A q \in Ids : q # p => inst'[<<r, q>>] = inst[<<r, q>>]
    BY <1>5, InvFact DEF i
  <2>2. \A n \in 1..Len(todo[r]) : todo[r][n][1] # p
    BY <1>1, InvFact DEF FreshOf, BeforeLoad, p
  <2> QED BY <1>1, <1>5, <1>9, <2>1, <2>2, FreshKept DEF BeforeLoad, Unmade, i, p
<1>11. TargetOf(r)' /\ leaked' \subseteq Instances /\ failed' \subseteq Ids /\ LockOK'
       /\ running' \in Requests \cup {None}
  BY <1>1, <1>4, <1>9, InvFact, TypesKept DEF TargetOf, Closing, RestOK
<1>12. target[r] \in Instances \cup {None} /\ target' = [target EXCEPT ![r] = target[r]]
  BY <1>1, InvFact DEF RequestOK
<1> QED BY <1>1, <1>4, <1>5, <1>7, <1>8, <1>9, <1>10, <1>11, <1>12, InstStep DEF Parts


InstRec == [at : InstStates, own : Writers \cup {None}, src : Writers \cup {None}]

\* A loaded instance is listed.
LEMMA AddFact ==
    ASSUME InstOK, KnownInv, NEW i \in Instances, i[2] \in Ids, inst[i].at \notin Used,
           inst' \in [Instances -> InstRec], inst'[i].at = "open",
           \A j \in Instances \ {i} : inst'[j] = inst[j],
           AddInstance(i)
    PROVE  /\ InstOK' /\ KnownInv'
           /\ \A j \in Instances \ {i} : Unlisted(j) => Unlisted(j)'
<1>1. /\ instMap' = [instMap EXCEPT ![i[2]] = i]
      /\ insts' = Append(insts, i)
      /\ curr' = IF i[2] = Default \/ curr = None THEN i ELSE curr
  BY DEF AddInstance
<1>2. insts \in Seq(Instances) /\ Len(insts) \in Nat /\ DOMAIN insts = 1..Len(insts)
  BY DEF InstOK
<1>3. /\ insts' \in Seq(Instances) /\ DOMAIN insts' = 1..(Len(insts) + 1)
      /\ Len(insts') = Len(insts) + 1
      /\ insts'[Len(insts) + 1] = i /\ \A n \in 1..Len(insts) : insts'[n] = insts[n]
  BY <1>1, <1>2
<1>4. Elements(insts') = Elements(insts) \cup {i}
  <2>1. \A x \in Elements(insts') : x \in Elements(insts) \cup {i}
    BY <1>2, <1>3 DEF Elements
  <2>2. \A x \in Elements(insts) \cup {i} : x \in Elements(insts')
    BY <1>2, <1>3 DEF Elements
  <2> QED BY <2>1, <2>2
<1>5. \A n \in 1..Len(insts) : insts[n] # i
  BY <1>2 DEF KnownInv, Elements
<1>6. IsInjective(insts')
  <2>1. \A m, n \in 1..Len(insts) : insts[m] = insts[n] => m = n
    BY <1>2 DEF InstOK, IsInjective
  <2>2. SUFFICES ASSUME NEW m \in 1..(Len(insts) + 1), NEW n \in 1..(Len(insts) + 1),
                        insts'[m] = insts'[n]
                 PROVE  m = n
    BY <1>3 DEF IsInjective
  <2>3. /\ m \in 1..Len(insts) \/ m = Len(insts) + 1
        /\ n \in 1..Len(insts) \/ n = Len(insts) + 1
    BY <1>2
  <2> QED BY <1>3, <1>5, <2>1, <2>2, <2>3
<1>7. InstOK'
  BY <1>1, <1>3, <1>6 DEF InstOK, InstRec, InstStates
<1>8. \A j \in Instances : inst[j].at \in Used => inst'[j].at \in Used
  BY DEF Used
<1>9. KnownInv'
  <2>1. \A j \in Elements(insts') : inst'[j].at \in Used
    <3>1. ASSUME NEW j \in Elements(insts) PROVE inst'[j].at \in Used
      <4>1. j \in Instances /\ inst[j].at \in Used
        BY <1>2, <3>1 DEF KnownInv, Elements
      <4> QED BY <1>8, <4>1
    <3> QED BY <1>4, <3>1 DEF Used
  <2>2. curr' # None => inst'[curr'].at \in Used
    BY <1>1, <1>8 DEF KnownInv, InstOK, Used
  <2>3. \A p \in Ids : instMap'[p] # None =>
            instMap'[p][2] = p /\ inst'[instMap'[p]].at \in Used
    BY <1>1, <1>8 DEF KnownInv, InstOK, Used
  <2> QED BY <2>1, <2>2, <2>3 DEF KnownInv
<1>10. ASSUME NEW j \in Instances \ {i}, Unlisted(j) PROVE Unlisted(j)'
  BY <1>1, <1>4, <1>10 DEF Unlisted
<1> QED BY <1>7, <1>9, <1>10

\* A load ends: the new instance is listed.
LEMMA LoadEndsStep ==
    ASSUME Inv, NEW r \in Requests, LoadEnds(r)
    PROVE  Inv'
<1> DEFINE i == <<r, req[r].id>>
<1>1. /\ at[r] = "loading" /\ booting = <<>> /\ booting' = <<>>
      /\ inst' = [inst EXCEPT ![i].at = "open"] /\ AddInstance(i)
      /\ leaked' = leaked \cup ({instMap[i[2]]} \ {None})
      /\ at' = [at EXCEPT ![r] = "loaded"] /\ running' = r
      /\ UNCHANGED <<configVars, req, todo, keys, target, lockVars, failed, overlapped>>
  BY DEF LoadEnds, Idle, Continues
<1>2. /\ req[r].id \in Ids /\ i \in Instances /\ inst[i].at = "loading"
      /\ i[2] = req[r].id /\ i[1] = r
  BY <1>1, InvFact DEF PointsOf, FreshOf
<1> HIDE DEF i
<1>3. /\ inst' \in [Instances -> InstRec] /\ inst'[i].at = "open"
      /\ \A j \in Instances \ {i} : inst'[j] = inst[j]
  BY <1>1, <1>2, InvFact, MarkFact DEF InstStates, InstRec
<1>4. /\ InstOK' /\ KnownInv'
      /\ \A j \in Instances \ {i} : Unlisted(j) => Unlisted(j)'
  <2>1. inst[i].at \notin Used
    BY <1>2 DEF Used
  <2> QED BY <1>1, <1>2, <1>3, <2>1, InvFact, AddFact
<1>5. Undisturbed(r)
  BY <1>2, <1>3, <1>4 DEF Undisturbed, Left
<1>6. PointsOf(r)' /\ at'[r] = "loaded"
  BY <1>1, InvFact DEF PointsOf, RequestOK, Closing
<1>7. FreshOf(r)'
  <2>1. \A p \in Ids : Unmade(r, p) => Unmade(r, p)'
    <3>1. ASSUME NEW p \in Ids, Unmade(r, p) PROVE Unmade(r, p)'
      <4>1. <<r, p>> # i /\ <<r, p>> \in Instances
        BY <1>2, <3>1, InvFact DEF Unmade
      <4> QED BY <1>3, <3>1, <4>1 DEF Unmade
    <3> QED BY <3>1
  <2> QED BY <1>1, <1>6, <2>1, FreshKept DEF BeforeLoad
<1>8. TargetOf(r)' /\ leaked' \subseteq Instances /\ failed' \subseteq Ids /\ LockOK'
      /\ running' \in Requests \cup {None}
  <2>1. instMap[i[2]] \in Instances \cup {None}
    BY <1>2, InvFact DEF InstOK
  <2> QED BY <1>1, <1>6, <2>1, InvFact, TypesKept DEF TargetOf, Closing, RestOK
<1>9. target[r] \in Instances \cup {None} /\ target' = [target EXCEPT ![r] = target[r]]
  BY <1>1, InvFact DEF RequestOK
<1> QED BY <1>1, <1>4, <1>5, <1>6, <1>7, <1>8, <1>9, InstStep DEF Parts

\* A load fails: nothing is listed.
LEMMA LoadFailsStep ==
    ASSUME Inv, NEW r \in Requests, LoadFails(r)
    PROVE  Inv'
<1> DEFINE i == <<r, req[r].id>>
<1>1. /\ at[r] = "loading" /\ booting = <<>> /\ booting' = <<>>
      /\ inst' = [inst EXCEPT ![i].at = "broken"]
      /\ Ends(r) /\ failed' = failed \cup Spoils(r)
      /\ UNCHANGED <<configVars, instMap, insts, curr, req, todo, keys, target, leaked,
                     overlapped>>
  BY DEF LoadFails, Idle
<1>2. req[r].id \in Ids /\ i \in Instances /\ inst[i].at = "loading" /\ i[1] = r
  BY <1>1, InvFact DEF PointsOf, FreshOf
<1>3. /\ at' = [at EXCEPT ![r] = "done"] /\ LockOK' /\ running' \in Requests \cup {None}
      /\ failed' \subseteq Ids
  BY <1>1, InvFact, EndsFact, SpoilsFact DEF RestOK
<1> HIDE DEF i
<1>4. /\ inst' \in [Instances -> InstRec] /\ inst'[i].at = "broken"
      /\ \A j \in Instances \ {i} : inst'[j] = inst[j]
  BY <1>1, <1>2, InvFact, MarkFact DEF InstStates, InstRec
<1>5. InstOK'
  BY <1>1, <1>4, InvFact DEF InstOK, InstStates, InstRec
<1>6. KnownInv'
  <2>1. KnownInv /\ InstOK /\ Elements(insts) \subseteq Instances
    BY InvFact DEF InstOK, Elements
  <2>2. \A j \in Instances : inst[j].at \in Used => inst'[j].at \in Used
    BY <1>2, <1>4 DEF Used
  <2> QED BY <1>1, <2>1, <2>2 DEF KnownInv, InstOK, Elements
<1>7. Undisturbed(r)
  <2>1. \A j \in Instances : Unlisted(j)' <=> Unlisted(j)
    BY <1>1 DEF Unlisted, Elements
  <2> QED BY <1>2, <1>4, <2>1 DEF Undisturbed, Left
<1>8. PointsOf(r)' /\ at'[r] = "done"
  BY <1>1, <1>3, InvFact DEF PointsOf, RequestOK, Closing
<1>9. FreshOf(r)'
  <2>1. ASSUME NEW p \in Ids, Unmade(r, p) PROVE Unmade(r, p)'
    <3>1. <<r, p>> # i /\ <<r, p>> \in Instances
      BY <1>2, <2>1, InvFact DEF Unmade
    <3> QED BY <1>4, <2>1, <3>1 DEF Unmade
  <2> QED BY <1>1, <1>8, <2>1, FreshKept DEF BeforeLoad
<1>10. TargetOf(r)' /\ leaked' \subseteq Instances
  BY <1>1, <1>8, InvFact DEF TargetOf, Closing, RestOK
<1>11. target[r] \in Instances \cup {None} /\ target' = [target EXCEPT ![r] = target[r]]
  BY <1>1, InvFact DEF RequestOK
<1> QED BY <1>1, <1>3, <1>5, <1>6, <1>7, <1>8, <1>9, <1>10, <1>11, InstStep DEF Parts


\* A lock is given to the first that waits.
LEMMA GrantedStep ==
    ASSUME Inv, NEW k \in Locks, Granted(k)
    PROVE  Inv'
<1>1. /\ holder[k] = None /\ queue[k] # <<>>
      /\ holder' = [holder EXCEPT ![k] = Head(queue[k])]
      /\ queue' = [queue EXCEPT ![k] = Tail(queue[k])]
      /\ running' = Head(queue[k])
      /\ UNCHANGED <<configVars, instVars, requestVars, booting, history>>
  BY DEF Granted, Lock!Grant
<1>2. ConfigOK /\ InstOK /\ RequestOK /\ LockOK /\ RestOK
  BY TypeParts DEF Inv
<1>3. Head(queue[k]) \in Requests /\ Tail(queue[k]) \in Seq(Requests)
  <2>1. queue[k] \in Seq(Requests)
    BY <1>2 DEF LockOK
  <2> QED BY <1>1, <2>1
<1>4. TypeOK'
  <2>1. LockOK' /\ RestOK'
    BY <1>1, <1>2, <1>3 DEF LockOK, RestOK, history
  <2> QED BY <1>1, <1>2, <2>1, TypeParts, TypesKept
<1>5. RequestInv'
  BY <1>1 DEF Inv, RequestInv, PointsOf, FreshOf, TargetOf, Unmade, Unlisted, Elements,
              instVars, requestVars
<1>6. BootInv' /\ KnownInv'
  BY <1>1 DEF Inv, BootInv, KnownInv, Unmade, Elements, instVars, requestVars
<1> QED BY <1>4, <1>5, <1>6 DEF Inv

\* The boot loads one provider.
LEMMA BootStep ==
    ASSUME Inv, BootLoads
    PROVE  Inv'
<1> DEFINE p == Head(booting)
           i == <<Boot, p>>
<1>1. /\ booting # <<>> /\ booting' = Tail(booting)
      /\ UNCHANGED <<configVars, requestVars, lockVars, running, leaked, overlapped>>
  BY DEF BootLoads
<1>2. /\ ConfigOK /\ InstOK /\ RequestOK /\ LockOK /\ RestOK /\ BootInv /\ KnownInv
      /\ RequestInv
  BY TypeParts DEF Inv
<1>3. /\ booting \in Seq(Ids) /\ p \in Ids /\ Tail(booting) \in Seq(Ids) /\ p = booting[1]
      /\ Len(booting) \in Nat \ {0} /\ Len(Tail(booting)) = Len(booting) - 1
      /\ \A n \in 1..Len(Tail(booting)) : Tail(booting)[n] = booting[n + 1]
  <2>1. booting \in Seq(Ids)
    BY <1>2 DEF RestOK
  <2> QED BY <1>1, <2>1, TailFact
<1>4. /\ i \in Instances /\ i[2] = p /\ i[2] \in Ids /\ inst[i].at = "none"
      /\ \A r \in Requests : at[r] = "away"
  BY <1>1, <1>2, <1>3 DEF Instances, Writers, BootInv, Unmade
<1>5. \A n \in 1..Len(booting') :
        /\ booting'[n] # p /\ booting'[n] \in Ids /\ Unmade(Boot, booting'[n])
        /\ \A m \in 1..Len(booting') : booting'[m] = booting'[n] => m = n
  <2>1. ASSUME NEW n \in 1..Len(booting') PROVE n + 1 \in 1..Len(booting) /\ n + 1 # 1
    BY <1>1, <1>3
  <2>2. ASSUME NEW n \in 1..Len(booting')
        PROVE  booting'[n] # p /\ booting'[n] \in Ids /\ Unmade(Boot, booting'[n])
    <3>1. booting'[n] = booting[n + 1] /\ 1 \in 1..Len(booting)
      BY <1>1, <1>3
    <3> QED BY <1>2, <1>3, <2>1, <3>1 DEF BootInv
  <2>3. ASSUME NEW n \in 1..Len(booting'), NEW m \in 1..Len(booting'), booting'[m] = booting'[n]
        PROVE  m = n
    <3>1. booting[m + 1] = booting[n + 1]
      BY <1>1, <1>3, <2>3
    <3>2. m + 1 = n + 1
      BY <1>2, <2>1, <3>1 DEF BootInv
    <3> QED BY <3>2
  <2> QED BY <2>2, <2>3
<1>6. booting' \in Seq(Ids)
  BY <1>1, <1>3
<1> HIDE DEF i, p
<1>7. CASE inst' = inst
  <2>1. UNCHANGED instVars /\ failed' \subseteq Ids
    <3>1. CASE UNCHANGED instVars /\ failed' = failed \cup {Head(booting)}
      BY <1>2, <1>3, <3>1 DEF RestOK, p
    <3>2. CASE inst' = [inst EXCEPT ![i] = [at |-> "open", own |-> Boot,
                             src |-> IF p \in Sourced THEN merged ELSE None]]
      BY <1>2, <1>4, <1>7, <3>2 DEF InstOK
    <3> QED BY <1>1, <3>1, <3>2 DEF BootLoads, i, p
  <2>2. TypeOK'
    <3>1. RestOK'
      BY <1>1, <1>2, <1>6, <2>1 DEF RestOK
    <3> QED BY <1>1, <1>2, <2>1, <3>1, TypeParts, TypesKept
  <2>3. RequestInv' /\ KnownInv'
    BY <1>1, <1>2, <2>1 DEF RequestInv, PointsOf, FreshOf, TargetOf, KnownInv, Unmade,
       Unlisted,
                            Elements, instVars, requestVars
  <2>4. BootInv'
    BY <1>1, <1>4, <1>5, <2>1 DEF BootInv, Unmade, instVars, requestVars
  <2> QED BY <2>2, <2>3, <2>4 DEF Inv
<1>8. CASE inst' # inst
  <2>1. /\ inst' = [inst EXCEPT ![i] = [at |-> "open", own |-> Boot,
                             src |-> IF p \in Sourced THEN merged ELSE None]]
        /\ AddInstance(i) /\ UNCHANGED failed
    BY <1>1, <1>8 DEF BootLoads, instVars, i, p
  <2>2. /\ inst' \in [Instances -> InstRec] /\ inst'[i].at = "open"
        /\ \A j \in Instances \ {i} : inst'[j] = inst[j]
    <3>1. [at |-> "open", own |-> Boot,
           src |-> IF p \in Sourced THEN merged ELSE None] \in InstRec
      BY <1>2 DEF InstRec, InstStates, ConfigOK, merged, Writers
    <3> QED BY <1>2, <1>4, <2>1, <3>1 DEF InstOK, InstRec, InstStates
  <2>3. InstOK' /\ KnownInv'
    <3>1. inst[i].at \notin Used
      BY <1>4 DEF Used
    <3> QED BY <1>2, <1>4, <2>1, <2>2, <3>1, AddFact
  <2>4. TypeOK'
    <3>1. RestOK'
      BY <1>1, <1>2, <1>6, <2>1 DEF RestOK
    <3> QED BY <1>1, <1>2, <2>3, <3>1, TypeParts, TypesKept
  <2>5. \A q \in Ids : Unmade(Boot, q) /\ q # p => Unmade(Boot, q)'
    BY <1>2, <2>2 DEF Unmade, Instances, Writers, i
  <2>6. BootInv'
    BY <1>1, <1>4, <1>5, <2>5 DEF BootInv, requestVars
  <2>7. RequestInv'
    <3>1. ASSUME NEW r \in Requests PROVE PointsOf(r)' /\ FreshOf(r)' /\ TargetOf(r)'
      <4>1. at'[r] = "away" /\ todo'[r] = todo[r] /\ req'[r] = req[r]
        BY <1>1, <1>4 DEF requestVars
      <4>2. PointsOf(r) /\ FreshOf(r) /\ at[r] = "away" /\ todo[r] = <<>>
        BY <1>2, <1>4 DEF RequestInv, PointsOf
      <4>3. PointsOf(r)' /\ TargetOf(r)'
        BY <4>1, <4>2 DEF PointsOf, TargetOf, Closing
      <4>4. \A q \in Ids : <<r, q>> \in Instances \ {i}
        BY ProviderManagerAssumption DEF Instances, Writers, i
      <4>5. FreshOf(r)'
        BY <2>2, <4>1, <4>2, <4>4 DEF FreshOf, Unmade, BeforeLoad
      <4> QED BY <4>3, <4>5
    <3> QED BY <3>1 DEF RequestInv
  <2> QED BY <2>3, <2>4, <2>6, <2>7 DEF Inv
<1> QED BY <1>7, <1>8

\* An edit of the source comes, with the providers it will reload.
LEMMA EditStep ==
    ASSUME Inv, NEW r \in Requests, EditSource(r)
    PROVE  Inv'
<1> DEFINE A == {p \in Sourced : source # None /\ config[p] # None}
           affected == SetToSeq(A)
           reloads == [n \in 1..Len(affected) |-> <<affected[n], config[affected[n]]>>]
<1>1. /\ at[r] = "away" /\ booting = <<>> /\ booting' = <<>>
      /\ sources' = [sources EXCEPT ![current] = r] /\ seen' = current
      /\ failed' = failed \cup {p \in Sourced : source = None /\ config[p] # None}
      /\ UNCHANGED <<config, listed, aliased, current, instVars, keys, target, leaked>>
  BY DEF EditSource, Comes, Idle
<1>2. /\ \/ /\ reloads = <<>>
            /\ Comes(r, "edit", None, None, None)
            /\ Suspends(r, "done")
            /\ UNCHANGED <<todo, lockVars>>
         \/ /\ reloads # <<>>
            /\ Comes(r, "edit", reloads[1][1], reloads[1][1], reloads[1][2])
            /\ todo' = [todo EXCEPT ![r] = Tail(reloads)]
            /\ Acquires(r, "reload")
  BY Zenon DEF EditSource
<1>3. /\ reloads \in Seq(Ids \X Settings)
      /\ \A m, n \in 1..Len(reloads) : reloads[m][1] = reloads[n][1] => m = n
  <2>1. IsFiniteSet(A) /\ A \subseteq Ids
    BY ProviderManagerAssumption, FS_Subset
  <2>2. \A p \in A : config[p] \in Settings
    BY <2>1, InvFact DEF ConfigOK
  <2> HIDE DEF A
  <2>3. affected \in Seq(A) /\ \A m, n \in DOMAIN affected : affected[m] = affected[n] => m = n
    BY <2>1, ListFact
  <2> HIDE DEF affected
  <2> QED BY <2>1, <2>2, <2>3
<1> HIDE DEF reloads
<1>4. /\ ConfigOK' /\ failed' \subseteq Ids /\ leaked' \subseteq Instances /\ InstOK'
      /\ r \in Writers
  BY <1>1, InvFact, TypesKept, ProviderManagerAssumption DEF ConfigOK, RestOK, Writers
<1>5. KnownInv' /\ Undisturbed(r)
  BY <1>1, InvFact DEF KnownInv, Undisturbed, instVars, Unlisted, Elements
<1>6. \A p \in Ids : Unmade(r, p)'
  BY <1>1, InvFact DEF FreshOf, Unmade, instVars
<1>7. CASE reloads = <<>>
  <2>1.
        /\ req' = [req EXCEPT ![r] = [op |-> "edit", id |-> None, from |-> None,
                                      new |-> None]]
        /\ overlapped' \in BOOLEAN
        /\ at' = [at EXCEPT ![r] = "done"] /\ running' = None
        /\ UNCHANGED <<todo, lockVars>>
    BY <1>2, <1>7, InvFact DEF Comes, Suspends, RestOK
  <2>2. TypeOK'
    <3>1. [op |-> "edit", id |-> None, from |-> None, new |-> None] \in ReqType
      BY DEF ReqType
    <3>2. RequestOK'
      BY <1>1, <2>1, <3>1, InvFact DEF RequestOK, Parts
    <3>3. <<>> \in Seq(Ids)
      OBVIOUS
    <3>4. RestOK' /\ LockOK'
      BY <1>1, <1>4, <2>1, <3>3, InvFact, TypesKept DEF RestOK
    <3> QED BY <1>4, <3>2, <3>4, TypeParts
  <2>3. Moves(r) /\ at'[r] = "done"
    BY <1>1, <2>1, InvFact, MovesFact DEF RequestOK
  <2>4. req'[r].op = "edit" /\ todo'[r] = todo[r] /\ todo[r] = <<>>
    BY <1>1, <2>1, InvFact DEF RequestOK, PointsOf
  <2>5. PointsOf(r)' /\ FreshOf(r)' /\ TargetOf(r)'
    BY <2>3, <2>4 DEF PointsOf, FreshOf, TargetOf, Closing, BeforeLoad
  <2> QED BY <1>1, <1>5, <2>2, <2>3, <2>5, StepFact
<1>8. CASE reloads # <<>>
  <2>1. /\ Tail(reloads) \in Seq(Ids \X Settings) /\ reloads[1] \in Ids \X Settings
        /\ Len(Tail(reloads)) = Len(reloads) - 1 /\ Len(reloads) \in Nat \ {0}
        /\ \A n \in 1..Len(Tail(reloads)) : Tail(reloads)[n] = reloads[n + 1]
    BY <1>3, <1>8, TailFact
  <2>2.
        /\ req' = [req EXCEPT ![r] = [op |-> "edit", id |-> reloads[1][1],
                                      from |-> reloads[1][1],
                                      new |-> reloads[1][2]]]
        /\ overlapped' \in BOOLEAN
        /\ todo' = [todo EXCEPT ![r] = Tail(reloads)]
        /\ Acquires(r, "reload")
    BY <1>2, <1>8, InvFact DEF Comes, RestOK
  <2>3. LockOK' /\ running' \in Requests \cup {None} /\ at' = [at EXCEPT ![r] = "reload"]
    BY <2>2, InvFact, AcquiresFact DEF Locks
  <2>4. TypeOK'
    <3>1. [op |-> "edit", id |-> reloads[1][1], from |-> reloads[1][1],
           new |-> reloads[1][2]]
            \in ReqType
      BY <2>1 DEF ReqType
    <3>2. RequestOK'
      BY <1>1, <2>1, <2>2, <2>3, <3>1, InvFact DEF RequestOK, Parts
    <3>3. <<>> \in Seq(Ids)
      OBVIOUS
    <3>4. RestOK'
      BY <1>1, <1>4, <2>2, <2>3, <3>3, InvFact DEF RestOK
    <3> QED BY <1>4, <2>3, <3>2, <3>4, TypeParts
  <2>5. Moves(r) /\ at'[r] = "reload"
    BY <1>1, <2>2, <2>3, InvFact, MovesFact DEF RequestOK
  <2>6. /\ req'[r].op = "edit" /\ req'[r].id = reloads[1][1] /\ req'[r].new = reloads[1][2]
        /\ todo'[r] = Tail(reloads)
    BY <2>2, InvFact DEF RequestOK
  <2>7. PointsOf(r)' /\ TargetOf(r)'
    BY <2>1, <2>5, <2>6 DEF PointsOf, TargetOf, Closing
  <2>8. ASSUME NEW n \in 1..Len(todo'[r])
        PROVE  /\ todo'[r][n][1] \in Ids /\ todo'[r][n][1] # reloads[1][1]
               /\ \A m \in 1..Len(todo'[r]) : todo'[r][m][1] = todo'[r][n][1] => m = n
    <3>1. /\ n + 1 \in 1..Len(reloads) /\ todo'[r][n] = reloads[n + 1] /\ n + 1 # 1
          /\ 1 \in 1..Len(reloads)
      BY <2>1, <2>6
    <3>2. reloads[n + 1] \in Ids \X Settings
      BY <1>3, <3>1
    <3>3. ASSUME NEW m \in 1..Len(todo'[r]), todo'[r][m][1] = todo'[r][n][1] PROVE m = n
      <4>1. m + 1 \in 1..Len(reloads) /\ todo'[r][m] = reloads[m + 1]
        BY <2>1, <2>6
      <4>2. m + 1 = n + 1
        BY <1>3, <3>1, <3>3, <4>1
      <4> QED BY <4>2
    <3> QED BY <1>3, <3>1, <3>2, <3>3
  <2>9. FreshOf(r)'
    BY <1>6, <2>5, <2>6, <2>8 DEF FreshOf, BeforeLoad
  <2> QED BY <1>1, <1>5, <2>4, <2>5, <2>7, <2>9, StepFact
<1> QED BY <1>7, <1>8


\* A reload ends, and the edit goes on with the next provider.
LEMMA ReloadEndsStep ==
    ASSUME Inv, NEW r \in Requests, ReloadEnds(r)
    PROVE  Inv'
<1>1. /\ at[r] = "sweep" /\ booting = <<>> /\ booting' = <<>>
      /\ curr' = IF insts = <<>> THEN None ELSE IF curr = None THEN Head(insts) ELSE curr
      /\ failed' \subseteq failed
      /\ UNCHANGED <<configVars, inst, instMap, insts, keys, target, leaked, overlapped>>
  BY Booted DEF ReloadEnds, Runs
<1>2. insts # <<>> => Head(insts) \in Instances /\ Head(insts) \in Elements(insts)
  <2>1. insts \in Seq(Instances)
    BY InvFact DEF InstOK
  <2> QED BY <2>1 DEF Elements
<1>3. InstOK' /\ ConfigOK' /\ failed' \subseteq Ids /\ leaked' \subseteq Instances
      /\ overlapped' \in BOOLEAN
  BY <1>1, <1>2, InvFact, TypesKept DEF InstOK, RestOK
<1>4. KnownInv'
  BY <1>1, <1>2, InvFact DEF KnownInv, Elements
<1>5. Undisturbed(r)
  <2>1. ASSUME NEW i \in Instances, Unlisted(i) PROVE Unlisted(i)'
    BY <1>1, <1>2, <2>1 DEF Unlisted, Elements
  <2> QED BY <1>1, <2>1 DEF Undisturbed
<1>6. CASE todo[r] = <<>> /\ Ends(r) /\ UNCHANGED <<req, todo>>
  <2>1. LockOK' /\ running' \in Requests \cup {None} /\ at' = [at EXCEPT ![r] = "done"]
    BY <1>6, InvFact, EndsFact
  <2>2. PointsOf(r)' /\ at'[r] = "done"
    BY <1>1, <1>6, <2>1, InvFact DEF PointsOf, RequestOK, Closing
  <2>3. FreshOf(r)'
    BY <1>6, <2>2 DEF FreshOf, BeforeLoad
  <2>4. TargetOf(r)'
    BY <2>2 DEF TargetOf, Closing
  <2>5. target[r] \in Instances \cup {None} /\ target' = [target EXCEPT ![r] = target[r]]
    BY <1>1, InvFact DEF RequestOK
  <2>6. "done" \in Parts \ {"away"} /\ UNCHANGED <<configVars, req, todo, keys, overlapped>>
    BY <1>1, <1>6 DEF Parts
  <2> QED BY <1>1, <1>3, <1>4, <1>5, <2>1, <2>2, <2>3, <2>4, <2>5, <2>6, InstStep
<1>7. CASE todo[r] # <<>> /\ NextReload(r) /\ at' = [at EXCEPT ![r] = "reload"]
           /\ LockOK' /\ running' \in Requests \cup {None}
  <2> DEFINE first == todo[r][1]
  <2>1. /\ Tail(todo[r]) \in Seq(Ids \X Settings) /\ first \in Ids \X Settings
        /\ Len(Tail(todo[r])) = Len(todo[r]) - 1 /\ Len(todo[r]) \in Nat \ {0}
        /\ \A n \in 1..Len(Tail(todo[r])) : Tail(todo[r])[n] = todo[r][n + 1]
    <3>1. todo[r] \in Seq(Ids \X Settings)
      BY InvFact DEF RequestOK
    <3> QED BY <1>7, <3>1, TailFact
  <2>2. /\ req' = [req EXCEPT ![r].id = first[1], ![r].from = first[1], ![r].new = first[2]]
        /\ todo' = [todo EXCEPT ![r] = Tail(todo[r])]
    BY <1>7 DEF NextReload
  <2> HIDE DEF first
  <2>3. /\ req'[r] \in ReqType /\ req'[r].op = req[r].op /\ req'[r].id = first[1]
        /\ req'[r].from = first[1] /\ req'[r].new = first[2]
        /\ \A s \in Requests \ {r} : req'[s] = req[s]
        /\ req' \in [Requests -> ReqType]
    <3>1. req \in [Requests -> ReqType] /\ req[r] \in ReqType
      BY InvFact DEF RequestOK
    <3>2. [[[req[r] EXCEPT !.id = first[1]] EXCEPT !.from = first[1]] EXCEPT !.new = first[2]]
            \in ReqType
      BY <2>1, <3>1 DEF ReqType
    <3>3. req' = [req EXCEPT ![r] =
                    [[[req[r] EXCEPT !.id = first[1]] EXCEPT !.from = first[1]]
                        EXCEPT !.new = first[2]]]
      BY <2>2, <3>1
    <3>4. req[r] \in [op : {"none", "create", "update", "delete", "edit", "unsource"},
                      id : Ids \cup {None}, from : Ids \cup {None}, new : Settings \cup {None}]
      BY <3>1 DEF ReqType
    <3> QED BY <3>1, <3>2, <3>3, <3>4
  <2>4. TypeOK'
    <3>1. RequestOK'
      BY <1>1, <1>7, <2>1, <2>2, <2>3, InvFact DEF RequestOK, Parts
    <3>2. <<>> \in Seq(Ids)
      OBVIOUS
    <3>3. RestOK'
      BY <1>1, <1>3, <1>7, <3>2 DEF RestOK
    <3> QED BY <1>3, <1>7, <3>1, <3>3, TypeParts
  <2>5. Moves(r) /\ at'[r] = "reload"
    BY <1>1, <1>7, <2>2, <2>3, InvFact, MovesFact DEF RequestOK
  <2>6. todo'[r] = Tail(todo[r])
    BY <2>2, InvFact DEF RequestOK
  <2>7. PointsOf(r)' /\ TargetOf(r)'
    BY <1>1, <2>1, <2>3, <2>5, InvFact DEF PointsOf, TargetOf, Closing
  <2>8. inst'[<<r, first[1]>>].at = "none"
    <3>1. Unmade(r, first[1])
      <4>1. 1 \in 1..Len(todo[r])
        BY <2>1
      <4> QED BY <4>1, InvFact DEF FreshOf, first
    <3> QED BY <1>1, <3>1 DEF Unmade
  <2>9. ASSUME NEW n \in 1..Len(todo'[r])
        PROVE  /\ inst'[<<r, todo'[r][n][1]>>].at = "none" /\ todo'[r][n][1] # first[1]
               /\ \A m \in 1..Len(todo'[r]) : todo'[r][m][1] = todo'[r][n][1] => m = n
    <3>1. /\ n + 1 \in 1..Len(todo[r]) /\ todo'[r][n] = todo[r][n + 1] /\ n + 1 # 1
          /\ 1 \in 1..Len(todo[r])
      BY <2>1, <2>6
    <3>2. ASSUME NEW m \in 1..Len(todo'[r]), todo'[r][m][1] = todo'[r][n][1] PROVE m = n
      <4>1. m + 1 \in 1..Len(todo[r]) /\ todo'[r][m] = todo[r][m + 1]
        BY <2>1, <2>6
      <4>2. m + 1 = n + 1
        BY <3>1, <3>2, <4>1, InvFact DEF FreshOf
      <4> QED BY <4>2
    <3> QED BY <1>1, <3>1, <3>2, InvFact DEF FreshOf, Unmade, first
  <2>10. FreshOf(r)'
    BY <1>1, <2>3, <2>5, <2>8, <2>9 DEF FreshOf, BeforeLoad, Unmade
  <2> QED BY <1>1, <1>3, <1>4, <1>5, <2>4, <2>5, <2>7, <2>10, StepFact
<1>8. CASE todo[r] # <<>> /\ Continues(r, "reload") /\ NextReload(r) /\ UNCHANGED lockVars
  BY <1>7, <1>8, InvFact, TypesKept DEF Continues
<1>9. CASE /\ todo[r] # <<>> /\ Suspends(r, "reload") /\ NextReload(r)
           /\ holder' = [holder EXCEPT !["reload"] = None]
           /\ queue' = [queue EXCEPT !["reload"] = Append(queue["reload"], r)]
  <2>1. "reload" \in Locks /\ queue["reload"] \in Seq(Requests)
    BY InvFact DEF LockOK, Locks
  <2>2. Append(queue["reload"], r) \in Seq(Requests)
    BY <2>1
  <2>3. LockOK'
    BY <1>9, <2>1, <2>2, InvFact DEF LockOK
  <2> QED BY <1>7, <1>9, <2>3 DEF Suspends
<1> QED BY <1>6, <1>8, <1>9 DEF ReloadEnds

----------------------------------------------------------------------------
(* What a message is given                                                 *)

\* At first nothing is made, and no request has come.
LEMMA InvInit == Init => Inv
<1> SUFFICES ASSUME Init PROVE Inv
  OBVIOUS
<1> DEFINE A == {p \in Ids : config[p] # None /\ config[p].enable}
<1>1. booting = SetToSeq(A) /\ A \subseteq Ids
  BY DEF Init
<1> HIDE DEF A
<1>2. booting \in Seq(Ids) /\ \A m, n \in 1..Len(booting) : booting[m] = booting[n] => m = n
  <2>1. IsFiniteSet(A)
    BY <1>1, ProviderManagerAssumption, FS_Subset
  <2>2. booting \in Seq(A) /\ \A m, n \in DOMAIN booting : booting[m] = booting[n] => m = n
    BY <1>1, <2>1, ListFact
  <2> QED BY <1>1, <2>2
<1>3. ConfigOK
  <2>1. Boot \in Writers
    BY DEF Writers
  <2>2. \A b \in BOOLEAN : [own |-> Boot, enable |-> b] \in Settings
    BY <2>1 DEF Settings
  <2>3. config \in [Ids -> Settings \cup {None}]
    BY <2>2 DEF Init
  <2> QED BY <2>1, <2>3 DEF Init, ConfigOK
<1>4. InstOK
  <2>1. <<>> \in Seq(Instances) /\ IsInjective(<<>>)
    BY DEF IsInjective
  <2> QED BY <2>1 DEF Init, InstOK
<1>5. RequestOK
  <2>1. <<>> \in Seq(Ids) /\ <<>> \in Seq(Ids \X Settings)
    OBVIOUS
  <2> QED BY <2>1 DEF Init, RequestOK, ReqType, Parts
<1>6. LockOK
  <2>1. <<>> \in Seq(Requests)
    OBVIOUS
  <2> QED BY <2>1 DEF Init, LockOK, Lock!Init
<1>7. RestOK
  BY <1>2 DEF Init, RestOK
<1>8. \A w \in Writers, p \in Ids : Unmade(w, p)
  BY DEF Init, Unmade, Instances
<1>9. RequestInv
  <2>1. ASSUME NEW r \in Requests PROVE PointsOf(r) /\ FreshOf(r) /\ TargetOf(r)
    <3>1. /\ at[r] = "away" /\ req[r].op = "none" /\ todo[r] = <<>> /\ r \in Writers
          /\ req[r].id = None
      BY DEF Init, Writers
    <3> QED BY <1>8, <3>1 DEF PointsOf, FreshOf, TargetOf, Closing, BeforeLoad
  <2> QED BY <2>1 DEF RequestInv
<1>10. BootInv
  <2>1. Boot \in Writers /\ \A n \in 1..Len(booting) : booting[n] \in Ids
    BY <1>2 DEF Writers
  <2>2. \A r \in Requests : at[r] = "away"
    BY DEF Init
  <2> QED BY <1>2, <1>8, <2>1, <2>2 DEF BootInv
<1>11. KnownInv
  BY DEF Init, KnownInv, Elements
<1> QED BY <1>3, <1>4, <1>5, <1>6, <1>7, <1>9, <1>10, <1>11, TypeParts DEF Inv

\* Inv is inductive.
LEMMA InvNext == Inv /\ [Next]_vars => Inv'
<1> SUFFICES ASSUME Inv, [Next]_vars PROVE Inv'
  OBVIOUS
<1>1. CASE BootLoads
  BY <1>1, BootStep
<1>2. ASSUME NEW r \in Requests, Request(r) PROVE Inv'
  BY <1>2, RequestStep, EditStep DEF Request
<1>3. ASSUME NEW r \in Requests, Progress(r) PROVE Inv'
  <2>1. CASE \/ Refuses(r) \/ StoreCreated(r) \/ StoreUpdated(r) \/ BeginDelete(r)
             \/ BeginReload(r) \/ Deleted(r) \/ DeleteEnds(r) \/ CreateEnds(r) \/ Reloads(r)
             \/ Synchronizes(r) \/ SweepsOn(r)
    BY <2>1, QuietSteps
  <2>2. CASE \/ Terminates(r, "terminate", "closing", "terminated")
             \/ Terminates(r, "sweep", "sweeping", "swept")
    BY <2>2, TerminatesStep DEF Closing
  <2>3. CASE CloseEnds(r, "closing", "terminated") \/ CloseEnds(r, "sweeping", "swept")
    BY <2>3, CloseEndsStep
  <2>4. CASE CloseFails(r) \/ Loads(r) \/ LoadEnds(r) \/ LoadFails(r) \/ ReloadEnds(r)
    BY <2>4, CloseFailsStep, LoadsStep, LoadEndsStep, LoadFailsStep, ReloadEndsStep
  <2> QED BY <1>3, <2>1, <2>2, <2>3, <2>4 DEF Progress
<1>4. ASSUME NEW k \in Locks, Granted(k) PROVE Inv'
  BY <1>4, GrantedStep
<1>5. CASE UNCHANGED vars
  BY <1>5 DEF vars, Inv, TypeOK, RequestInv, PointsOf, FreshOf, TargetOf, BootInv, KnownInv,
              Unmade, Unlisted, Elements, configVars, instVars, requestVars, lockVars, history
<1> QED BY <1>1, <1>2, <1>3, <1>4, <1>5 DEF Next

\* What is given to a message is in the map, the list or curr, and KnownInv says how it is.
LEMMA InvGiven == Inv => GivenIsOpen
<1> SUFFICES ASSUME Inv PROVE GivenIsOpen
  OBVIOUS
<1>1. KnownInv /\ InstOK /\ Default \in Ids
  BY TypeParts, ProviderManagerAssumption DEF Inv
<1>2. insts # <<>> => Head(insts) \in Elements(insts)
  <2>1. insts \in Seq(Instances)
    BY <1>1 DEF InstOK
  <2> QED BY <2>1 DEF Elements
<1>3. ASSUME NEW c \in Ids, Using(c) # None PROVE inst[Using(c)].at \in Used
  <2>1. CASE instMap[c] # None
    BY <1>1, <2>1 DEF Using, KnownInv
  <2>2. CASE instMap[c] = None /\ instMap[Default] # None
    BY <1>1, <2>2 DEF Using, KnownInv
  <2>3. CASE instMap[c] = None /\ instMap[Default] = None
    BY <1>1, <1>2, <1>3, <2>3 DEF Using, KnownInv
  <2> QED BY <2>1, <2>2, <2>3
<1> QED BY <1>1, <1>3 DEF GivenIsOpen, KnownInv, Used

\* A message is never given a provider that has been closed, whatever requests
\* change the map, the list and the default meanwhile (manager.py:210).
THEOREM GivenOpen == Spec => []GivenIsOpen
BY InvInit, InvNext, InvGiven, PTL DEF Spec


----------------------------------------------------------------------------
(* The invariant of what runs                                              *)

Working(r) == at[r] \notin {"away", "resource", "done"}

\* What a request was sent for.
SentInv ==
    \A r \in Requests :
        /\ at[r] # "away" => req[r].op # "none"
        /\ req[r].op # "edit" => todo[r] = <<>>
        /\ req[r].op = "create" => req[r].from = req[r].id

\* Only the holder of resource_lock is at work, besides the edits of the source.
LockInv ==
    /\ \A r \in Requests :
        (Working(r) /\ req[r].op # "edit") \/ (running = r /\ at[r] = "resource")
            => holder["resource"] = r
    /\ \A n \in 1..Len(queue["reload"]) : at[queue["reload"][n]] \notin {"away", "resource"}

AloneInv == ~overlapped => \A r, s \in Active : EditsSource(r) => s = r

\* The manager merges the source there is, unless there is none.
SourceInv ==
    /\ \A r \in Requests : at[r] = "away" => sources[r] = None /\ current # r
    /\ ~overlapped =>
        /\ source # None => seen = current
        /\ \A r \in Active : req[r].op = "unsource" => current = r /\ source = None

LoadingInv ==
    \A i \in Instances : inst[i].at = "loading" =>
        i[1] \in Requests /\ at[i[1]] = "loading" /\ req[i[1]].id = i[2]

\* The instance was made from settings s of provider p and the source of now.
MadeFrom(i, p, s) ==
    inst[i].own = s.own /\ (p \in Sourced /\ source # None => inst[i].src = source)

RunsOn(p, s) ==
    /\ instMap[p] # None /\ inst[instMap[p]].at = "open" /\ instMap[p] \in Elements(insts)
    /\ MadeFrom(instMap[p], p, s)

\* The provider is as it is configured.
Good(p) ==
    IF config[p] # None /\ config[p].enable THEN RunsOn(p, config[p]) ELSE instMap[p] = None

Reloading(r) == req[r].op \in {"update", "edit"}
Deleting(r) == req[r].op \in {"delete", "unsource"}
Sweep == {"sweep", "sweeping", "swept"}
Ahead(r) == {todo[r][n][1] : n \in 1..Len(todo[r])}

\* The provider need not be good yet: the request is at it, or will come to it.
Touches(r, p) ==
    /\ Working(r)
    /\ \/ Deleting(r) /\ at[r] \in {"closing", "terminated"} /\ p = Head(keys[r])
       \/ /\ ~Deleting(r)
          /\ \/ p \in Ahead(r)
             \/ at[r] \in BeforeLoad \cup {"loading"} /\ p \in {req[r].id, req[r].from}
             \/ at[r] = "loaded" /\ p = req[r].from /\ p # req[r].id
             \/ at[r] \in Sweep /\ p \in Elements(keys[r])

\* What the request has read or written is still in the configuration.
Settled(r) ==
    /\ req[r].op \in {"create", "update", "edit"} => config[req[r].id] = req[r].new
    /\ Reloading(r) /\ req[r].from # req[r].id => config[req[r].from] = None
    /\ \A n \in 1..Len(todo[r]) : config[todo[r][n][1]] = todo[r][n][2]

Terminating == {"terminate", "closing", "terminated"}

\* What it terminates.
KeysOf(r) ==
    /\ at[r] \in Terminating => req[r].op # "create"
    /\ at[r] \in Terminating /\ Reloading(r) => keys[r] = <<req[r].id>>
    /\ at[r] \in Closing => instMap[Head(keys[r])] = target[r]
    /\ at[r] \in {"terminated", "swept"} => instMap[Head(keys[r])] = None
    /\ at[r] \in Sweep => \A n \in 1..Len(keys[r]) : config[keys[r][n]] = None

\* What it loads, or has loaded.
LoadOf(r) ==
    /\ at[r] \in {"load", "loading"}
          /\ (Reloading(r) \/ req[r].id \notin failed) =>
            instMap[req[r].id] = None
    /\ at[r] = "loading" =>
            req[r].new.enable /\ MadeFrom(<<r, req[r].id>>, req[r].id, req[r].new)
    /\ at[r] \in {"loaded"} \cup Sweep /\ Reloading(r) =>
            IF req[r].new.enable
            THEN inst[<<r, req[r].id>>].at = "open" => RunsOn(req[r].id, req[r].new)
            ELSE instMap[req[r].id] = None

WorkOf(r) == Settled(r) /\ KeysOf(r) /\ LoadOf(r)

\* An instance that is open is found by its id, besides those whose entry was taken;
\* such an entry does not come back.
Single ==
    /\ \A i \in Instances \ leaked : inst[i].at = "open" => i = instMap[i[2]]
    /\ \A p \in Ids : instMap[p] \notin leaked
    /\ \A i \in leaked : inst[i].at \notin {"none", "loading"}

Sound ==
    \A p \in Ids \ failed :
        Good(p) \/ p \in Elements(booting) \/ \E r \in Requests : Touches(r, p)

StartInv ==
    booting # <<>> =>
        /\ seen = current
        /\ \A n \in 1..Len(booting) :
            /\ instMap[booting[n]] = None /\ config[booting[n]] # None
            /\ config[booting[n]].enable /\ config[booting[n]].own = Boot

RunInv ==
    ~overlapped => Single /\ Sound /\ StartInv /\ \A r \in Requests : Working(r) => WorkOf(r)

Base == Inv /\ SentInv /\ LockInv /\ AloneInv /\ SourceInv /\ LoadingInv

----------------------------------------------------------------------------
(* The parts that hold whatever overlaps                                   *)

\* What a request does by itself leaves of the rest.
Shape(r) ==
    /\ Moves(r) /\ overlapped' = overlapped /\ UNCHANGED <<sources, current, booting>>
    /\ at[r] \notin {"away", "done"} /\ at'[r] \notin {"away", "resource"}
    /\ req'[r] = req[r] \/ (req'[r].op = req[r].op /\ req'[r].from = req'[r].id)
    /\ todo[r] = <<>> => todo'[r] = <<>>
    /\ seen' \in {seen, current} \/ (req[r].op = "unsource" /\ seen' = r)
    /\ running' \in {r, None}
    /\ \/ holder'["resource"] = holder["resource"]
       \/ holder["resource"] = r /\ at'[r] = "done"
    /\ at[r] = "resource" => running = r
    /\ \A n \in 1..Len(queue'["reload"]) :
        \/ queue'["reload"][n] = r
        \/ \E m \in 1..Len(queue["reload"]) : queue["reload"][m] = queue'["reload"][n]

LocksKept(r) ==
    /\ \/ holder'["resource"] = holder["resource"]
       \/ holder["resource"] = r /\ at'[r] = "done"
    /\ \A n \in 1..Len(queue'["reload"]) :
        \/ queue'["reload"][n] = r
        \/ \E m \in 1..Len(queue["reload"]) : queue["reload"][m] = queue'["reload"][n]

\* The locks stay as they are,
LEMMA LocksSame == ASSUME NEW r, UNCHANGED lockVars PROVE LocksKept(r)
BY DEF LocksKept, lockVars

\* or the request leaves them,
LEMMA LocksEnds == ASSUME LockOK, RequestOK, NEW r \in Requests, Ends(r) PROVE LocksKept(r)
<1>1. at'[r] = "done" /\ "resource" \in Locks /\ queue' = queue
  BY DEF RequestOK, Ends, Suspends, Locks
<1> QED BY <1>1 DEF LocksKept, Ends

\* or it asks for reload_lock.
LEMMA LocksAcquired ==
    ASSUME LockOK, NEW r \in Requests, Acquires(r, "reload")
    PROVE  LocksKept(r) /\ running' \in {r, None}
<1>0. "reload" \in Locks /\ "resource" \in Locks
  BY DEF Locks
<1>1. CASE holder' = [holder EXCEPT !["reload"] = r] /\ UNCHANGED queue
  BY <1>0, <1>1 DEF LockOK, LocksKept, Acquires
<1>2. CASE queue' = [queue EXCEPT !["reload"] = Append(queue["reload"],
                                                       r)] /\ UNCHANGED holder
  <2>1. queue["reload"] \in Seq(Requests) /\ queue'["reload"] = Append(queue["reload"], r)
    BY <1>0, <1>2 DEF LockOK
  <2>2. \A n \in 1..Len(queue'["reload"]) :
          \/ queue'["reload"][n] = r
          \/ n \in 1..Len(queue["reload"]) /\ queue["reload"][n] = queue'["reload"][n]
    BY <2>1
  <2> QED BY <1>2, <2>2 DEF LocksKept, Acquires
<1> QED BY <1>1, <1>2 DEF Acquires, Lock!Enter

\* The usual step: the request stays where it was sent for.
LEMMA PlainShape ==
    ASSUME Inv, NEW r \in Requests, at[r] \notin {"away", "done"},
           at'[r] \notin {"away", "resource"}, \A s \in Requests \ {r} : at'[s] = at[s],
           UNCHANGED <<req, todo, sources, current, booting, overlapped>>,
           at[r] = "resource" => running = r,
           \A s \in Requests \ {r} : keys'[s] = keys[s] /\ target'[s] = target[s],
           seen' \in {seen, current} \/ (req[r].op = "unsource" /\ seen' = r),
           running' \in {r, None}, LocksKept(r)
    PROVE  Shape(r)
BY DEF Shape, LocksKept, Moves

\* Every step of a request has this shape.
LEMMA ShapeFact == ASSUME Inv, NEW r \in Requests, Progress(r) PROVE Shape(r)
<1>0. RequestOK /\ LockOK /\ PointsOf(r)
  BY InvFact
<1>a. \A f, x : f = [keys EXCEPT ![r] = x] => \A s \in Requests \ {r} : f[s] = keys[s]
  BY <1>0 DEF RequestOK
<1>b. \A f, x : f = [target EXCEPT ![r] = x] => \A s \in Requests \ {r} : f[s] = target[s]
  BY <1>0 DEF RequestOK
<1>c. UNCHANGED lockVars => LocksKept(r)
  BY LocksSame
<1>d. Ends(r) => LocksKept(r)
  BY <1>0, LocksEnds
<1>e. \A x : Continues(r, x) \/ Suspends(r, x) => running' \in {r, None}
  BY DEF Continues, Suspends
<1>1. CASE Refuses(r)
  <2>1. at'[r] = "done" /\ \A s \in Requests \ {r} : at'[s] = at[s]
    BY <1>0, <1>1 DEF RequestOK, Refuses, Ends, Suspends
  <2>2. /\ at[r] = "resource"
        /\ UNCHANGED <<req, todo, sources, current, booting, overlapped>>
        /\ running' \in {r, None} /\ LocksKept(r) /\ (at[r] = "resource" => running = r)
        /\ \A s \in Requests \ {r} : keys'[s] = keys[s] /\ target'[s] = target[s]
        /\ seen' \in {seen, current} \/ (req[r].op = "unsource" /\ seen' = r)
    BY <1>1, <1>d DEF Refuses, Ends, Suspends, Runs, configVars, history
  <2> QED BY <2>1, <2>2, PlainShape
<1>2. CASE StoreCreated(r)
  <2>1. at'[r] = "load" /\ \A s \in Requests \ {r} : at'[s] = at[s]
    BY <1>0, <1>2 DEF RequestOK, StoreCreated, Continues
  <2>2. /\ at[r] = "resource"
        /\ UNCHANGED <<req, todo, sources, current, booting, overlapped>>
        /\ running' \in {r, None} /\ LocksKept(r) /\ (at[r] = "resource" => running = r)
        /\ \A s \in Requests \ {r} : keys'[s] = keys[s] /\ target'[s] = target[s]
        /\ seen' \in {seen, current} \/ (req[r].op = "unsource" /\ seen' = r)
    BY <1>2, <1>c DEF StoreCreated, Continues, Runs, history
  <2> QED BY <2>1, <2>2, PlainShape
<1>3. CASE StoreUpdated(r)
  <2>1. LocksKept(r) /\ running' \in {r, None}
    BY <1>0, <1>3, LocksAcquired DEF StoreUpdated
  <2>2. /\ at'[r] = "reload" /\ \A s \in Requests \ {r} : at'[s] = at[s]
        /\ at[r] = "resource" /\ running = r
        /\ UNCHANGED <<req, todo, keys, target, sources, current, seen, booting,
                       overlapped>>
    BY <1>0, <1>3 DEF RequestOK, StoreUpdated, Acquires, Runs, history
  <2> QED BY <2>1, <2>2, PlainShape
<1>4. CASE BeginDelete(r)
  <2>1. at'[r] = "terminate" /\ \A s \in Requests \ {r} : at'[s] = at[s]
    BY <1>0, <1>4 DEF RequestOK, BeginDelete, Continues
  <2>2. /\ at[r] = "resource"
        /\ UNCHANGED <<req, todo, sources, current, booting, overlapped>>
        /\ running' \in {r, None} /\ LocksKept(r) /\ (at[r] = "resource" => running = r)
        /\ \A s \in Requests \ {r} : keys'[s] = keys[s] /\ target'[s] = target[s]
        /\ seen' \in {seen, current} \/ (req[r].op = "unsource" /\ seen' = r)
    BY <1>4, <1>a, <1>c DEF BeginDelete, Continues, Runs, configVars, history
  <2> QED BY <2>1, <2>2, PlainShape
<1>5. CASE BeginReload(r)
  <2>1. at'[r] = "terminate" /\ \A s \in Requests \ {r} : at'[s] = at[s]
    BY <1>0, <1>5 DEF RequestOK, BeginReload, Continues
  <2>2. /\ at[r] = "reload"
        /\ UNCHANGED <<req, todo, sources, current, booting, overlapped>>
        /\ running' \in {r, None} /\ LocksKept(r) /\ (at[r] = "resource" => running = r)
        /\ \A s \in Requests \ {r} : keys'[s] = keys[s] /\ target'[s] = target[s]
        /\ seen' \in {seen, current} \/ (req[r].op = "unsource" /\ seen' = r)
    BY <1>5, <1>a, <1>c DEF BeginReload, Continues, Runs, configVars, history
  <2> QED BY <2>1, <2>2, PlainShape
<1>6. ASSUME NEW point \in {"terminate", "sweep"}, NEW closing \in Closing,
             NEW next \in {"terminated", "swept"}, Terminates(r, point, closing, next)
      PROVE  Shape(r)
  <2>1. at'[r] \in {next, closing} /\ \A s \in Requests \ {r} : at'[s] = at[s]
    BY <1>0, <1>6 DEF RequestOK, Terminates, Continues, Suspends
  <2>2. /\ \A s \in Requests \ {r} : target'[s] = target[s] /\ keys'[s] = keys[s]
        /\ running' \in {r, None} /\ LocksKept(r)
        /\ at[r] \notin {"away", "done", "resource"}
        /\ UNCHANGED <<req, todo, sources, current, seen, booting, overlapped>>
    BY <1>6, <1>b, <1>c DEF Terminates, Continues, Suspends, Runs, configVars, history
  <2> QED BY <2>1, <2>2, PlainShape DEF Closing
<1>7. ASSUME NEW closing \in Closing, NEW next \in {"terminated", "swept"},
             CloseEnds(r, closing, next)
      PROVE  Shape(r)
  <2>1. at'[r] \in {next, "done"} /\ \A s \in Requests \ {r} : at'[s] = at[s]
    BY <1>0, <1>7 DEF RequestOK, CloseEnds, Continues, Ends, Suspends
  <2>2. /\ \A s \in Requests \ {r} : target'[s] = target[s] /\ keys'[s] = keys[s]
        /\ running' \in {r, None} /\ LocksKept(r)
        /\ at[r] \notin {"away", "done", "resource"}
        /\ UNCHANGED <<req, todo, sources, current, seen, booting, overlapped>>
    BY <1>7, <1>b, <1>c, <1>d DEF CloseEnds, Continues, Ends, Suspends, configVars, Closing
  <2> QED BY <2>1, <2>2, PlainShape
<1>8. CASE CloseFails(r)
  <2>1. at'[r] = "done" /\ \A s \in Requests \ {r} : at'[s] = at[s]
    BY <1>0, <1>8 DEF RequestOK, CloseFails, Ends, Suspends
  <2>2. /\ at[r] \notin {"away", "resource", "done"}
        /\ UNCHANGED <<req, todo, sources, current, booting, overlapped>>
        /\ running' \in {r, None} /\ LocksKept(r) /\ (at[r] = "resource" => running = r)
        /\ \A s \in Requests \ {r} : keys'[s] = keys[s] /\ target'[s] = target[s]
        /\ seen' \in {seen, current} \/ (req[r].op = "unsource" /\ seen' = r)
    BY <1>8, <1>b, <1>d DEF CloseFails, Ends, Suspends, configVars
  <2> QED BY <2>1, <2>2, PlainShape
<1>9. CASE Loads(r)
  <2>1. /\ at'[r] \in {"loaded", "loading", "done"}
        /\ \A s \in Requests \ {r} : at'[s] = at[s]
    BY <1>0, <1>9 DEF RequestOK, Loads, Continues, Ends, Suspends
  <2>2. /\ running' \in {r, None} /\ LocksKept(r) /\ at[r] = "load"
        /\ UNCHANGED <<req, todo, keys, target, sources, current, seen, booting,
                       overlapped>>
    BY <1>9, <1>c, <1>d DEF Loads, Continues, Ends, Suspends, Runs, configVars, lockVars
  <2> QED BY <2>1, <2>2, PlainShape
<1>10. CASE LoadEnds(r)
  <2>1. at'[r] = "loaded" /\ \A s \in Requests \ {r} : at'[s] = at[s]
    BY <1>0, <1>10 DEF RequestOK, LoadEnds, Continues
  <2>2. /\ at[r] = "loading"
        /\ UNCHANGED <<req, todo, sources, current, booting, overlapped>>
        /\ running' \in {r, None} /\ LocksKept(r) /\ (at[r] = "resource" => running = r)
        /\ \A s \in Requests \ {r} : keys'[s] = keys[s] /\ target'[s] = target[s]
        /\ seen' \in {seen, current} \/ (req[r].op = "unsource" /\ seen' = r)
    BY <1>10, <1>c DEF LoadEnds, Continues, configVars
  <2> QED BY <2>1, <2>2, PlainShape
<1>11. CASE LoadFails(r)
  <2>1. at'[r] = "done" /\ \A s \in Requests \ {r} : at'[s] = at[s]
    BY <1>0, <1>11 DEF RequestOK, LoadFails, Ends, Suspends
  <2>2. /\ at[r] = "loading"
        /\ UNCHANGED <<req, todo, sources, current, booting, overlapped>>
        /\ running' \in {r, None} /\ LocksKept(r) /\ (at[r] = "resource" => running = r)
        /\ \A s \in Requests \ {r} : keys'[s] = keys[s] /\ target'[s] = target[s]
        /\ seen' \in {seen, current} \/ (req[r].op = "unsource" /\ seen' = r)
    BY <1>11, <1>d DEF LoadFails, Ends, Suspends, configVars
  <2> QED BY <2>1, <2>2, PlainShape
<1>12. CASE Deleted(r)
  <2>1. at'[r] = "terminate" /\ \A s \in Requests \ {r} : at'[s] = at[s]
    BY <1>0, <1>12 DEF RequestOK, Deleted, Continues
  <2>2. /\ at[r] = "terminated"
        /\ UNCHANGED <<req, todo, sources, current, booting, overlapped>>
        /\ running' \in {r, None} /\ LocksKept(r) /\ (at[r] = "resource" => running = r)
        /\ \A s \in Requests \ {r} : keys'[s] = keys[s] /\ target'[s] = target[s]
        /\ seen' \in {seen, current} \/ (req[r].op = "unsource" /\ seen' = r)
    BY <1>12, <1>a, <1>c DEF Deleted, Continues, Runs
  <2> QED BY <2>1, <2>2, PlainShape
<1>13. CASE DeleteEnds(r)
  <2>1. at'[r] = "done" /\ \A s \in Requests \ {r} : at'[s] = at[s]
    BY <1>0, <1>13 DEF RequestOK, DeleteEnds, Ends, Suspends
  <2>2. /\ at[r] = "terminate"
        /\ UNCHANGED <<req, todo, sources, current, booting, overlapped>>
        /\ running' \in {r, None} /\ LocksKept(r) /\ (at[r] = "resource" => running = r)
        /\ \A s \in Requests \ {r} : keys'[s] = keys[s] /\ target'[s] = target[s]
        /\ seen' \in {seen, current} \/ (req[r].op = "unsource" /\ seen' = r)
    BY <1>13, <1>d DEF DeleteEnds, Ends, Suspends, Runs, history
  <2> QED BY <2>1, <2>2, PlainShape
<1>14. CASE CreateEnds(r)
  <2>1. at'[r] = "done" /\ \A s \in Requests \ {r} : at'[s] = at[s]
    BY <1>0, <1>14 DEF RequestOK, CreateEnds, Ends, Suspends
  <2>2. /\ at[r] = "loaded"
        /\ UNCHANGED <<req, todo, sources, current, booting, overlapped>>
        /\ running' \in {r, None} /\ LocksKept(r) /\ (at[r] = "resource" => running = r)
        /\ \A s \in Requests \ {r} : keys'[s] = keys[s] /\ target'[s] = target[s]
        /\ seen' \in {seen, current} \/ (req[r].op = "unsource" /\ seen' = r)
    BY <1>14, <1>d DEF CreateEnds, Ends, Suspends, Runs, history
  <2> QED BY <2>1, <2>2, PlainShape
<1>15. CASE Reloads(r)
  <2>1. at'[r] = "load" /\ \A s \in Requests \ {r} : at'[s] = at[s]
    BY <1>0, <1>15 DEF RequestOK, Reloads, Continues
  <2>2. /\ at[r] = "terminated"
        /\ UNCHANGED <<req, todo, sources, current, booting, overlapped>>
        /\ running' \in {r, None} /\ LocksKept(r) /\ (at[r] = "resource" => running = r)
        /\ \A s \in Requests \ {r} : keys'[s] = keys[s] /\ target'[s] = target[s]
        /\ seen' \in {seen, current} \/ (req[r].op = "unsource" /\ seen' = r)
    BY <1>15, <1>a, <1>c DEF Reloads, Continues, Runs, configVars, history
  <2> QED BY <2>1, <2>2, PlainShape
<1>16. CASE Synchronizes(r)
  <2>1. at'[r] = "sweep" /\ \A s \in Requests \ {r} : at'[s] = at[s]
    BY <1>0, <1>16 DEF RequestOK, Synchronizes, Continues
  <2>2. /\ at[r] = "loaded"
        /\ UNCHANGED <<req, todo, sources, current, booting, overlapped>>
        /\ running' \in {r, None} /\ LocksKept(r) /\ (at[r] = "resource" => running = r)
        /\ \A s \in Requests \ {r} : keys'[s] = keys[s] /\ target'[s] = target[s]
        /\ seen' \in {seen, current} \/ (req[r].op = "unsource" /\ seen' = r)
    BY <1>16, <1>a, <1>c DEF Synchronizes, Continues, Runs, history
  <2> QED BY <2>1, <2>2, PlainShape
<1>17. CASE SweepsOn(r)
  <2>1. at'[r] = "sweep" /\ \A s \in Requests \ {r} : at'[s] = at[s]
    BY <1>0, <1>17 DEF RequestOK, SweepsOn, Continues
  <2>2. /\ at[r] = "swept" /\ UNCHANGED <<req, todo, sources, current, booting, overlapped>>
        /\ running' \in {r, None} /\ LocksKept(r) /\ (at[r] = "resource" => running = r)
        /\ \A s \in Requests \ {r} : keys'[s] = keys[s] /\ target'[s] = target[s]
        /\ seen' \in {seen, current} \/ (req[r].op = "unsource" /\ seen' = r)
    BY <1>17, <1>a, <1>c DEF SweepsOn, Continues, Runs, configVars, history
  <2> QED BY <2>1, <2>2, PlainShape
<1>18. CASE ReloadEnds(r) /\ todo[r] = <<>>
  <2>1. at'[r] = "done" /\ \A s \in Requests \ {r} : at'[s] = at[s]
    BY <1>0, <1>18 DEF RequestOK, ReloadEnds, Ends, Suspends
  <2>2. /\ at[r] = "sweep" /\ running' \in {r, None} /\ LocksKept(r)
        /\ UNCHANGED <<req, todo, keys, target, sources, current, seen, booting,
                       overlapped>>
    BY <1>18, <1>d DEF ReloadEnds, Ends, Suspends, Runs, configVars
  <2> QED BY <2>1, <2>2, PlainShape
<1>19. CASE ReloadEnds(r) /\ todo[r] # <<>>
  <2>1. at' = [at EXCEPT ![r] = "reload"] /\ at[r] = "sweep" /\ running' \in {r, None}
    BY <1>19 DEF ReloadEnds, Continues, Suspends, Runs
  <2>2. NextReload(r) /\ UNCHANGED <<keys, target, configVars, booting, overlapped>>
    BY <1>19 DEF ReloadEnds
  <2>3. /\ \A s \in Requests \ {r} : req'[s] = req[s] /\ todo'[s] = todo[s]
        /\ req'[r].op = req[r].op /\ req'[r].from = req'[r].id
    <3>1. req[r] \in ReqType /\ todo[r] \in Seq(Ids \X Settings)
      BY <1>0 DEF RequestOK
    <3>2. req'[r] = [req[r] EXCEPT !.id = todo[r][1][1], !.from = todo[r][1][1],
                                   !.new = todo[r][1][2]]
      BY <1>0, <2>2 DEF NextReload, RequestOK
    <3> QED BY <1>0, <2>2, <3>1, <3>2 DEF NextReload, RequestOK, ReqType
  <2>4. Moves(r) /\ at'[r] = "reload"
    BY <1>0, <2>1, <2>2, <2>3, MovesFact
  <2>5. LocksKept(r)
    <3>1. CASE UNCHANGED lockVars
      BY <1>c, <3>1
    <3>2. CASE /\ holder' = [holder EXCEPT !["reload"] = None]
               /\ queue' = [queue EXCEPT !["reload"] = Append(@, r)]
      <4>1. "reload" \in Locks /\ "resource" \in Locks
        BY DEF Locks
      <4>2. queue["reload"] \in Seq(Requests) /\ queue'["reload"] = Append(queue["reload"],
                                                                           r)
        BY <1>0, <3>2, <4>1 DEF LockOK
      <4>3. \A n \in 1..Len(queue'["reload"]) :
              \/ queue'["reload"][n] = r
              \/ n \in 1..Len(queue["reload"]) /\ queue["reload"][n] = queue'["reload"][n]
        BY <4>2
      <4> QED BY <1>0, <3>2, <4>1, <4>3 DEF LocksKept, LockOK
    <3> QED BY <1>19, <3>1, <3>2 DEF ReloadEnds
  <2> QED BY <1>19, <2>1, <2>2, <2>3, <2>4, <2>5 DEF Shape, LocksKept, configVars
<1> QED BY <1>1, <1>2, <1>3, <1>4, <1>5, <1>6, <1>7, <1>8, <1>9, <1>10, <1>11, <1>12, <1>13,
           <1>14, <1>15, <1>16, <1>17, <1>18, <1>19 DEF Progress, Closing

\* What the coming of a request leaves of the rest.
Arrives(r) ==
    /\ at[r] = "away" /\ running' \in {r, None}
    /\ \/ at'[r] = "resource" /\ req'[r].op # "edit"
       \/ at'[r] \in {"reload", "done"} /\ req'[r].op = "edit"
    /\ \A s \in Requests \ {r} : at'[s] = at[s] /\ req'[s] = req[s] /\ todo'[s] = todo[s]
    /\ req'[r].op # "none" /\ (req'[r].op = "create" => req'[r].from = req'[r].id)
    /\ req'[r].op # "edit" => todo'[r] = todo[r]
    /\ overlapped' = (overlapped \/ IF EditsSource(r)' THEN Active # {}
                                    ELSE \E s \in Active : EditsSource(s))
    /\ holder["resource"] # None => holder'["resource"] = holder["resource"]
    /\ at'[r] = "resource" /\ running' = r => holder'["resource"] = r
    /\ \A n \in 1..Len(queue'["reload"]) :
        \/ queue'["reload"][n] = r /\ at'[r] # "resource"
        \/ \E m \in 1..Len(queue["reload"]) : queue["reload"][m] = queue'["reload"][n]

\* A request that begins with resource_lock.
LEMMA ComesShape ==
    ASSUME Inv, NEW r \in Requests, NEW id, NEW from, NEW new,
           NEW op \in {"create", "update", "delete", "unsource"},
           Comes(r, op, id, from, new), op = "create" => id = from,
           Acquires(r, "resource"), todo' = todo
    PROVE  Arrives(r) /\ req'[r].op = op /\ at'[r] = "resource"
<1>1. RequestOK /\ LockOK /\ "resource" \in Locks /\ "reload" \in Locks
  BY InvFact DEF Locks
<1>2. /\ at[r] = "away"
      /\ req'[r] = [op |-> op, id |-> id, from |-> from, new |-> new]
      /\ \A s \in Requests \ {r} : req'[s] = req[s]
  BY <1>1 DEF Comes, RequestOK
<1>3. at'[r] = "resource" /\ \A s \in Requests \ {r} : at'[s] = at[s]
  BY <1>1 DEF Acquires, RequestOK
<1>4. EditsSource(r)' <=> op \in {"edit", "unsource"}
  BY <1>2 DEF EditsSource
<1>5. overlapped' = (overlapped \/ IF EditsSource(r)' THEN Active # {}
                                   ELSE \E s \in Active : EditsSource(s))
  BY <1>4 DEF Comes
<1>6. /\ running' \in {r, None}
      /\ holder["resource"] # None => holder'["resource"] = holder["resource"]
      /\ running' = r => holder'["resource"] = r
      /\ queue'["reload"] = queue["reload"]
  <2>1. None # r
    BY ProviderManagerAssumption DEF Writers
  <2>2. CASE holder["resource"] = None /\ queue["resource"] = <<>>
    BY <1>1, <2>2 DEF Acquires, Lock!Enter, LockOK
  <2>3. CASE ~(holder["resource"] = None /\ queue["resource"] = <<>>)
    BY <1>1, <2>1, <2>3 DEF Acquires, Lock!Enter, LockOK
  <2> QED BY <2>2, <2>3
<1> QED BY <1>2, <1>3, <1>5, <1>6 DEF Arrives

\* An edit of the source, which begins with reload_lock if anything.
LEMMA EditShape ==
    ASSUME Inv, NEW r \in Requests, EditSource(r)
    PROVE  Arrives(r) /\ req'[r].op = "edit"
<1>1. RequestOK /\ LockOK /\ "resource" \in Locks /\ "reload" \in Locks
  BY InvFact DEF Locks
<1>2. PICK id, from, new : Comes(r, "edit", id, from, new)
  BY DEF EditSource
<1>3. /\ at[r] = "away"
      /\ req'[r] = [op |-> "edit", id |-> id, from |-> from, new |-> new]
      /\ \A s \in Requests \ {r} : req'[s] = req[s]
  BY <1>1, <1>2 DEF Comes, RequestOK
<1>4. /\ EditsSource(r)' /\ overlapped' = (overlapped \/ Active # {})
  BY <1>2, <1>3 DEF EditsSource, Comes
<1>5. \/ Acquires(r, "reload") /\ \E t : todo' = [todo EXCEPT ![r] = t]
      \/ Suspends(r, "done") /\ UNCHANGED <<todo, lockVars>>
  BY DEF EditSource
<1>6. CASE Acquires(r, "reload") /\ \E t : todo' = [todo EXCEPT ![r] = t]
  <2>1. LocksKept(r) /\ running' \in {r, None}
    BY <1>1, <1>6, LocksAcquired
  <2>2. at'[r] = "reload" /\ \A s \in Requests \ {r} : at'[s] = at[s] /\ todo'[s] = todo[s]
    BY <1>1, <1>6 DEF Acquires, RequestOK
  <2> QED BY <1>3, <1>4, <2>1, <2>2 DEF Arrives, LocksKept
<1>7. CASE Suspends(r, "done") /\ UNCHANGED <<todo, lockVars>>
  <2>1. at'[r] = "done" /\ running' = None /\ \A s \in Requests \ {r} : at'[s] = at[s]
    BY <1>1, <1>7 DEF Suspends, RequestOK
  <2> QED BY <1>3, <1>4, <1>7, <2>1 DEF Arrives, lockVars
<1> QED BY <1>5, <1>6, <1>7

\* Every request that comes has this shape.
LEMMA RequestShape ==
    ASSUME Inv, NEW r \in Requests, Request(r)
    PROVE  Arrives(r) /\ (EditSource(r) \/ at'[r] = "resource")
<1>1. ASSUME NEW p \in Ids, NEW enable \in BOOLEAN, Create(r, p, enable)
      PROVE  Arrives(r) /\ at'[r] = "resource"
  BY <1>1, ComesShape DEF Create
<1>2. ASSUME NEW p \in Ids, NEW q \in Ids, NEW enable \in BOOLEAN, Update(r, p, q, enable)
      PROVE  Arrives(r) /\ at'[r] = "resource"
  BY <1>2, ComesShape DEF Update
<1>3. ASSUME NEW p \in Ids, Switch(r, p) PROVE Arrives(r) /\ at'[r] = "resource"
  <2>1. PICK new : Comes(r, "update", p, p, new)
    BY <1>3 DEF Switch
  <2> QED BY <1>3, <2>1, ComesShape DEF Switch
<1>4. ASSUME NEW p \in Ids, Delete(r, p) PROVE Arrives(r) /\ at'[r] = "resource"
  BY <1>4, ComesShape DEF Delete
<1>5. CASE Unsource(r)
  BY <1>5, ComesShape DEF Unsource
<1> QED BY <1>1, <1>2, <1>3, <1>4, <1>5, EditShape DEF Request

\* What a request that comes leaves of each part of Base:
LEMMA ArrivesSent == ASSUME Inv, SentInv, NEW r \in Requests, Arrives(r) PROVE SentInv'
<1>1. todo[r] = <<>>
  BY InvFact DEF PointsOf, Arrives
<1> QED BY <1>1 DEF SentInv, Arrives

\* it has not got further than the lock it asks for,
LEMMA ArrivesLock == ASSUME Inv, LockInv, NEW r \in Requests, Arrives(r) PROVE LockInv'
<1>0. None \notin Requests
  BY ProviderManagerAssumption DEF Writers
<1>1. ASSUME NEW s \in Requests,
             (Working(s)' /\ req'[s].op # "edit") \/ (running' = s /\ at'[s] = "resource")
      PROVE  holder'["resource"] = s
  <2>1. CASE s = r
    BY <1>1, <2>1 DEF Arrives, Working
  <2>2. CASE s # r
    <3>1. Working(s) /\ req[s].op # "edit"
      BY <1>0, <1>1, <2>2 DEF Arrives, Working
    <3> QED BY <1>0, <3>1 DEF LockInv, Arrives
  <2> QED BY <2>1, <2>2
<1>2. ASSUME NEW n \in 1..Len(queue'["reload"])
      PROVE  at'[queue'["reload"][n]] \notin {"away", "resource"}
  <2>1. CASE queue'["reload"][n] = r /\ at'[r] # "resource"
    BY <2>1 DEF Arrives
  <2>2. ASSUME NEW m \in 1..Len(queue["reload"]), queue["reload"][m] = queue'["reload"][n]
        PROVE  at'[queue'["reload"][n]] \notin {"away", "resource"}
    <3>1. queue["reload"][m] \in Requests /\ at[queue["reload"][m]] \notin {"away",
                                                                            "resource"}
      <4>1. queue["reload"] \in Seq(Requests)
        BY InvFact DEF LockOK, Locks
      <4> QED BY <4>1 DEF LockInv
    <3> QED BY <2>2, <3>1 DEF Arrives
  <2> QED BY <2>1, <2>2 DEF Arrives
<1> QED BY <1>1, <1>2 DEF LockInv

\* and an edit that meets another request is marked as overlapping.
LEMMA ArrivesAlone == ASSUME Inv, AloneInv, NEW r \in Requests, Arrives(r) PROVE AloneInv'
<1> SUFFICES ASSUME ~overlapped', NEW s \in Active', NEW t \in Active', EditsSource(s)'
             PROVE  t = s
  BY DEF AloneInv
<1>1. /\ ~overlapped
      /\ \A u \in Active' : u # r => u \in Active /\ (EditsSource(u)' <=> EditsSource(u))
  BY DEF Arrives, Active, EditsSource
<1>2. CASE s = r
  BY <1>1, <1>2 DEF Arrives
<1>3. CASE s # r
  <2>1. s \in Active /\ EditsSource(s)
    BY <1>1, <1>3
  <2>2. t # r
    BY <2>1 DEF Arrives
  <2> QED BY <1>1, <2>1, <2>2 DEF AloneInv
<1> QED BY <1>2, <1>3

\* What a step of a request leaves of each part of Base:
LEMMA ShapeSent == ASSUME SentInv, NEW r \in Requests, Shape(r) PROVE SentInv'
BY DEF SentInv, Shape, Moves

\* it works only while it holds resource_lock,
LEMMA ShapeLock == ASSUME Inv, LockInv, NEW r \in Requests, Shape(r) PROVE LockInv'
<1>0. None \notin Requests
  BY ProviderManagerAssumption DEF Writers
<1>1. ASSUME NEW s \in Requests,
             (Working(s)' /\ req'[s].op # "edit") \/ (running' = s /\ at'[s] = "resource")
      PROVE  holder'["resource"] = s
  <2>1. CASE s = r
    BY <1>1, <2>1 DEF Shape, Working, LockInv
  <2>2. CASE s # r
    <3>1. Working(s) /\ req[s].op # "edit"
      BY <1>0, <1>1, <2>2 DEF Shape, Moves, Working
    <3> QED BY <2>2, <3>1 DEF LockInv, Shape
  <2> QED BY <2>1, <2>2
<1>2. ASSUME NEW n \in 1..Len(queue'["reload"])
      PROVE  at'[queue'["reload"][n]] \notin {"away", "resource"}
  <2>1. CASE queue'["reload"][n] = r
    BY <2>1 DEF Shape
  <2>2. ASSUME NEW m \in 1..Len(queue["reload"]), queue["reload"][m] = queue'["reload"][n]
        PROVE  at'[queue'["reload"][n]] \notin {"away", "resource"}
    <3>1. queue["reload"][m] \in Requests /\ at[queue["reload"][m]] \notin {"away",
                                                                            "resource"}
      <4>1. queue["reload"] \in Seq(Requests)
        BY InvFact DEF LockOK, Locks
      <4> QED BY <4>1 DEF LockInv
    <3> QED BY <2>2, <3>1 DEF Shape, Moves
  <2> QED BY <2>1, <2>2 DEF Shape
<1> QED BY <1>1, <1>2 DEF LockInv

\* nobody joins the requests under way,
LEMMA ShapeAlone ==
    ASSUME NEW r \in Requests, Shape(r)
    PROVE  /\ AloneInv => AloneInv'
           /\ Active' \subseteq Active
           /\ \A s \in Requests : req'[s].op = req[s].op /\ (EditsSource(s)' <=> EditsSource(s))
<1>1. /\ Active' \subseteq Active
      /\ \A s \in Requests : req'[s].op = req[s].op /\ (EditsSource(s)' <=> EditsSource(s))
  BY DEF Active, EditsSource, Shape, Moves
<1>2. AloneInv => AloneInv'
  BY <1>1 DEF AloneInv, Shape, Active
<1> QED BY <1>1, <1>2

\* and the manager looks at another list of sources only if it is the one there is.
LEMMA ShapeSource == ASSUME Inv, SourceInv, NEW r \in Requests, Shape(r) PROVE SourceInv'
<1>1. \A s \in Requests : at'[s] = "away" => at[s] = "away"
  BY DEF Shape, Moves
<1>2. source' = source /\ current' = current /\ sources' = sources
  BY DEF Shape, source
<1>3. /\ Active' \subseteq Active /\ r \in Active
      /\ \A s \in Requests : req'[s].op = req[s].op
  BY ShapeAlone DEF Shape, Active
<1>4. ASSUME ~overlapped, source # None PROVE seen' = current
  BY <1>3, <1>4 DEF Shape, SourceInv
<1> QED BY <1>1, <1>2, <1>3, <1>4 DEF SourceInv, Shape, Active

\* A request that comes may write the source, or take it away.
LEMMA RequestSource ==
    ASSUME Inv, SourceInv, NEW r \in Requests, Request(r)
    PROVE  SourceInv'
<1>0. Arrives(r) /\ RequestOK /\ ConfigOK /\ r \in Writers
  BY RequestShape, InvFact DEF Writers
<1>1. \A s \in Requests \ {r} : at'[s] = at[s] /\ req'[s] = req[s]
  BY <1>0 DEF Arrives
<1>2. at[r] = "away" /\ at'[r] # "away" /\ (overlapped => overlapped')
      /\ (EditsSource(r)' /\ ~overlapped' => Active = {})
  BY <1>0 DEF Arrives
<1>3. \A s \in Active' : s \in Active \cup {r}
  BY <1>1 DEF Active
<1>4. ASSUME UNCHANGED configVars, req'[r].op \in {"create", "update", "delete"}
      PROVE  SourceInv'
  <2>1. source' = source /\ UNCHANGED <<sources, current, seen>>
    BY <1>4 DEF configVars, source
  <2> QED BY <1>1, <1>2, <1>3, <1>4, <2>1 DEF SourceInv, Active
<1>5. CASE Unsource(r)
  <2>1. current' = r /\ UNCHANGED <<sources, seen>>
    BY <1>5 DEF Unsource
  <2>2. EditsSource(r)'
    <3>1. req'[r].op = "unsource"
      BY <1>0, <1>5 DEF Unsource, Comes, RequestOK
    <3> QED BY <3>1 DEF EditsSource
  <2>3. source' = None
    BY <1>2, <2>1 DEF SourceInv, source
  <2> QED BY <1>1, <1>2, <1>3, <2>1, <2>2, <2>3 DEF SourceInv, Active
<1>6. CASE EditSource(r)
  <2>1. /\ sources' = [sources EXCEPT ![current] = r] /\ seen' = current
        /\ current' = current
    BY <1>6 DEF EditSource
  <2>2. req'[r].op = "edit"
    BY <1>6, EditShape
  <2>3. EditsSource(r)'
    BY <2>2 DEF EditsSource
  <2>4. \A s \in Requests : s # current => sources'[s] = sources[s]
    BY <1>0, <2>1 DEF ConfigOK, Writers
  <2> QED BY <1>1, <1>2, <1>3, <2>1, <2>2, <2>3, <2>4 DEF SourceInv, Active
<1>7. ASSUME NEW op \in {"create", "update", "delete"}, NEW id, NEW from, NEW new,
             Comes(r, op, id, from, new)
      PROVE  req'[r].op = op
  BY <1>0, <1>7 DEF Comes, RequestOK
<1>8. CASE (\E p \in Ids, enable \in BOOLEAN : Create(r, p, enable))
           \/ (\E p, q \in Ids, enable \in BOOLEAN : Update(r, p, q, enable))
           \/ (\E p \in Ids : Delete(r, p))
  BY <1>4, <1>7, <1>8 DEF Create, Update, Delete
<1>9. ASSUME NEW p \in Ids, Switch(r, p) PROVE SourceInv'
  <2>1. PICK new : Comes(r, "update", p, p, new)
    BY <1>9 DEF Switch
  <2> QED BY <1>4, <1>7, <1>9, <2>1 DEF Switch
<1> QED BY <1>5, <1>6, <1>8, <1>9 DEF Request

----------------------------------------------------------------------------
(* What the steps do to the instances                                      *)

\* What the begin of a close does.
LEMMA TerminatesEffect ==
    ASSUME Inv, NEW r \in Requests, NEW point, NEW closing, NEW next,
           Terminates(r, point, closing, next)
    PROVE  LET k == Head(keys[r])
           IN /\ at[r] = point /\ k \in Ids /\ keys[r] # <<>> /\ keys[r] \in Seq(Ids)
              /\ k \in Elements(keys[r])
              /\ UNCHANGED <<configVars, instMap, req, todo, keys, booting, history>>
              /\ \/ /\ instMap[k] = None /\ at'[r] = next
                    /\ inst' = inst /\ insts' = insts /\ target' = target
                 \/ /\ instMap[k] \in Instances /\ instMap[k][2] = k /\ at'[r] = closing
                    /\ target'[r] = instMap[k] /\ inst'[instMap[k]].at = "closing"
                    /\ \A j \in Instances \ {instMap[k]} : inst'[j] = inst[j]
                    /\ Elements(insts') = Elements(insts) \ {instMap[k]}
<1> DEFINE k == Head(keys[r])
           i == instMap[k]
<1>0. RequestOK /\ InstOK /\ KnownInv
  BY InvFact
<1>1. /\ at[r] = point /\ keys[r] # <<>>
      /\ UNCHANGED <<configVars, instMap, req, todo, keys, booting, history>>
  BY DEF Terminates, Runs, instVars
<1>2. k \in Ids /\ keys[r] \in Seq(Ids) /\ k \in Elements(keys[r])
  <2>1. keys[r] \in Seq(Ids)
    BY <1>0 DEF RequestOK
  <2> QED BY <1>1, <2>1 DEF Elements
<1>3. CASE i = None
  BY <1>0, <1>1, <1>2, <1>3 DEF Terminates, Continues, instVars, RequestOK
<1>4. CASE i # None
  <2>1. i \in Instances /\ i[2] = k
    BY <1>0, <1>2, <1>4 DEF InstOK, KnownInv
  <2>2. at'[r] = closing /\ target'[r] = i
    BY <1>0, <1>4 DEF Terminates, Suspends, RequestOK
  <2>3. inst' = [inst EXCEPT ![i].at = "closing"] /\ insts' = RemoveFirst(insts, i)
    BY <1>4 DEF Terminates
  <2>4. Elements(insts') = Elements(insts) \ {i}
    BY <1>0, <2>3, RemoveFirstFact DEF InstOK
  <2>5. inst'[i].at = "closing" /\ \A j \in Instances \ {i} : inst'[j] = inst[j]
    BY <1>0, <2>1, <2>3, MarkFact DEF InstStates
  <2> QED BY <1>1, <1>2, <2>1, <2>2, <2>4, <2>5
<1> QED BY <1>3, <1>4

\* What the end of a close does, while the id still has the instance that was closed.
LEMMA CloseEndsEffect ==
    ASSUME Inv, NEW r \in Requests, NEW closing \in Closing, NEW next,
           CloseEnds(r, closing, next)
    PROVE  LET k == Head(keys[r])
           IN /\ at[r] = closing /\ k \in Ids /\ k \in Elements(keys[r])
              /\ target[r] \in Instances /\ target[r][2] = k /\ inst[target[r]].at \in Left
              /\ UNCHANGED <<configVars, insts, req, todo, keys, booting, leaked,
                             overlapped>>
              /\ inst'[target[r]].at = "closed"
              /\ \A j \in Instances \ {target[r]} : inst'[j] = inst[j]
              /\ instMap[k] # None =>
                    /\ instMap'[k] = None /\ at'[r] = next /\ failed' = failed
                    /\ \A p \in Ids \ {k} : instMap'[p] = instMap[p]
<1> DEFINE k == Head(keys[r])
<1>0. RequestOK /\ InstOK /\ TargetOf(r) /\ PointsOf(r)
  BY InvFact
<1>1. /\ at[r] = closing
      /\ UNCHANGED <<configVars, insts, req, todo, keys, booting, leaked, overlapped>>
      /\ inst' = [inst EXCEPT ![target[r]].at = "closed"]
  BY DEF CloseEnds
<1>2. k \in Ids /\ k \in Elements(keys[r])
  <2>1. keys[r] \in Seq(Ids) /\ keys[r] # <<>>
    BY <1>0, <1>1 DEF RequestOK, PointsOf
  <2> QED BY <2>1 DEF Elements
<1>3. target[r] \in Instances /\ target[r][2] = k /\ inst[target[r]].at \in Left
  BY <1>0, <1>1 DEF TargetOf
<1>4. inst'[target[r]].at = "closed" /\ \A j \in Instances \ {target[r]} : inst'[j] = inst[j]
  BY <1>0, <1>1, <1>3, MarkFact DEF InstStates
<1>5. ASSUME instMap[k] # None
      PROVE  /\ instMap'[k] = None /\ at'[r] = next /\ failed' = failed
             /\ \A p \in Ids \ {k} : instMap'[p] = instMap[p]
  BY <1>0, <1>2, <1>5 DEF CloseEnds, Continues, RequestOK, InstOK
<1> QED BY <1>1, <1>2, <1>3, <1>4, <1>5

\* What a close that fails does.
LEMMA CloseFailsEffect ==
    ASSUME Inv, NEW r \in Requests, CloseFails(r)
    PROVE  LET k == Head(keys[r])
           IN /\ at[r] \in Closing /\ at'[r] = "done" /\ k \in Ids /\ k \in Elements(keys[r])
              /\ target[r] \in Instances /\ target[r][2] = k /\ inst[target[r]].at \in Left
              /\ UNCHANGED <<configVars, instMap, insts, req, todo, keys, booting, leaked,
                             overlapped>>
              /\ failed' = failed \cup Spoils(r)
              /\ inst'[target[r]].at = "broken"
              /\ \A j \in Instances \ {target[r]} : inst'[j] = inst[j]
<1> DEFINE k == Head(keys[r])
<1>0. RequestOK /\ InstOK /\ TargetOf(r) /\ PointsOf(r)
  BY InvFact
<1>1. /\ at[r] \in Closing /\ failed' = failed \cup Spoils(r)
      /\ UNCHANGED <<configVars, instMap, insts, req, todo, keys, booting, leaked,
                     overlapped>>
      /\ inst' = [inst EXCEPT ![target[r]].at = "broken"] /\ at'[r] = "done"
  BY <1>0 DEF CloseFails, Closing, Ends, Suspends, RequestOK
<1>2. k \in Ids /\ k \in Elements(keys[r])
  <2>1. keys[r] \in Seq(Ids) /\ keys[r] # <<>>
    BY <1>0, <1>1 DEF RequestOK, PointsOf
  <2> QED BY <2>1 DEF Elements
<1>3. target[r] \in Instances /\ target[r][2] = k /\ inst[target[r]].at \in Left
  BY <1>0, <1>1 DEF TargetOf
<1>4. inst'[target[r]].at = "broken" /\ \A j \in Instances \ {target[r]} : inst'[j] = inst[j]
  BY <1>0, <1>1, <1>3, MarkFact DEF InstStates
<1> QED BY <1>1, <1>2, <1>3, <1>4

\* What the begin of a load does.
LEMMA LoadsEffect ==
    ASSUME Inv, NEW r \in Requests, Loads(r)
    PROVE  LET p == req[r].id
           IN /\ at[r] = "load" /\ p \in Ids /\ <<r, p>> \in Instances
              /\ inst[<<r, p>>].at = "none"
              /\ UNCHANGED <<configVars, instMap, insts, req, todo, keys, booting, leaked,
                             overlapped>>
              /\ \/ /\ at'[r] = "loaded" /\ inst' = inst
                    /\ \/ ~req[r].new.enable /\ failed' = failed
                       \/ req[r].new.enable /\ failed' = failed \cup {p}
                 \/ at'[r] = "done" /\ inst' = inst /\ failed' = failed \cup Spoils(r)
                 \/ /\ at'[r] = "loading" /\ req[r].new.enable /\ failed' = failed
                    /\ inst'[<<r, p>>].at = "loading"
                    /\ inst'[<<r, p>>].own = req[r].new.own
                    /\ p \in Sourced => inst'[<<r, p>>].src = merged
                    /\ \A j \in Instances \ {<<r, p>>} : inst'[j] = inst[j]
<1> DEFINE p == req[r].id
           i == <<r, p>>
<1>0. RequestOK /\ InstOK /\ PointsOf(r) /\ FreshOf(r)
  BY InvFact
<1>1. /\ at[r] = "load"
      /\ UNCHANGED <<configVars, instMap, insts, req, todo, keys, booting, leaked,
                     overlapped>>
  BY DEF Loads, Runs
<1>2. p \in Ids /\ i \in Instances /\ inst[i].at = "none"
  BY <1>0, <1>1, InvFact DEF PointsOf, FreshOf, BeforeLoad, Unmade
<1>3. CASE \/ ~req[r].new.enable /\ Continues(r,
                                              "loaded") /\ inst' = inst /\ failed' = failed
           \/ /\ req[r].new.enable /\ Continues(r, "loaded") /\ inst' = inst
              /\ failed' = failed \cup {p}
  BY <1>0, <1>1, <1>2, <1>3 DEF Continues, RequestOK
<1>4. CASE Ends(r) /\ inst' = inst /\ failed' = failed \cup Spoils(r)
  BY <1>0, <1>1, <1>2, <1>4 DEF Ends, Suspends, RequestOK
<1>5. CASE /\ req[r].new.enable /\ Suspends(r, "loading") /\ failed' = failed
           /\ inst' = [inst EXCEPT ![<<r, p>>] =
                            [at |-> "loading", own |-> req[r].new.own,
                             src |-> IF p \in Sourced THEN merged ELSE None]]
  <2>1. at'[r] = "loading"
    BY <1>0, <1>5 DEF Suspends, RequestOK
  <2>2. /\ inst'[i] = [at |-> "loading", own |-> req[r].new.own,
                       src |-> IF p \in Sourced THEN merged ELSE None]
        /\ \A j \in Instances \ {i} : inst'[j] = inst[j]
    BY <1>0, <1>2, <1>5 DEF InstOK
  <2> QED BY <1>1, <1>2, <1>5, <2>1, <2>2
<1> QED BY <1>3, <1>4, <1>5 DEF Loads, lockVars

\* What the end of a load does.
LEMMA LoadEndsEffect ==
    ASSUME Inv, NEW r \in Requests, LoadEnds(r)
    PROVE  LET p == req[r].id
               i == <<r, p>>
           IN /\ at[r] = "loading" /\ at'[r] = "loaded" /\ p \in Ids /\ i \in Instances
              /\ inst[i].at = "loading"
              /\ UNCHANGED <<configVars, req, todo, keys, booting, failed, overlapped>>
              /\ inst'[i].at = "open" /\ inst'[i].own = inst[i].own
              /\ inst'[i].src = inst[i].src
              /\ \A j \in Instances \ {i} : inst'[j] = inst[j]
              /\ instMap'[p] = i /\ \A q \in Ids \ {p} : instMap'[q] = instMap[q]
              /\ Elements(insts) \cup {i} \subseteq Elements(insts')
              /\ leaked' = leaked \cup ({instMap[p]} \ {None})
<1> DEFINE p == req[r].id
           i == <<r, p>>
<1>0. RequestOK /\ InstOK /\ PointsOf(r) /\ FreshOf(r)
  BY InvFact
<1>1. /\ at[r] = "loading" /\ at'[r] = "loaded"
      /\ UNCHANGED <<configVars, req, todo, keys, booting, failed, overlapped>>
      /\ inst' = [inst EXCEPT ![i].at = "open"]
      /\ leaked' = leaked \cup ({instMap[p]} \ {None})
  BY <1>0 DEF LoadEnds, Continues, RequestOK
<1>2. p \in Ids /\ i \in Instances /\ inst[i].at = "loading" /\ i[2] = p
  BY <1>0, <1>1, InvFact DEF PointsOf, FreshOf
<1>3. /\ inst'[i].at = "open" /\ inst'[i].own = inst[i].own /\ inst'[i].src = inst[i].src
      /\ \A j \in Instances \ {i} : inst'[j] = inst[j]
  BY <1>0, <1>1, <1>2, MarkFact DEF InstStates
<1>4. instMap' = [instMap EXCEPT ![p] = i] /\ insts' = Append(insts, i)
  BY DEF LoadEnds, AddInstance
<1>5. instMap'[p] = i /\ \A q \in Ids \ {p} : instMap'[q] = instMap[q]
  BY <1>0, <1>2, <1>4 DEF InstOK
<1>6. Elements(insts) \cup {i} \subseteq Elements(insts')
  <2>1. insts \in Seq(Instances)
    BY <1>0 DEF InstOK
  <2>2. /\ \A n \in 1..Len(insts) : n \in 1..Len(insts') /\ insts'[n] = insts[n]
        /\ Len(insts) + 1 \in 1..Len(insts') /\ insts'[Len(insts) + 1] = i
    BY <1>2, <1>4, <2>1
  <2> QED BY <2>2 DEF Elements
<1> QED BY <1>1, <1>2, <1>3, <1>5, <1>6

\* What a load that fails does.
LEMMA LoadFailsEffect ==
    ASSUME Inv, NEW r \in Requests, LoadFails(r)
    PROVE  LET i == <<r, req[r].id>>
           IN /\ at[r] = "loading" /\ at'[r] = "done" /\ i \in Instances
              /\ inst[i].at = "loading"
              /\ UNCHANGED <<configVars, instMap, insts, req, todo, keys, booting, leaked,
                             overlapped>>
              /\ failed' = failed \cup Spoils(r)
              /\ inst'[i].at = "broken"
              /\ \A j \in Instances \ {i} : inst'[j] = inst[j]
<1> DEFINE i == <<r, req[r].id>>
<1>0. RequestOK /\ InstOK /\ PointsOf(r) /\ FreshOf(r)
  BY InvFact
<1>1. /\ at[r] = "loading" /\ at'[r] = "done" /\ failed' = failed \cup Spoils(r)
      /\ UNCHANGED <<configVars, instMap, insts, req, todo, keys, booting, leaked,
                     overlapped>>
      /\ inst' = [inst EXCEPT ![i].at = "broken"]
  BY <1>0 DEF LoadFails, Ends, Suspends, RequestOK
<1>2. i \in Instances /\ inst[i].at = "loading"
  BY <1>0, <1>1, InvFact DEF PointsOf, FreshOf
<1>3. inst'[i].at = "broken" /\ \A j \in Instances \ {i} : inst'[j] = inst[j]
  BY <1>0, <1>1, <1>2, MarkFact DEF InstStates
<1> QED BY <1>1, <1>2, <1>3

\* An instance is loading only while its request is.
LEMMA LoadingStep ==
    ASSUME Inv, LoadingInv, NEW r \in Requests, Progress(r)
    PROVE  LoadingInv'
<1>0. Shape(r) /\ Moves(r)
  BY ShapeFact DEF Shape
<1>1. SUFFICES \A i \in Instances : inst'[i].at = "loading" =>
                 \/ inst[i].at = "loading" /\ i[1] # r
                 \/ i = <<r, req[r].id>> /\ at'[r] = "loading" /\ req'[r].id = req[r].id
  BY <1>0 DEF LoadingInv, Moves
<1>2. \A i \in Instances : inst[i].at = "loading" /\ i[1] = r =>
        at[r] = "loading" /\ i = <<r, req[r].id>>
  BY DEF LoadingInv, Instances
<1>3. ASSUME inst' = inst, at[r] # "loading"
      PROVE  \A i \in Instances : inst'[i].at = "loading" => inst[i].at = "loading" /\ i[1] # r
  BY <1>2, <1>3
<1>4. CASE \/ Refuses(r) \/ StoreCreated(r) \/ StoreUpdated(r) \/ BeginDelete(r)
           \/ BeginReload(r) \/ Deleted(r) \/ DeleteEnds(r) \/ CreateEnds(r) \/ Reloads(r)
           \/ Synchronizes(r) \/ SweepsOn(r) \/ ReloadEnds(r)
  BY <1>3, <1>4 DEF Refuses, StoreCreated, StoreUpdated, BeginDelete, BeginReload, Deleted,
       DeleteEnds, CreateEnds, Reloads, Synchronizes, SweepsOn, ReloadEnds, Runs, instVars
<1>5. ASSUME NEW point \in {"terminate", "sweep"}, NEW closing, NEW next,
             Terminates(r, point, closing, next)
      PROVE  \A i \in Instances : inst'[i].at = "loading" => inst[i].at = "loading" /\ i[1] # r
  BY <1>2, <1>5, TerminatesEffect
<1>6. ASSUME NEW closing \in Closing, NEW next, CloseEnds(r, closing, next)
      PROVE  \A i \in Instances : inst'[i].at = "loading" => inst[i].at = "loading" /\ i[1] # r
  BY <1>2, <1>6, CloseEndsEffect DEF Closing
<1>7. CASE CloseFails(r)
  BY <1>2, <1>7, CloseFailsEffect DEF Closing
<1>8. CASE Loads(r)
  <2>1. /\ at[r] = "load" /\ req' = req
        /\ \/ inst' = inst
           \/ /\ at'[r] = "loading"
              /\ \A j \in Instances \ {<<r, req[r].id>>} : inst'[j] = inst[j]
    BY <1>8, LoadsEffect
  <2> QED BY <1>2, <2>1
<1>9. CASE LoadEnds(r)
  <2>1. /\ inst'[<<r, req[r].id>>].at = "open"
        /\ \A j \in Instances \ {<<r, req[r].id>>} : inst'[j] = inst[j]
    BY <1>9, LoadEndsEffect
  <2> QED BY <1>2, <2>1
<1>10. CASE LoadFails(r)
  BY <1>2, <1>10, LoadFailsEffect
<1> QED BY <1>4, <1>5, <1>6, <1>7, <1>8, <1>9, <1>10 DEF Progress, Closing

\* A request that comes touches no instance.
LEMMA RequestQuiet ==
    ASSUME NEW r \in Requests, Request(r)
    PROVE  /\ UNCHANGED <<config, instVars, booting, leaked, keys, target>> /\ Idle
           /\ ~EditSource(r) => UNCHANGED <<sources,
                                            failed>> /\ (current' = current \/ current' = r)
BY DEF Request, Create, Update, Switch, Delete, Unsource, EditSource, Comes, configVars

\* Nor does it load one.
LEMMA LoadingRequest ==
    ASSUME Inv, LoadingInv, NEW r \in Requests, Request(r)
    PROVE  LoadingInv'
<1>1. Arrives(r) /\ inst' = inst
  BY RequestShape, RequestQuiet DEF instVars
<1> QED BY <1>1 DEF LoadingInv, Arrives

----------------------------------------------------------------------------

\* What a start of the manager does.
LEMMA BootEffect ==
    ASSUME Inv, BootLoads
    PROVE  LET p == Head(booting)
               i == <<Boot, p>>
           IN /\ booting # <<>> /\ p = booting[1] /\ p \in Ids /\ i \in Instances
              /\ \A r \in Requests : at[r] = "away"
              /\ \A n \in 1..Len(booting') :
                    n + 1 \in 1..Len(booting) /\ booting'[n] = booting[n + 1] /\ booting'[n] # p
              /\ \A n \in 1..Len(booting) : n = 1 \/ booting[n] \in Elements(booting')
              /\ UNCHANGED <<configVars, requestVars, lockVars, running, leaked,
                             overlapped>>
              /\ \/ UNCHANGED instVars /\ failed' = failed \cup {p}
                 \/ /\ failed' = failed
                    /\ inst'[i].at = "open" /\ inst'[i].own = Boot
                    /\ p \in Sourced => inst'[i].src = merged
                    /\ \A j \in Instances \ {i} : inst'[j] = inst[j]
                    /\ instMap'[p] = i /\ \A q \in Ids \ {p} : instMap'[q] = instMap[q]
                    /\ Elements(insts) \cup {i} \subseteq Elements(insts')
<1> DEFINE p == Head(booting)
           i == <<Boot, p>>
<1>1. /\ booting # <<>> /\ booting' = Tail(booting)
      /\ UNCHANGED <<configVars, requestVars, lockVars, running, leaked, overlapped>>
  BY DEF BootLoads
<1>2. InstOK /\ RestOK /\ BootInv
  BY TypeParts DEF Inv
<1>3. /\ booting \in Seq(Ids) /\ p \in Ids /\ p = booting[1]
      /\ Len(booting) \in Nat \ {0} /\ Len(Tail(booting)) = Len(booting) - 1
      /\ \A n \in 1..Len(Tail(booting)) : Tail(booting)[n] = booting[n + 1]
  <2>1. booting \in Seq(Ids)
    BY <1>2 DEF RestOK
  <2> QED BY <1>1, <2>1, TailFact
<1>4. i \in Instances /\ \A r \in Requests : at[r] = "away"
  BY <1>1, <1>2, <1>3 DEF Instances, Writers, BootInv
<1>5. ASSUME NEW n \in 1..Len(booting')
      PROVE  n + 1 \in 1..Len(booting) /\ booting'[n] = booting[n + 1] /\ booting'[n] # p
  <2>1. /\ n + 1 \in 1..Len(booting) /\ booting'[n] = booting[n + 1]
        /\ n + 1 # 1 /\ 1 \in 1..Len(booting)
    BY <1>1, <1>3
  <2> QED BY <1>2, <1>3, <2>1 DEF BootInv
<1>6. ASSUME NEW n \in 1..Len(booting), n # 1 PROVE booting[n] \in Elements(booting')
  <2>1. n - 1 \in 1..Len(booting') /\ booting'[n - 1] = booting[n - 1 + 1] /\ n - 1 + 1 = n
    BY <1>1, <1>3, <1>6
  <2> QED BY <2>1 DEF Elements
<1>7. CASE UNCHANGED instVars /\ failed' = failed \cup {p}
  BY <1>1, <1>3, <1>4, <1>5, <1>6, <1>7
<1>8. CASE /\ inst' = [inst EXCEPT ![i] = [at |-> "open", own |-> Boot,
                             src |-> IF p \in Sourced THEN merged ELSE None]]
           /\ AddInstance(i) /\ UNCHANGED failed
  <2>1. /\ inst'[i] = [at |-> "open", own |-> Boot,
                       src |-> IF p \in Sourced THEN merged ELSE None]
        /\ \A j \in Instances \ {i} : inst'[j] = inst[j]
    BY <1>2, <1>4, <1>8 DEF InstOK
  <2>2. instMap' = [instMap EXCEPT ![p] = i] /\ insts' = Append(insts, i)
    BY <1>8 DEF AddInstance
  <2>3. instMap'[p] = i /\ \A q \in Ids \ {p} : instMap'[q] = instMap[q]
    BY <1>2, <1>3, <2>2 DEF InstOK
  <2>4. Elements(insts) \cup {i} \subseteq Elements(insts')
    <3>1. insts \in Seq(Instances)
      BY <1>2 DEF InstOK
    <3>2. /\ \A n \in 1..Len(insts) : n \in 1..Len(insts') /\ insts'[n] = insts[n]
          /\ Len(insts) + 1 \in 1..Len(insts') /\ insts'[Len(insts) + 1] = i
      BY <1>4, <2>2, <3>1
    <3> QED BY <3>2 DEF Elements
  <2> QED BY <1>1, <1>3, <1>4, <1>5, <1>6, <1>8, <2>1, <2>3, <2>4
<1> QED BY <1>7, <1>8 DEF BootLoads

\* A lock that is given changes none of the other parts.
LEMMA GrantedBase ==
    ASSUME Inv, SentInv, LockInv, AloneInv, SourceInv, LoadingInv, NEW k \in Locks, Granted(k)
    PROVE  SentInv' /\ LockInv' /\ AloneInv' /\ SourceInv' /\ LoadingInv'
<1>1. /\ holder[k] = None /\ queue[k] # <<>> /\ running = None
      /\ holder' = [holder EXCEPT ![k] = Head(queue[k])]
      /\ queue' = [queue EXCEPT ![k] = Tail(queue[k])]
      /\ running' = Head(queue[k])
      /\ UNCHANGED <<configVars, instVars, requestVars, booting, history>>
  BY DEF Granted, Lock!Grant, Idle
<1>2. LockOK /\ "resource" \in Locks /\ "reload" \in Locks /\ None \notin Requests
  BY TypeParts, ProviderManagerAssumption DEF Inv, Locks, Writers
<1>3. SentInv' /\ AloneInv' /\ SourceInv' /\ LoadingInv'
  BY <1>1 DEF SentInv, AloneInv, SourceInv, LoadingInv, Active, EditsSource, source,
              requestVars, configVars, instVars, history
<1>4. CASE k = "resource"
  <2>1. holder'["resource"] = running' /\ queue'["reload"] = queue["reload"]
    BY <1>1, <1>2, <1>4 DEF LockOK
  <2>2. \A s \in Requests : ~(Working(s) /\ req[s].op # "edit")
    BY <1>1, <1>2, <1>4 DEF LockInv
  <2> QED BY <1>1, <1>3, <2>1, <2>2 DEF LockInv, Working, requestVars
<1>5. CASE k = "reload"
  <2>1. /\ queue["reload"] \in Seq(Requests) /\ Head(queue["reload"]) = queue["reload"][1]
        /\ 1 \in 1..Len(queue["reload"])
        /\ \A n \in 1..Len(Tail(queue["reload"])) :
              /\ n + 1 \in 1..Len(queue["reload"])
              /\ Tail(queue["reload"])[n] = queue["reload"][n + 1]
    <3>1. queue["reload"] \in Seq(Requests) /\ queue["reload"] # <<>>
      BY <1>1, <1>2, <1>5 DEF LockOK
    <3> QED BY <3>1, TailFact
  <2>2. holder'["resource"] = holder["resource"] /\ queue'["reload"] = Tail(queue["reload"])
    BY <1>1, <1>2, <1>5 DEF LockOK
  <2>3. at[running'] # "resource"
    BY <1>1, <1>5, <2>1 DEF LockInv
  <2>4. \A n \in 1..Len(queue'["reload"]) : at[queue'["reload"][n]] \notin {"away",
                                                                            "resource"}
    BY <2>1, <2>2 DEF LockInv
  <2> QED BY <1>1, <1>3, <2>2, <2>3, <2>4 DEF LockInv, Working, requestVars
<1> QED BY <1>4, <1>5 DEF Locks

\* Base is inductive.
LEMMA BaseNext == ASSUME Base, [Next]_vars PROVE Base'
<1>0. Inv' /\ Inv /\ SentInv /\ LockInv /\ AloneInv /\ SourceInv /\ LoadingInv
  BY InvNext DEF Base
<1>1. CASE BootLoads
  <2>1. /\ UNCHANGED <<configVars, requestVars, lockVars, running, overlapped>>
        /\ \A i \in Instances : inst'[i].at = "loading" => inst[i].at = "loading"
    BY <1>0, <1>1, BootEffect DEF instVars
  <2> QED BY <1>0, <2>1 DEF Base, SentInv, LockInv, AloneInv, SourceInv, LoadingInv, Active,
               EditsSource, source, Working, requestVars, configVars, lockVars
<1>2. ASSUME NEW r \in Requests, Request(r) PROVE Base'
  BY <1>0, <1>2, RequestShape, ArrivesSent, ArrivesLock, ArrivesAlone, RequestSource,
     LoadingRequest DEF Base
<1>3. ASSUME NEW r \in Requests, Progress(r) PROVE Base'
  BY <1>0, <1>3, ShapeFact, ShapeSent, ShapeLock, ShapeAlone, ShapeSource,
     LoadingStep DEF Base
<1>4. ASSUME NEW k \in Locks, Granted(k) PROVE Base'
  BY <1>0, <1>4, GrantedBase DEF Base
<1>5. CASE UNCHANGED vars
  BY <1>0, <1>5 DEF Base, SentInv, LockInv, AloneInv, SourceInv, LoadingInv, Active,
     EditsSource,
       source, Working, vars, requestVars, configVars, lockVars, instVars, history
<1> QED BY <1>1, <1>2, <1>3, <1>4, <1>5 DEF Next

\* It holds at first.
LEMMA BaseInit == ASSUME Init PROVE Base
<1>1. Inv /\ None \notin Requests
  BY InvInit, ProviderManagerAssumption DEF Writers
<1>2. \A r \in Requests : /\ at[r] = "away" /\ req[r].op = "none" /\ todo[r] = <<>>
                          /\ r \in Writers /\ r # Boot
  BY ProviderManagerAssumption DEF Init, Writers
<1>3. SentInv /\ AloneInv /\ LoadingInv
  BY <1>2 DEF Init, SentInv, AloneInv, LoadingInv, Active
<1>4. LockInv
  <2>1. queue["reload"] = <<>> /\ running = None
    BY DEF Init, Lock!Init, Locks
  <2> QED BY <1>1, <1>2, <2>1 DEF LockInv, Working
<1>5. SourceInv
  BY <1>2 DEF Init, SourceInv, Active
<1> QED BY <1>1, <1>3, <1>4, <1>5 DEF Base

----------------------------------------------------------------------------
(* One request at work                                                     *)

\* Of the requests that hold resource_lock there is one, and an edit is alone.
LEMMA Alone ==
    ASSUME Base, ~overlapped, NEW r \in Requests, NEW s \in Requests, Working(s),
           Working(r) \/ Runs(r, "resource")
    PROVE  s = r
<1>1. r \in Active /\ s \in Active
  BY DEF Active, Working, Runs
<1>2. CASE EditsSource(r) \/ EditsSource(s)
  BY <1>1, <1>2 DEF Base, AloneInv
<1>3. CASE ~EditsSource(r) /\ ~EditsSource(s)
  BY <1>3 DEF Base, LockInv, EditsSource, Runs
<1> QED BY <1>2, <1>3

\* What is known when a request goes on.
LEMMA StepKnows ==
    ASSUME Base, RunInv, ~overlapped, NEW r \in Requests, Shape(r)
    PROVE  /\ Single /\ (Working(r) => WorkOf(r)) /\ booting' = <<>>
           /\ \A p \in Ids \ failed : Good(p) \/ Touches(r, p)
           /\ \A s \in Requests : Working(s) => s = r
           /\ source' = source
<1>1. /\ Working(r) \/ Runs(r, "resource")
      /\ at[r] # "away" /\ booting' = booting /\ source' = source
  BY DEF Shape, Working, Runs, source
<1>2. \A s \in Requests : Working(s) => s = r
  BY <1>1, Alone
<1>3. booting = <<>>
  BY <1>1, Booted DEF Base
<1>4. Elements(booting) = {}
  BY <1>3 DEF Elements
<1>5. \A p \in Ids, s \in Requests : Touches(s, p) => s = r
  BY <1>2 DEF Touches
<1> QED BY <1>1, <1>2, <1>3, <1>4, <1>5 DEF RunInv, Sound

\* What has to be shown of a step of the one request at work.
LEMMA RunStep ==
    ASSUME Base, RunInv, NEW r \in Requests, Shape(r), Single',
           \A p \in Ids \ failed' : Good(p)' \/ Touches(r, p)',
           Working(r)' => WorkOf(r)'
    PROVE  RunInv'
<1> SUFFICES ASSUME ~overlapped' PROVE RunInv'
  BY DEF RunInv
<1>1. ~overlapped /\ Moves(r)
  BY DEF Shape
<1>2. booting' = <<>> /\ \A s \in Requests : Working(s) => s = r
  BY <1>1, StepKnows
<1>3. \A s \in Requests : Working(s)' => s = r
  BY <1>1, <1>2 DEF Moves, Working
<1> QED BY <1>2, <1>3 DEF RunInv, Sound, StartInv

\* The instance of a provider that a step leaves alone.
LEMMA RunsOnKept ==
    ASSUME NEW p, NEW s, source' = source, instMap'[p] = instMap[p], RunsOn(p, s),
           inst'[instMap[p]] = inst[instMap[p]],
           instMap[p] \in Elements(insts) => instMap[p] \in Elements(insts')
    PROVE  RunsOn(p, s)'
BY DEF RunsOn, MadeFrom

\* A provider that is as it is configured stays so when a step leaves it alone.
LEMMA GoodKept ==
    ASSUME NEW p, source' = source, config'[p] = config[p], instMap'[p] = instMap[p], Good(p),
           instMap[p] # None =>
              /\ inst'[instMap[p]] = inst[instMap[p]]
              /\ instMap[p] \in Elements(insts) => instMap[p] \in Elements(insts')
    PROVE  Good(p)'
BY DEF Good, RunsOn, MadeFrom

\* What a step that opens nothing leaves of the instances found by their ids.
LEMMA SingleKept ==
    ASSUME Inv, Single, leaked' = leaked, NEW i \in Instances,
           \A j \in Instances \ {i} : inst'[j] = inst[j],
           inst'[i].at \notin {"none", "open"}, inst'[i].at = "loading" => i \notin leaked,
           \A p \in Ids : instMap[p] \in {i, instMap'[p]} /\ instMap'[p] \in {None, instMap[p]}
    PROVE  Single'
<1>1. leaked \subseteq Instances /\ None \notin Instances
  BY TypeParts, ProviderManagerAssumption DEF Inv, RestOK
<1>2. ASSUME NEW j \in Instances \ leaked, inst'[j].at = "open" PROVE j = instMap'[j[2]]
  <2>1. j # i /\ inst[j].at = "open" /\ j[2] \in Ids
    BY <1>2 DEF Instances
  <2> QED BY <1>2, <2>1 DEF Single
<1> QED BY <1>1, <1>2 DEF Single

\* Where a request has something to do yet, it has been told so.
LEMMA SpoilsTouched ==
    ASSUME Inv, NEW r \in Requests, NEW p \in Ids, Touches(r, p),
           at[r] \notin {"sweep", "swept"}
    PROVE  p \in Spoils(r)
<1>0. RequestOK /\ PointsOf(r) /\ None \notin Ids
  BY InvFact, ProviderManagerAssumption
<1>1. keys[r] \in Seq(Ids) /\ todo[r] \in Seq(Ids \X Settings)
  BY <1>0 DEF RequestOK
<1>2. p \in Ahead(r) => p \in {todo[r][n][1] : n \in DOMAIN todo[r]}
  BY <1>1 DEF Ahead
<1>3. p \in Elements(keys[r]) => p \in Range(keys[r])
  BY <1>1 DEF Elements, Range
<1>4. at[r] = "terminated" \/ at[r] \in Closing => Head(keys[r]) \in Range(keys[r])
  <2>1. keys[r] # <<>> => Head(keys[r]) \in Range(keys[r])
    BY <1>1 DEF Range
  <2> QED BY <1>0, <2>1 DEF PointsOf
<1> QED BY <1>0, <1>2, <1>3, <1>4 DEF Touches, Spoils, BeforeLoad, Closing, Sweep

\* A step that leaves the instances and the configuration alone.
LEMMA QuietRun ==
    ASSUME Base, RunInv, NEW r \in Requests, Shape(r),
           UNCHANGED <<config, inst, instMap, insts, leaked>>,
           ~overlapped => WorkOf(r)' \/ ~Working(r)',
           ~overlapped => \A p \in Ids \ failed' :
              \/ p \in failed /\ Good(p)'
              \/ p \notin failed /\ (Touches(r, p) => Touches(r, p)' \/ Good(p)')
    PROVE  RunInv'
<1> SUFFICES ASSUME ~overlapped' PROVE RunInv'
  BY DEF RunInv
<1>1. ~overlapped
  BY DEF Shape
<1>2. Single' /\ source' = source
  BY <1>1, StepKnows DEF Single
<1>3. \A p \in Ids : Good(p) => Good(p)'
  BY <1>2, GoodKept
<1> QED BY <1>1, <1>2, <1>3, StepKnows, RunStep

\* What the request was sent for, where it is at work.
LEMMA SentFact ==
    ASSUME Base, NEW r \in Requests
    PROVE  /\ PointsOf(r) /\ RequestOK /\ keys[r] \in Seq(Ids)
           /\ req[r].op # "edit" => todo[r] = <<>> /\ Ahead(r) = {}
           /\ req[r].op = "create" => req[r].from = req[r].id
           /\ at[r] # "away" => req[r].op # "none"
           /\ req[r].op \in {"none", "create", "update", "delete", "edit", "unsource"}
           /\ at[r] \notin {"away", "done"} /\ ~Deleting(r) =>
                 /\ req[r].id \in Ids /\ req[r].from \in Ids \cup {None}
                 /\ req[r].new \in Settings /\ req[r].new # None
<1>1. PointsOf(r) /\ RequestOK /\ req[r] \in ReqType /\ keys[r] \in Seq(Ids)
  BY InvFact DEF Base, RequestOK
<1>2. todo[r] = <<>> => Ahead(r) = {}
  BY DEF Ahead
<1> QED BY <1>1, <1>2, ProviderManagerAssumption DEF Base, SentInv, ReqType, PointsOf,
           Deleting

\* The steps that touch neither the configuration nor an instance.
LEMMA QuietRuns ==
    ASSUME Base, RunInv, NEW r \in Requests,
           \/ Refuses(r) \/ BeginDelete(r) \/ BeginReload(r) \/ DeleteEnds(r)
           \/ CreateEnds(r) \/ Reloads(r) \/ SweepsOn(r)
    PROVE  RunInv'
<1>0. Shape(r) /\ RequestOK /\ Inv
  BY ShapeFact, InvFact DEF Base, Progress
<1> SUFFICES ASSUME ~overlapped PROVE RunInv'
  BY <1>0 DEF RunInv, Shape
<1>k. PointsOf(r) /\ (Working(r) => WorkOf(r))
      /\ \A p \in Ids \ failed : Good(p) \/ Touches(r, p)
  BY <1>0, StepKnows, SentFact
<1>u. /\ UNCHANGED <<config, inst, instMap, insts, leaked, failed, req, todo>>
      /\ Settled(r)' <=> Settled(r)
      /\ source' = source
  <2>1. UNCHANGED <<config, inst, instMap, insts, leaked, failed, req, todo>>
    BY DEF Refuses, BeginDelete, BeginReload, DeleteEnds, CreateEnds, Reloads, SweepsOn,
           configVars, instVars, history
  <2> QED BY <1>0, <2>1, StepKnows DEF Settled, Reloading
<1>1. CASE Refuses(r)
  <2>1. at[r] = "resource" /\ at'[r] = "done"
    BY <1>0, <1>1 DEF Refuses, Runs, Ends, Suspends, RequestOK
  <2> QED BY <1>0, <1>u, <2>1, QuietRun DEF Touches, Working
<1>2. CASE BeginDelete(r)
  <2>1. at[r] = "resource" /\ at'[r] = "terminate" /\ Deleting(r)
    BY <1>0, <1>2 DEF BeginDelete, Runs, Continues, RequestOK, Deleting
  <2>2. todo[r] = <<>>
    BY <2>1, SentFact DEF Deleting
  <2>3. WorkOf(r)'
    BY <1>u, <2>1, <2>2 DEF WorkOf, Settled, KeysOf, LoadOf, Deleting, Reloading, Closing,
       Sweep,
                            Terminating
  <2> QED BY <1>0, <1>u, <2>1, <2>3, QuietRun DEF Touches, Working
<1>3. CASE BeginReload(r)
  <2>1. at[r] = "reload" /\ at'[r] = "terminate" /\ keys'[r] = <<req[r].id>>
    BY <1>0, <1>3 DEF BeginReload, Runs, Continues, RequestOK
  <2>2. Settled(r) /\ Reloading(r) /\ req[r].op # "create"
    BY <1>k, <2>1 DEF WorkOf, Working, PointsOf, Reloading
  <2>3. WorkOf(r)'
    BY <1>u, <2>1, <2>2 DEF WorkOf, KeysOf, LoadOf, Closing, Sweep, Terminating
  <2>4. ~Deleting(r) /\ \A p : Touches(r, p) => Touches(r, p)'
    BY <1>u, <2>1, <2>2 DEF Touches, Working, Deleting, Reloading, Ahead, Sweep, BeforeLoad
  <2> QED BY <1>0, <1>u, <2>3, <2>4, QuietRun
<1>4. CASE DeleteEnds(r)
  <2>1. at[r] = "terminate" /\ at'[r] = "done" /\ keys[r] = <<>>
    BY <1>0, <1>4 DEF DeleteEnds, Runs, Ends, Suspends, RequestOK
  <2>2. Deleting(r)
    <3>1. KeysOf(r)
      BY <1>k, <2>1 DEF WorkOf, Working
    <3> QED BY <2>1, <3>1, SentFact DEF KeysOf, Terminating, Reloading, Deleting
  <2> QED BY <1>0, <1>u, <2>1, <2>2, QuietRun DEF Touches, Working
<1>5. CASE CreateEnds(r)
  <2>1. at[r] = "loaded" /\ at'[r] = "done" /\ req[r].op = "create"
    BY <1>0, <1>5 DEF CreateEnds, Runs, Ends, Suspends, RequestOK
  <2>2. req[r].from = req[r].id /\ Ahead(r) = {} /\ ~Deleting(r)
    BY <2>1, SentFact DEF Deleting
  <2> QED BY <1>0, <1>u, <2>1, <2>2, QuietRun DEF Touches, Working, BeforeLoad, Sweep
<1>6. CASE Reloads(r)
  <2>1. at[r] = "terminated" /\ at'[r] = "load" /\ Reloading(r)
    BY <1>0, <1>6 DEF Reloads, Runs, Continues, RequestOK, Reloading
  <2>2. Settled(r) /\ KeysOf(r)
    BY <1>k, <2>1 DEF WorkOf, Working
  <2>3. instMap[req[r].id] = None
    BY <2>1, <2>2 DEF KeysOf, Terminating
  <2>4. WorkOf(r)'
    BY <1>u, <2>1, <2>2, <2>3 DEF WorkOf, KeysOf, LoadOf, Closing, Sweep, Terminating
  <2>5. ~Deleting(r) /\ \A p : Touches(r, p) => Touches(r, p)'
    BY <1>u, <2>1, <2>2 DEF Touches, Working, Deleting, Reloading, Ahead, Sweep, BeforeLoad
  <2> QED BY <1>0, <1>u, <2>4, <2>5, QuietRun
<1>7. CASE SweepsOn(r)
  <2>1. at[r] = "swept" /\ at'[r] = "sweep" /\ keys'[r] = Tail(keys[r])
    BY <1>0, <1>7 DEF SweepsOn, Runs, Continues, RequestOK
  <2>2. Settled(r) /\ KeysOf(r) /\ LoadOf(r) /\ Reloading(r)
    BY <1>k, <2>1 DEF WorkOf, Working, PointsOf, Reloading
  <2>3. /\ keys[r] # <<>> /\ Head(keys[r]) = keys[r][1] /\ 1 \in 1..Len(keys[r])
        /\ \A n \in 1..Len(keys'[r]) :
              n + 1 \in 1..Len(keys[r]) /\ keys'[r][n] = keys[r][n + 1]
        /\ \A n \in 1..Len(keys[r]) : n = 1 \/
              /\ n - 1 \in 1..Len(keys'[r]) /\ keys'[r][n - 1] = keys[r][n - 1 + 1]
              /\ n - 1 + 1 = n
    <3>1. keys[r] # <<>> /\ keys[r] \in Seq(Ids)
      BY <1>k, <2>1, SentFact DEF PointsOf
    <3> QED BY <2>1, <3>1, TailFact
  <2>4. WorkOf(r)'
    <3>1. \A n \in 1..Len(keys'[r]) : config[keys'[r][n]] = None
      BY <2>1, <2>2, <2>3 DEF KeysOf, Sweep
    <3>2. LoadOf(r)'
      BY <1>u, <2>1, <2>2 DEF LoadOf, Sweep, Reloading, RunsOn, MadeFrom
    <3> QED BY <1>u, <2>1, <2>2, <3>1, <3>2 DEF WorkOf, KeysOf, Closing, Sweep, Terminating
  <2>5. PICK k : k = keys[r][1]
    OBVIOUS
  <2>6. config[k] = None /\ instMap[k] = None
    BY <2>1, <2>2, <2>3, <2>5 DEF KeysOf, Sweep
  <2>7. Good(k)'
    BY <1>u, <2>6 DEF Good
  <2>8. ASSUME NEW p \in Elements(keys[r]) PROVE p = k \/ p \in Elements(keys'[r])
    <3>1. PICK n \in 1..Len(keys[r]) : p = keys[r][n]
      BY DEF Elements
    <3>2. n = 1 \/ (n - 1 \in 1..Len(keys'[r]) /\ keys'[r][n - 1] = p)
      BY <2>3, <3>1
    <3> QED BY <2>5, <3>1, <3>2 DEF Elements
  <2>9. \A p \in Ids : Touches(r, p) => Touches(r, p)' \/ p = k
    BY <1>u, <2>1, <2>2, <2>8 DEF Touches, Working, Deleting, Reloading, Ahead, Sweep,
       BeforeLoad
  <2> QED BY <1>0, <1>u, <2>4, <2>7, <2>9, QuietRun
<1> QED BY <1>1, <1>2, <1>3, <1>4, <1>5, <1>6, <1>7

\* The list made of a finite set has just its elements.
LEMMA ElementsFact == ASSUME NEW A, IsFiniteSet(A) PROVE Elements(SetToSeq(A)) = A
<1>1. Cardinality(A) \in Nat /\ \E f \in [1..Cardinality(A) -> A] : IsInjective(f)
  BY FS_CardinalityType DEF ExistsBijection, Bijection, Injection, Surjection
<1>2. SetToSeq(A) \in [1..Cardinality(A) -> A] /\ IsInjective(SetToSeq(A))
  BY <1>1 DEF SetToSeq
<1>3. SetToSeq(A) \in Injection(1..Cardinality(A), A)
  BY <1>2 DEF Injection, IsInjective
<1>4. Cardinality(1..Cardinality(A)) = Cardinality(A)
  BY <1>1, FS_Interval
<1>5. SetToSeq(A) \in Surjection(1..Cardinality(A), A)
  BY <1>3, <1>4, FS_Injection
<1>6. Len(SetToSeq(A)) = Cardinality(A)
  BY <1>1, <1>2
<1> QED BY <1>2, <1>5, <1>6 DEF Surjection, Elements

\* Synchronizing: what is loaded and no longer configured will be swept.
LEMMA SynchronizesRuns ==
    ASSUME Base, RunInv, NEW r \in Requests, Synchronizes(r)
    PROVE  RunInv'
<1>0. Shape(r) /\ RequestOK /\ Inv
  BY ShapeFact, InvFact DEF Base, Progress
<1> SUFFICES ASSUME ~overlapped PROVE RunInv'
  BY <1>0 DEF RunInv, Shape
<1>1. /\ at[r] = "loaded" /\ at'[r] = "sweep" /\ Reloading(r)
      /\ UNCHANGED <<config, inst, instMap, insts, leaked, failed, req, todo>>
      /\ keys'[r] = SetToSeq({p \in Ids : instMap[p] # None /\ config[p] = None})
  BY <1>0 DEF Synchronizes, Runs, Continues, RequestOK, Reloading, instVars, history
<1>2. source' = source /\ Settled(r) /\ LoadOf(r)
  BY <1>0, <1>1, StepKnows DEF WorkOf, Working
<1>3. Elements(keys'[r]) = {p \in Ids : instMap[p] # None /\ config[p] = None}
  <2>1. IsFiniteSet({p \in Ids : instMap[p] # None /\ config[p] = None})
    BY ProviderManagerAssumption, FS_Subset
  <2> QED BY <1>1, <2>1, ElementsFact
<1>4. WorkOf(r)'
  <2>1. \A n \in 1..Len(keys'[r]) : config[keys'[r][n]] = None
    BY <1>3 DEF Elements
  <2>2. LoadOf(r)'
    BY <1>1, <1>2 DEF LoadOf, Sweep, Reloading, RunsOn, MadeFrom
  <2>3. Settled(r)'
    BY <1>1, <1>2 DEF Settled, Reloading
  <2> QED BY <1>1, <2>1, <2>2, <2>3 DEF WorkOf, KeysOf, Closing, Sweep, Terminating
<1>5. ~Deleting(r)
  BY <1>1 DEF Deleting, Reloading
<1>6. ASSUME NEW p \in Ids, Touches(r, p) PROVE Touches(r, p)' \/ Good(p)'
  <2>1. CASE p \in Ahead(r)
    BY <1>1, <1>5, <2>1 DEF Touches, Working, Deleting, Ahead
  <2>2. CASE p = req[r].from /\ p # req[r].id
    <3>1. config[p] = None
      BY <1>1, <1>2, <2>2 DEF Settled
    <3>2. CASE instMap[p] = None
      BY <1>1, <3>1, <3>2 DEF Good
    <3>3. CASE instMap[p] # None
      BY <1>1, <1>3, <1>5, <3>1, <3>3 DEF Touches, Working, Deleting, Sweep
    <3> QED BY <3>2, <3>3
  <2> QED BY <1>1, <1>5, <1>6, <2>1, <2>2 DEF Touches, BeforeLoad, Sweep
<1> QED BY <1>0, <1>1, <1>4, <1>6, QuietRun

\* The end of a reload makes good what an earlier failure has left.
LEMMA ReloadEndsRuns ==
    ASSUME Base, RunInv, NEW r \in Requests, ReloadEnds(r)
    PROVE  RunInv'
<1>0. Shape(r) /\ RequestOK /\ Inv /\ ConfigOK
  BY ShapeFact, InvFact DEF Base, Progress
<1> SUFFICES ASSUME ~overlapped PROVE RunInv'
  BY <1>0 DEF RunInv, Shape
<1>1. /\ at[r] = "sweep" /\ keys[r] = <<>>
      /\ UNCHANGED <<config, inst, instMap, insts, leaked>>
      /\ failed' = failed \
           ({p \in {req[r].id} : req[r].new.enable => inst[<<r, p>>].at = "open"}
                \cup {p \in Ids : config[p] = None /\ instMap[p] = None})
  BY <1>0 DEF ReloadEnds, Runs, configVars
<1>2. /\ source' = source /\ Settled(r) /\ LoadOf(r) /\ Reloading(r) /\ ~Deleting(r)
      /\ \A p \in Ids \ failed : Good(p) \/ Touches(r, p)
      /\ req[r].id \in Ids /\ req[r].new # None
  BY <1>0, <1>1, StepKnows, SentFact DEF WorkOf, Working, PointsOf, Reloading, Deleting
<1>3. Elements(keys[r]) = {}
  BY <1>1 DEF Elements
<1>4. \A p : Touches(r, p) => p \in Ahead(r)
  BY <1>1, <1>2, <1>3 DEF Touches, Sweep, BeforeLoad
<1>5. ASSUME NEW p \in Ids, p \in failed, p \notin failed' PROVE Good(p)'
  <2>1. CASE config[p] = None /\ instMap[p] = None
    BY <1>1, <2>1 DEF Good
  <2>2. CASE p = req[r].id /\ (req[r].new.enable => inst[<<r, p>>].at = "open")
    <3>1. config[p] = req[r].new
      BY <1>2, <2>2 DEF Settled, Reloading
    <3>2. IF req[r].new.enable THEN RunsOn(p, req[r].new) ELSE instMap[p] = None
      BY <1>1, <1>2, <1>5, <2>2 DEF LoadOf, Sweep
    <3>3. Good(p)
      BY <1>2, <3>1, <3>2 DEF Good
    <3> QED BY <1>1, <1>2, <3>3, GoodKept
  <2> QED BY <1>1, <1>5, <2>1, <2>2
<1>6. CASE todo[r] = <<>>
  <2>1. at'[r] = "done" /\ Ahead(r) = {}
    BY <1>0, <1>6 DEF ReloadEnds, Ends, Suspends, RequestOK, Ahead
  <2> QED BY <1>0, <1>1, <1>4, <1>5, <2>1, QuietRun DEF Working
<1>7. CASE todo[r] # <<>>
  <2>1. at'[r] = "reload" /\ NextReload(r) /\ keys' = keys
    BY <1>0, <1>7 DEF ReloadEnds, Suspends, Continues, RequestOK
  <2>2. todo[r] \in Seq(Ids \X Settings) /\ req[r] \in ReqType
    BY <1>0 DEF RequestOK
  <2>3. todo'[r] = Tail(todo[r])
    BY <1>0, <2>1 DEF NextReload, RequestOK
  <2>4. /\ req'[r].id = todo[r][1][1] /\ req'[r].from = todo[r][1][1]
        /\ req'[r].new = todo[r][1][2] /\ req'[r].op = req[r].op
    <3>1. req'[r] = [req[r] EXCEPT !.id = todo[r][1][1], !.from = todo[r][1][1],
                                   !.new = todo[r][1][2]]
      BY <1>0, <2>1 DEF NextReload, RequestOK
    <3> QED BY <2>2, <3>1 DEF ReqType
  <2>5. /\ 1 \in 1..Len(todo[r])
        /\ \A n \in 1..Len(todo'[r]) : n + 1 \in 1..Len(todo[r]) /\ todo'[r][n] = todo[r][n + 1]
        /\ \A n \in 1..Len(todo[r]) : n = 1 \/
              (n - 1 \in 1..Len(todo'[r]) /\ todo'[r][n - 1] = todo[r][n])
    <3>1. /\ Len(todo[r]) \in Nat \ {0} /\ Len(Tail(todo[r])) = Len(todo[r]) - 1
          /\ \A n \in 1..Len(Tail(todo[r])) : Tail(todo[r])[n] = todo[r][n + 1]
      BY <1>7, <2>2, TailFact
    <3>2. \A n \in 1..Len(todo[r]) : n = 1 \/
              /\ n - 1 \in 1..Len(todo'[r]) /\ todo'[r][n - 1] = todo[r][n - 1 + 1]
              /\ n - 1 + 1 = n
      BY <2>3, <3>1
    <3> QED BY <2>3, <3>1, <3>2
  <2>6. WorkOf(r)'
    <3>1. config[todo[r][1][1]] = todo[r][1][2]
          /\ \A n \in 1..Len(todo'[r]) : config[todo'[r][n][1]] = todo'[r][n][2]
      BY <1>2, <2>5 DEF Settled
    <3>2. Settled(r)'
      BY <1>1, <2>4, <3>1 DEF Settled, Reloading
    <3> QED BY <2>1, <3>2 DEF WorkOf, KeysOf, LoadOf, Closing, Sweep, Terminating
  <2>7. ASSUME NEW p \in Ahead(r) PROVE Touches(r, p)'
    <3>1. PICK n \in 1..Len(todo[r]) : p = todo[r][n][1]
      BY DEF Ahead
    <3>2. p = req'[r].id \/ p \in {todo'[r][m][1] : m \in 1..Len(todo'[r])}
      BY <2>4, <2>5, <3>1
    <3>3. ~Deleting(r)' /\ Working(r)'
      BY <1>2, <2>1, <2>4 DEF Deleting, Working
    <3> QED BY <2>1, <3>2, <3>3 DEF Touches, Ahead, BeforeLoad
  <2> QED BY <1>0, <1>1, <1>4, <1>5, <2>6, <2>7, QuietRun
<1> QED BY <1>6, <1>7

\* The configuration is written: the request will come to the ids it has changed.
LEMMA StoreRuns ==
    ASSUME Base, RunInv, NEW r \in Requests, StoreCreated(r) \/ StoreUpdated(r)
    PROVE  RunInv'
<1>0. Shape(r) /\ RequestOK /\ Inv /\ ConfigOK /\ PointsOf(r)
  BY ShapeFact, InvFact DEF Base, Progress
<1> SUFFICES ASSUME ~overlapped PROVE RunInv'
  BY <1>0 DEF RunInv, Shape
<1>1. /\ at[r] = "resource" /\ at'[r] \in {"load", "reload"}
      /\ req[r].op \in {"create", "update"}
      /\ UNCHANGED <<inst, instMap, insts, leaked, failed, req, todo>>
  BY <1>0 DEF StoreCreated, StoreUpdated, Runs, Continues, Acquires, RequestOK, instVars,
     history
<1>2. /\ source' = source /\ Single
      /\ \A p \in Ids \ failed : Good(p)
      /\ todo[r] = <<>> /\ {req[r].id, req[r].from} \subseteq Ids
      /\ (req[r].op = "create" => req[r].from = req[r].id)
  BY <1>0, <1>1, StepKnows, SentFact DEF Touches, Working, PointsOf
<1>3. /\ config'[req[r].id] = req[r].new
      /\ (req[r].from # req[r].id => config'[req[r].from] = None)
      /\ \A p \in Ids \ {req[r].id, req[r].from} : config'[p] = config[p]
      /\ at'[r] = "load" => config[req[r].id] = None /\ req[r].op = "create"
  BY <1>0, <1>1, <1>2 DEF StoreCreated, StoreUpdated, Continues, Acquires, ConfigOK,
     RequestOK
<1>4. WorkOf(r)'
  <2>1. Settled(r)'
    BY <1>1, <1>2, <1>3 DEF Settled, Reloading
  <2>2. LoadOf(r)'
    BY <1>1, <1>2, <1>3 DEF LoadOf, Good, Reloading, Sweep
  <2> QED BY <1>1, <2>1, <2>2 DEF WorkOf, KeysOf, Closing, Sweep, Terminating
<1>5. ASSUME NEW p \in Ids \ failed' PROVE Good(p)' \/ Touches(r, p)'
  <2>1. CASE p \in {req[r].id, req[r].from}
    BY <1>1, <2>1 DEF Touches, Working, Deleting, BeforeLoad
  <2>2. CASE p \notin {req[r].id, req[r].from}
    BY <1>1, <1>2, <1>3, <2>2, GoodKept
  <2> QED BY <2>1, <2>2
<1>6. Single'
  BY <1>1, <1>2 DEF Single
<1> QED BY <1>0, <1>4, <1>5, <1>6, RunStep

\* The provider leaves the configuration when it has been terminated.
LEMMA DeletedRuns ==
    ASSUME Base, RunInv, NEW r \in Requests, Deleted(r)
    PROVE  RunInv'
<1>0. Shape(r) /\ RequestOK /\ Inv /\ ConfigOK /\ PointsOf(r)
  BY ShapeFact, InvFact DEF Base, Progress
<1> SUFFICES ASSUME ~overlapped PROVE RunInv'
  BY <1>0 DEF RunInv, Shape
<1>1. PICK k : k = Head(keys[r])
  OBVIOUS
<1>2. /\ at[r] = "terminated" /\ at'[r] = "terminate" /\ Deleting(r) /\ req[r].op # "edit"
      /\ UNCHANGED <<inst, instMap, insts, leaked, req, todo>>
      /\ failed' = failed \ {k} /\ config' = [config EXCEPT ![k] = None]
  BY <1>0, <1>1 DEF Deleted, Runs, Continues, RequestOK, instVars, Deleting
<1>3. k \in Ids
  <2>1. keys[r] # <<>> /\ keys[r] \in Seq(Ids)
    BY <1>0, <1>2 DEF PointsOf, RequestOK
  <2> QED BY <1>1, <2>1
<1>4. /\ source' = source /\ Single /\ KeysOf(r)
      /\ \A p \in Ids \ failed : Good(p) \/ Touches(r, p)
      /\ todo[r] = <<>>
  BY <1>0, <1>2, StepKnows, SentFact DEF Working, WorkOf
<1>5. Good(k)' /\ config'[k] = None /\ \A p \in Ids \ {k} : config'[p] = config[p]
  <2>1. instMap[k] = None
    BY <1>1, <1>2, <1>4 DEF KeysOf
  <2> QED BY <1>0, <1>2, <1>3, <2>1 DEF Good, ConfigOK
<1>6. WorkOf(r)'
  BY <1>2, <1>4 DEF WorkOf, Settled, KeysOf, LoadOf, Closing, Sweep, Terminating, Deleting,
     Reloading
<1>7. ASSUME NEW p \in Ids \ failed' PROVE Good(p)'
  <2>1. CASE p = k
    BY <1>5, <2>1
  <2>2. CASE p # k
    <3>1. Good(p)
      BY <1>1, <1>2, <1>4, <1>7, <2>2 DEF Touches
    <3> QED BY <1>2, <1>4, <1>5, <2>2, <3>1, GoodKept
  <2> QED BY <2>1, <2>2
<1>8. Single'
  BY <1>2, <1>4 DEF Single
<1> QED BY <1>0, <1>6, <1>7, <1>8, RunStep

\* An instance that is not the one the manager finds under p.
LEMMA OtherFact ==
    ASSUME Inv, NEW p \in Ids, NEW i \in Instances, i[2] # p
    PROVE  instMap[p] # i /\ instMap[p] \in Instances \cup {None}
BY TypeParts, ProviderManagerAssumption DEF Inv, KnownInv, InstOK

\* What has been loaded is still so when the instance i of an id that is not
\* configured goes.
LEMMA LoadKept ==
    ASSUME Base, NEW r \in Requests, Settled(r), LoadOf(r), Reloading(r),
           at[r] \in Sweep, at'[r] \in Sweep, source' = source, req'[r] = req[r],
           req[r].id \in Ids, req[r].new # None,
           NEW k \in Ids, config[k] = None, NEW i \in Instances, i[2] = k,
           inst'[i].at # "open", \A j \in Instances \ {i} : inst'[j] = inst[j],
           Elements(insts) \ {i} \subseteq Elements(insts'),
           \A p \in Ids \ {k} : instMap'[p] = instMap[p]
    PROVE  LoadOf(r)'
<1>1. req[r].id # k
  BY DEF Settled, Reloading
<1>2. instMap[req[r].id] # i /\ instMap[req[r].id] \in Instances \cup {None}
  BY <1>1, OtherFact DEF Base
<1>3. <<r, req[r].id>> \in Instances
  BY DEF Instances, Writers
<1>4. Reloading(r)' <=> Reloading(r)
  BY DEF Reloading
<1>5. RunsOn(req[r].id, req[r].new) => RunsOn(req[r].id, req[r].new)'
  <2>1. PICK p \in Ids : p = req[r].id
    OBVIOUS
  <2>2. PICK s : s = req[r].new
    OBVIOUS
  <2>3. RunsOn(p, s) => RunsOn(p, s)'
    <3>1. SUFFICES ASSUME RunsOn(p, s) PROVE RunsOn(p, s)'
      OBVIOUS
    <3>2. instMap[p] \in Instances \ {i} /\ instMap'[p] = instMap[p]
      BY <1>1, <1>2, <2>1, <3>1 DEF RunsOn
    <3> QED BY <3>1, <3>2, RunsOnKept
  <2> QED BY <2>1, <2>2, <2>3 DEF RunsOn, MadeFrom
<1>6. at'[r] \in {"sweep", "sweeping", "swept"}
  BY DEF Sweep
<1>7. inst'[<<r, req[r].id>>].at = "open" => inst[<<r, req[r].id>>].at = "open"
  BY <1>3
<1>8. IF req[r].new.enable
      THEN inst[<<r, req[r].id>>].at = "open" => RunsOn(req[r].id, req[r].new)
      ELSE instMap[req[r].id] = None
  BY DEF LoadOf
<1>9. IF req'[r].new.enable
      THEN inst'[<<r, req'[r].id>>].at = "open" => RunsOn(req[r].id, req[r].new)'
      ELSE instMap'[req'[r].id] = None
  BY <1>1, <1>5, <1>7, <1>8
<1> QED BY <1>6, <1>9 DEF LoadOf, RunsOn, MadeFrom

\* Terminating begins, with the instance the id has.
LEMMA TerminatesRuns ==
    ASSUME Base, RunInv, NEW r \in Requests, NEW point, NEW closing, NEW next,
           \/ point = "terminate" /\ closing = "closing" /\ next = "terminated"
           \/ point = "sweep" /\ closing = "sweeping" /\ next = "swept",
           Terminates(r, point, closing, next)
    PROVE  RunInv'
<1>0. Shape(r) /\ RequestOK /\ Inv /\ InstOK
  BY ShapeFact, InvFact DEF Base, Progress
<1> SUFFICES ASSUME ~overlapped PROVE RunInv'
  BY <1>0 DEF RunInv, Shape
<1>1. PICK k : k = Head(keys[r])
  OBVIOUS
<1>2. /\ at[r] = point /\ k \in Ids /\ keys[r] # <<>> /\ k \in Elements(keys[r])
      /\ UNCHANGED <<config, instMap, req, todo, keys, leaked, failed>>
  BY <1>0, <1>1, TerminatesEffect DEF configVars, history
<1>3. /\ source' = source /\ Single /\ Settled(r) /\ KeysOf(r) /\ LoadOf(r)
      /\ \A p \in Ids \ failed : Good(p) \/ Touches(r, p)
  BY <1>0, <1>2, StepKnows DEF Working, WorkOf
<1>4. /\ Settled(r)' /\ (Reloading(r)' <=> Reloading(r)) /\ (Deleting(r)' <=> Deleting(r))
      /\ Ahead(r)' = Ahead(r)
  BY <1>2, <1>3 DEF Settled, Reloading, Deleting, Ahead
<1>5. /\ Reloading(r) \/ Deleting(r)
      /\ ~(Reloading(r) /\ Deleting(r))
      /\ point = "sweep" => Reloading(r) /\ config[k] = None
  <2>1. point = "sweep" => Reloading(r) /\ config[k] = None
    <3>1. point = "sweep" => Reloading(r)
      BY <1>2, SentFact DEF PointsOf, Reloading
    <3>2. \E n \in 1..Len(keys[r]) : k = keys[r][n]
      BY <1>2 DEF Elements
    <3> QED BY <1>2, <1>3, <3>1, <3>2 DEF KeysOf, Sweep
  <2> QED BY <1>2, <1>3, <2>1, SentFact DEF Reloading, Deleting, KeysOf, Terminating
<1>6. CASE instMap[k] = None
  <2>1. at'[r] = next /\ inst' = inst /\ insts' = insts
    BY <1>0, <1>1, <1>6, TerminatesEffect, ProviderManagerAssumption
  <2>2. KeysOf(r)'
    BY <1>1, <1>2, <1>3, <1>4, <1>6, <2>1 DEF KeysOf, Terminating, Closing, Sweep
  <2>3. LoadOf(r)'
    BY <1>2, <1>3, <1>4, <2>1 DEF LoadOf, Sweep, RunsOn, MadeFrom
  <2>4. \A p : Touches(r, p) => Touches(r, p)'
    BY <1>2, <1>4, <2>1 DEF Touches, Working, BeforeLoad, Sweep
  <2> QED BY <1>0, <1>2, <1>4, <2>1, <2>2, <2>3, <2>4, QuietRun DEF WorkOf
<1>7. CASE instMap[k] # None
  <2>1. PICK i : i = instMap[k]
    OBVIOUS
  <2>2. /\ i \in Instances /\ i[2] = k /\ at'[r] = closing /\ target'[r] = i
        /\ inst'[i].at = "closing"
        /\ \A j \in Instances \ {i} : inst'[j] = inst[j]
        /\ Elements(insts') = Elements(insts) \ {i}
    BY <1>0, <1>1, <1>7, <2>1, TerminatesEffect
  <2>3. Single'
    <3>1. /\ leaked' = leaked /\ inst'[i].at \notin {"none", "open"} /\ inst'[i].at # "loading"
          /\ \A p \in Ids : instMap[p] \in {i, instMap'[p]} /\ instMap'[p] \in {None, instMap[p]}
      BY <1>2, <2>2
    <3> QED BY <1>0, <1>3, <2>2, <3>1, SingleKept
  <2>4. KeysOf(r)'
    BY <1>1, <1>2, <1>3, <1>4, <2>1, <2>2 DEF KeysOf, Terminating, Closing, Sweep
  <2>5. LoadOf(r)'
    <3>1. CASE point = "sweep"
      <4>1. at[r] \in Sweep /\ at'[r] \in Sweep /\ req[r].id \in Ids /\ req[r].new # None
        BY <1>2, <1>5, <2>2, <3>1, SentFact DEF Sweep, Reloading, Deleting
      <4> QED BY <1>2, <1>3, <1>5, <2>2, <3>1, <4>1, LoadKept
    <3>2. CASE point = "terminate"
      BY <2>2, <3>2 DEF LoadOf, Sweep
    <3> QED BY <3>1, <3>2
  <2>6. ASSUME NEW p \in Ids \ failed' PROVE Good(p)' \/ Touches(r, p)'
    <3>1. CASE Touches(r, p)
      BY <1>2, <1>4, <2>2, <3>1 DEF Touches, Working, BeforeLoad, Sweep
    <3>2. CASE p = k
      <4>1. CASE Deleting(r)
        BY <1>1, <1>2, <1>4, <1>5, <2>2, <3>2, <4>1 DEF Touches, Working, Reloading,
           Deleting
      <4>2. CASE Reloading(r) /\ point = "terminate"
        <5>1. keys[r] = <<req[r].id>>
          BY <1>2, <1>3, <4>2 DEF KeysOf, Terminating
        <5>2. p = req'[r].id
          BY <1>1, <1>2, <3>2, <5>1
        <5> QED BY <1>4, <1>5, <2>2, <4>2, <5>2 DEF Touches, Working, BeforeLoad,
                   Reloading, Deleting
      <4>3. CASE Reloading(r) /\ point = "sweep"
        BY <1>2, <1>4, <1>5, <2>2, <3>2, <4>3 DEF Touches, Working, Sweep, Reloading,
           Deleting
      <4> QED BY <1>5, <4>1, <4>2, <4>3
    <3>3. CASE p # k /\ ~Touches(r, p)
      <4>1. Good(p) /\ instMap[p] # i /\ instMap[p] \in Instances \cup {None}
        BY <1>0, <1>2, <1>3, <2>2, <2>6, <3>3, OtherFact
      <4> QED BY <1>2, <1>3, <2>2, <4>1, GoodKept
    <3> QED BY <3>1, <3>2, <3>3
  <2> QED BY <1>0, <1>4, <2>3, <2>4, <2>5, <2>6, RunStep DEF WorkOf
<1> QED BY <1>6, <1>7

\* It ends: the id has no instance.
LEMMA CloseEndsRuns ==
    ASSUME Base, RunInv, NEW r \in Requests, NEW closing, NEW next,
           \/ closing = "closing" /\ next = "terminated"
           \/ closing = "sweeping" /\ next = "swept",
           CloseEnds(r, closing, next)
    PROVE  RunInv'
<1>0. Shape(r) /\ RequestOK /\ Inv /\ InstOK
  BY ShapeFact, InvFact DEF Base, Progress
<1> SUFFICES ASSUME ~overlapped PROVE RunInv'
  BY <1>0 DEF RunInv, Shape
<1>1. PICK k : k = Head(keys[r])
  OBVIOUS
<1>2. PICK i : i = target[r]
  OBVIOUS
<1>3. /\ at[r] = closing /\ k \in Ids /\ k \in Elements(keys[r])
      /\ i \in Instances /\ i[2] = k /\ inst[i].at \in Left
      /\ UNCHANGED <<config, insts, req, todo, keys, leaked>>
      /\ inst'[i].at = "closed" /\ \A j \in Instances \ {i} : inst'[j] = inst[j]
  BY <1>0, <1>1, <1>2, CloseEndsEffect DEF configVars, Closing
<1>4. /\ source' = source /\ Single /\ Settled(r) /\ KeysOf(r) /\ LoadOf(r)
      /\ \A p \in Ids \ failed : Good(p) \/ Touches(r, p)
  BY <1>0, <1>3, StepKnows DEF Working, WorkOf
<1>5. instMap[k] = i /\ i # None
  BY <1>1, <1>2, <1>3, <1>4, ProviderManagerAssumption DEF KeysOf, Closing
<1>6. /\ instMap'[k] = None /\ at'[r] = next /\ failed' = failed
      /\ \A p \in Ids \ {k} : instMap'[p] = instMap[p]
  BY <1>0, <1>1, <1>5, CloseEndsEffect DEF Closing
<1>7. /\ Settled(r)' /\ (Reloading(r)' <=> Reloading(r)) /\ (Deleting(r)' <=> Deleting(r))
      /\ Ahead(r)' = Ahead(r)
  BY <1>3, <1>4 DEF Settled, Reloading, Deleting, Ahead
<1>8. closing = "sweeping" => Reloading(r) /\ config[k] = None
  <2>1. closing = "sweeping" => Reloading(r)
    BY <1>3, SentFact DEF PointsOf, Reloading
  <2>2. \E n \in 1..Len(keys[r]) : k = keys[r][n]
    BY <1>3 DEF Elements
  <2> QED BY <1>3, <1>4, <2>1, <2>2 DEF KeysOf, Sweep
<1>9. Single'
  <2>1. /\ leaked' = leaked /\ inst'[i].at \notin {"none", "open"} /\ inst'[i].at # "loading"
        /\ \A p \in Ids : instMap[p] \in {i, instMap'[p]} /\ instMap'[p] \in {None, instMap[p]}
    BY <1>3, <1>5, <1>6
  <2> QED BY <1>0, <1>3, <1>4, <2>1, SingleKept
<1>10. KeysOf(r)'
  BY <1>1, <1>3, <1>4, <1>6, <1>7 DEF KeysOf, Terminating, Closing, Sweep
<1>11. LoadOf(r)'
  <2>1. CASE closing = "sweeping"
    <3>1. at[r] \in Sweep /\ at'[r] \in Sweep /\ req[r].id \in Ids /\ req[r].new # None
      BY <1>3, <1>6, <1>8, <2>1, SentFact DEF Sweep, Reloading, Deleting
    <3> QED BY <1>3, <1>4, <1>6, <1>8, <2>1, <3>1, LoadKept
  <2>2. CASE closing = "closing"
    BY <1>6, <2>2 DEF LoadOf, Sweep
  <2> QED BY <2>1, <2>2
<1>12. \A p : Touches(r, p) => Touches(r, p)'
  BY <1>3, <1>6, <1>7 DEF Touches, Working, BeforeLoad, Sweep
<1>13. ASSUME NEW p \in Ids \ failed' PROVE Good(p)' \/ Touches(r, p)'
  <2>1. CASE Touches(r, p)
    BY <1>12, <2>1
  <2>2. CASE p = k /\ ~Touches(r, p)
    <3>1. Good(p) /\ inst[i].at # "open"
      BY <1>3, <1>4, <1>6, <1>13, <2>2 DEF Left
    <3>2. ~(config[p] # None /\ config[p].enable)
      BY <1>5, <2>2, <3>1 DEF Good, RunsOn
    <3> QED BY <1>3, <1>6, <2>2, <3>2 DEF Good
  <2>3. CASE p # k /\ ~Touches(r, p)
    <3>1. Good(p) /\ instMap[p] # i /\ instMap[p] \in Instances \cup {None}
      BY <1>0, <1>3, <1>4, <1>6, <1>13, <2>3, OtherFact
    <3> QED BY <1>3, <1>4, <1>6, <2>3, <3>1, GoodKept
  <2> QED BY <2>1, <2>2, <2>3
<1> QED BY <1>0, <1>7, <1>9, <1>10, <1>11, <1>13, RunStep DEF WorkOf

\* It fails: all that the request would have come to is marked.
LEMMA CloseFailsRuns ==
    ASSUME Base, RunInv, NEW r \in Requests, CloseFails(r)
    PROVE  RunInv'
<1>0. Shape(r) /\ RequestOK /\ Inv /\ InstOK
  BY ShapeFact, InvFact DEF Base, Progress
<1> SUFFICES ASSUME ~overlapped PROVE RunInv'
  BY <1>0 DEF RunInv, Shape
<1>1. PICK k : k = Head(keys[r])
  OBVIOUS
<1>2. PICK i : i = target[r]
  OBVIOUS
<1>3. /\ at[r] \in Closing /\ at'[r] = "done" /\ k \in Ids /\ k \in Elements(keys[r])
      /\ i \in Instances /\ i[2] = k
      /\ UNCHANGED <<config, instMap, insts, leaked>> /\ failed' = failed \cup Spoils(r)
      /\ inst'[i].at = "broken" /\ \A j \in Instances \ {i} : inst'[j] = inst[j]
  BY <1>0, <1>1, <1>2, CloseFailsEffect DEF configVars
<1>4. /\ source' = source /\ Single
      /\ \A p \in Ids \ failed : Good(p) \/ Touches(r, p)
  BY <1>0, StepKnows
<1>5. k \in Spoils(r)
  <2>1. keys[r] \in Seq(Ids) /\ k # None
    BY <1>0, <1>3, ProviderManagerAssumption DEF RequestOK
  <2> QED BY <1>3, <2>1 DEF Spoils, Range, Elements
<1>6. ASSUME NEW p \in Ids \ failed' PROVE Good(p)'
  <2>1. ~Touches(r, p) /\ p # k
    BY <1>0, <1>3, <1>5, <1>6, SpoilsTouched DEF Closing
  <2>2. Good(p) /\ instMap[p] # i /\ instMap[p] \in Instances \cup {None}
    BY <1>0, <1>3, <1>4, <1>6, <2>1, OtherFact
  <2> QED BY <1>3, <1>4, <2>2, GoodKept
<1>7. Single'
  <2>1. /\ leaked' = leaked /\ inst'[i].at \notin {"none", "open"} /\ inst'[i].at # "loading"
        /\ \A p \in Ids : instMap[p] \in {i, instMap'[p]} /\ instMap'[p] \in {None, instMap[p]}
    BY <1>3
  <2> QED BY <1>0, <1>3, <1>4, <2>1, SingleKept
<1> QED BY <1>0, <1>3, <1>6, <1>7, RunStep DEF Working

\* A load that fails marks the same.
LEMMA LoadFailsRuns ==
    ASSUME Base, RunInv, NEW r \in Requests, LoadFails(r)
    PROVE  RunInv'
<1>0. Shape(r) /\ RequestOK /\ Inv /\ InstOK
  BY ShapeFact, InvFact DEF Base, Progress
<1> SUFFICES ASSUME ~overlapped PROVE RunInv'
  BY <1>0 DEF RunInv, Shape
<1>1. PICK k : k = req[r].id
  OBVIOUS
<1>2. PICK i : i = <<r, k>>
  OBVIOUS
<1>3. /\ at[r] = "loading" /\ at'[r] = "done" /\ i \in Instances /\ i[2] = k
      /\ UNCHANGED <<config, instMap, insts, leaked>> /\ failed' = failed \cup Spoils(r)
      /\ inst'[i].at = "broken" /\ \A j \in Instances \ {i} : inst'[j] = inst[j]
  BY <1>0, <1>1, <1>2, LoadFailsEffect DEF configVars
<1>4. /\ source' = source /\ Single
      /\ \A p \in Ids \ failed : Good(p) \/ Touches(r, p)
  BY <1>0, StepKnows
<1>5. k \in Spoils(r)
  <2>1. k \in Ids
    BY <1>1, <1>3, SentFact DEF Deleting, PointsOf
  <2> QED BY <1>1, <1>3, <2>1, ProviderManagerAssumption DEF Spoils
<1>6. ASSUME NEW p \in Ids \ failed' PROVE Good(p)'
  <2>1. ~Touches(r, p) /\ p # k
    BY <1>0, <1>3, <1>5, <1>6, SpoilsTouched
  <2>2. Good(p) /\ instMap[p] # i /\ instMap[p] \in Instances \cup {None}
    BY <1>0, <1>3, <1>4, <1>6, <2>1, OtherFact
  <2> QED BY <1>3, <1>4, <2>2, GoodKept
<1>7. Single'
  <2>1. /\ leaked' = leaked /\ inst'[i].at \notin {"none", "open"} /\ inst'[i].at # "loading"
        /\ \A p \in Ids : instMap[p] \in {i, instMap'[p]} /\ instMap'[p] \in {None, instMap[p]}
    BY <1>3
  <2> QED BY <1>0, <1>3, <1>4, <2>1, SingleKept
<1> QED BY <1>0, <1>3, <1>6, <1>7, RunStep DEF Working

\* A load that ends: the provider runs on what it is configured with.
LEMMA LoadEndsRuns ==
    ASSUME Base, RunInv, NEW r \in Requests, LoadEnds(r)
    PROVE  RunInv'
<1>0. Shape(r) /\ RequestOK /\ Inv /\ InstOK
  BY ShapeFact, InvFact DEF Base, Progress
<1> SUFFICES ASSUME ~overlapped PROVE RunInv'
  BY <1>0 DEF RunInv, Shape
<1>1. PICK k : k = req[r].id
  OBVIOUS
<1>2. PICK i : i = <<r, k>>
  OBVIOUS
<1>3. /\ at[r] = "loading" /\ at'[r] = "loaded" /\ k \in Ids /\ i \in Instances /\ i[2] = k
      /\ inst[i].at = "loading" /\ UNCHANGED <<config, req, todo, keys, failed>>
      /\ inst'[i].at = "open" /\ inst'[i].own = inst[i].own /\ inst'[i].src = inst[i].src
      /\ \A j \in Instances \ {i} : inst'[j] = inst[j]
      /\ instMap'[k] = i /\ \A q \in Ids \ {k} : instMap'[q] = instMap[q]
      /\ Elements(insts) \cup {i} \subseteq Elements(insts')
      /\ leaked' = leaked \cup ({instMap[k]} \ {None})
  BY <1>0, <1>1, <1>2, LoadEndsEffect DEF configVars
<1>4. /\ source' = source /\ Single /\ Settled(r) /\ LoadOf(r)
      /\ \A p \in Ids \ failed : Good(p) \/ Touches(r, p)
  BY <1>0, <1>3, StepKnows DEF Working, WorkOf
<1>5. ~Deleting(r) /\ (req[r].op = "create" \/ Reloading(r))
  BY <1>3, SentFact DEF PointsOf, Deleting, Reloading
<1>6. config[k] = req[r].new /\ req[r].new.enable /\ req[r].new # None
      /\ MadeFrom(i, k, req[r].new)
  BY <1>1, <1>2, <1>3, <1>4, <1>5, SentFact DEF Settled, LoadOf, Reloading
<1>7. PICK s : s = req[r].new
  OBVIOUS
<1>8. RunsOn(k, s)'
  <2>1. i # None
    BY <1>3, ProviderManagerAssumption
  <2> QED BY <1>3, <1>4, <1>6, <1>7, <2>1 DEF RunsOn, MadeFrom
<1>9. Single'
  <2>1. /\ leaked \subseteq Instances /\ None \notin Instances /\ i # None
        /\ instMap[k] # None =>
              /\ instMap[k] \in Instances \ {i} /\ instMap[k][2] = k
              /\ inst[instMap[k]].at \notin {"none", "loading"}
    BY <1>0, <1>3, TypeParts, ProviderManagerAssumption DEF Inv, RestOK, InstOK, KnownInv,
       Used
  <2>2. i \notin leaked
    BY <1>3, <1>4 DEF Single
  <2>3. ASSUME NEW j \in Instances \ leaked', inst'[j].at = "open" PROVE j = instMap'[j[2]]
    <3>1. CASE j = i
      BY <1>3, <3>1
    <3>2. CASE j # i
      <4>1. j \notin leaked /\ j # instMap[k] /\ j[2] \in Ids /\ inst[j].at = "open"
        BY <1>3, <2>1, <2>3, <3>2 DEF Instances
      <4>2. j = instMap[j[2]]
        BY <1>4, <4>1 DEF Single
      <4>3. j[2] # k
        BY <4>1, <4>2
      <4> QED BY <1>3, <4>1, <4>2, <4>3
    <3> QED BY <3>1, <3>2
  <2>4. ASSUME NEW p \in Ids PROVE instMap'[p] \notin leaked'
    <3>1. CASE p = k
      BY <1>3, <2>1, <2>2, <3>1
    <3>2. CASE p # k
      <4>1. instMap'[p] = instMap[p] /\ instMap[p] \notin leaked
        BY <1>3, <1>4, <3>2 DEF Single
      <4>2. instMap[p] # None => instMap[p] # instMap[k]
        BY <1>0, <2>1, <3>2 DEF Inv, KnownInv
      <4> QED BY <1>3, <4>1, <4>2
    <3> QED BY <3>1, <3>2
  <2>5. ASSUME NEW j \in leaked' PROVE inst'[j].at \notin {"none", "loading"}
    BY <1>3, <1>4, <2>1, <2>2, <2>5 DEF Single
  <2> QED BY <2>3, <2>4, <2>5 DEF Single
<1>10. WorkOf(r)'
  <2>1. Settled(r)'
    BY <1>3, <1>4 DEF Settled, Reloading
  <2>2. RunsOn(req[r].id, req[r].new)'
    BY <1>1, <1>3, <1>7, <1>8 DEF RunsOn, MadeFrom
  <2>3. LoadOf(r)'
    <3>1. req'[r] = req[r] /\ req[r].new.enable
      BY <1>3, <1>6
    <3> QED BY <1>3, <2>2, <3>1 DEF LoadOf, RunsOn, MadeFrom
  <2> QED BY <1>3, <2>1, <2>3 DEF WorkOf, KeysOf, Closing, Sweep, Terminating
<1>11. ASSUME NEW p \in Ids \ failed' PROVE Good(p)' \/ Touches(r, p)'
  <2>1. CASE p = k
    <3>1. Good(k)'
      BY <1>3, <1>6, <1>7, <1>8 DEF Good
    <3> QED BY <2>1, <3>1
  <2>2. CASE p # k /\ ~Touches(r, p)
    <3>1. Good(p) /\ instMap[p] # i /\ instMap[p] \in Instances \cup {None}
      BY <1>0, <1>3, <1>4, <1>11, <2>2, OtherFact
    <3> QED BY <1>3, <1>4, <2>2, <3>1, GoodKept
  <2>3. CASE p # k /\ Touches(r, p)
    BY <1>1, <1>3, <1>5, <2>3 DEF Touches, Working, Deleting, Ahead, BeforeLoad, Sweep
  <2> QED BY <2>1, <2>2, <2>3
<1> QED BY <1>0, <1>9, <1>10, <1>11, RunStep

\* A load begins, is passed over, or fails at once.
LEMMA LoadsRuns ==
    ASSUME Base, RunInv, NEW r \in Requests, Loads(r)
    PROVE  RunInv'
<1>0. Shape(r) /\ RequestOK /\ Inv /\ InstOK
  BY ShapeFact, InvFact DEF Base, Progress
<1> SUFFICES ASSUME ~overlapped PROVE RunInv'
  BY <1>0 DEF RunInv, Shape
<1>1. PICK k : k = req[r].id
  OBVIOUS
<1>2. PICK i : i = <<r, k>>
  OBVIOUS
<1>3. /\ at[r] = "load" /\ k \in Ids /\ i \in Instances /\ i[2] = k /\ inst[i].at = "none"
      /\ UNCHANGED <<config, instMap, insts, req, todo, keys, leaked>>
      /\ \/ /\ at'[r] = "loaded" /\ inst' = inst
            /\ \/ ~req[r].new.enable /\ failed' = failed
               \/ req[r].new.enable /\ failed' = failed \cup {k}
         \/ at'[r] = "done" /\ inst' = inst /\ failed' = failed \cup Spoils(r)
         \/ /\ at'[r] = "loading" /\ req[r].new.enable /\ failed' = failed
            /\ inst'[i].at = "loading" /\ inst'[i].own = req[r].new.own
            /\ k \in Sourced => inst'[i].src = merged
            /\ \A j \in Instances \ {i} : inst'[j] = inst[j]
  BY <1>0, <1>1, <1>2, LoadsEffect DEF configVars
<1>4. /\ source' = source /\ Single /\ Settled(r) /\ LoadOf(r)
      /\ \A p \in Ids \ failed : Good(p) \/ Touches(r, p)
  BY <1>0, <1>3, StepKnows DEF Working, WorkOf
<1>5. ~Deleting(r) /\ (req[r].op = "create" \/ Reloading(r))
  BY <1>3, SentFact DEF PointsOf, Deleting, Reloading
<1>6. config[k] = req[r].new
  BY <1>1, <1>4, <1>5 DEF Settled, Reloading
<1>7. /\ Settled(r)' /\ (Reloading(r)' <=> Reloading(r)) /\ (Deleting(r)' <=> Deleting(r))
      /\ Ahead(r)' = Ahead(r)
  BY <1>3, <1>4 DEF Settled, Reloading, Deleting, Ahead
<1>8. Reloading(r) \/ k \notin failed => instMap[k] = None
  BY <1>1, <1>3, <1>4 DEF LoadOf
<1>9. CASE at'[r] = "done"
  <2>1. \A p \in Ids \ failed' : p \notin failed /\ ~Touches(r, p)
    BY <1>0, <1>3, <1>9, SpoilsTouched
  <2> QED BY <1>0, <1>3, <1>9, <2>1, QuietRun DEF Working
<1>10. CASE at'[r] = "loaded"
  <2>1. LoadOf(r)'
    <3>1. req'[r].new.enable => inst'[<<r, req'[r].id>>].at = "none"
      BY <1>1, <1>2, <1>3, <1>10
    <3>2. Reloading(r)' => instMap'[req'[r].id] = None
      BY <1>1, <1>3, <1>7, <1>8
    <3> QED BY <1>10, <3>1, <3>2 DEF LoadOf
  <2>2. WorkOf(r)'
    BY <1>7, <1>10, <2>1 DEF WorkOf, KeysOf, Closing, Sweep, Terminating
  <2>3. ASSUME NEW p \in Ids \ failed'
        PROVE  p \notin failed /\ (Touches(r, p) => Touches(r, p)' \/ Good(p)')
    <3>1. CASE p = k
      <4>1. ~req[r].new.enable /\ p \notin failed
        BY <1>3, <1>10, <2>3, <3>1
      <4>2. instMap'[p] = None /\ config'[p] = req[r].new
        BY <1>3, <1>6, <1>8, <2>3, <3>1, <4>1
      <4> QED BY <4>1, <4>2 DEF Good
    <3>2. CASE p # k
      BY <1>1, <1>3, <1>5, <1>7, <1>10, <2>3, <3>2 DEF Touches, Working, BeforeLoad, Sweep
    <3> QED BY <3>1, <3>2
  <2> QED BY <1>0, <1>3, <1>10, <2>2, <2>3, QuietRun
<1>11. CASE at'[r] = "loading"
  <2>1. source # None => merged = source
    BY DEF Base, SourceInv, source, merged
  <2>2. LoadOf(r)'
    <3>1. req'[r].new.enable /\ MadeFrom(<<r, req[r].id>>, req[r].id, req[r].new)'
      BY <1>1, <1>2, <1>3, <1>4, <1>11, <2>1 DEF MadeFrom
    <3>2. Reloading(r)' \/ req'[r].id \notin failed' =>
            instMap'[req'[r].id] = None
      BY <1>1, <1>3, <1>7, <1>8, <1>11
    <3> QED BY <1>3, <1>11, <3>1, <3>2 DEF LoadOf, MadeFrom, Sweep
  <2>3. WorkOf(r)'
    BY <1>7, <1>11, <2>2 DEF WorkOf, KeysOf, Closing, Sweep, Terminating
  <2>4. ASSUME NEW p \in Ids \ failed' PROVE Good(p)' \/ Touches(r, p)'
    <3>1. CASE Touches(r, p)
      BY <1>3, <1>7, <1>11, <3>1 DEF Touches, Working, BeforeLoad, Sweep
    <3>2. CASE ~Touches(r, p)
      <4>1. Good(p)
        BY <1>3, <1>4, <1>11, <2>4, <3>2
      <4>2. instMap[p] # None => instMap[p] \in Instances \ {i}
        BY <1>0, <1>3, InvFact DEF InstOK, KnownInv, Used
      <4> QED BY <1>3, <1>4, <1>11, <4>1, <4>2, GoodKept
    <3> QED BY <3>1, <3>2
  <2>5. Single'
    <3>1. i \notin leaked /\ \A j \in Instances \ {i} : inst'[j] = inst[j]
      BY <1>3, <1>4, <1>11 DEF Single
    <3>2. /\ leaked' = leaked /\ inst'[i].at \notin {"none", "open"}
          /\ \A p \in Ids : instMap[p] \in {i, instMap'[p]} /\ instMap'[p] \in {None, instMap[p]}
      BY <1>3, <1>11
    <3> QED BY <1>0, <1>3, <1>4, <3>1, <3>2, SingleKept
  <2> QED BY <1>0, <2>3, <2>4, <2>5, RunStep
<1> QED BY <1>3, <1>9, <1>10, <1>11

\* All steps of the request at work.
LEMMA ProgressRuns == ASSUME Base, RunInv, NEW r \in Requests, Progress(r) PROVE RunInv'
<1>1. CASE \/ Refuses(r) \/ BeginDelete(r) \/ BeginReload(r) \/ DeleteEnds(r)
           \/ CreateEnds(r) \/ Reloads(r) \/ SweepsOn(r)
  BY <1>1, QuietRuns
<1>2. CASE Terminates(r, "terminate", "closing", "terminated")
           \/ Terminates(r, "sweep", "sweeping", "swept")
  BY <1>2, TerminatesRuns
<1>3. CASE CloseEnds(r, "closing", "terminated") \/ CloseEnds(r, "sweeping", "swept")
  BY <1>3, CloseEndsRuns
<1> QED BY <1>1, <1>2, <1>3, SynchronizesRuns, ReloadEndsRuns, StoreRuns, DeletedRuns,
           CloseFailsRuns, LoadFailsRuns, LoadEndsRuns, LoadsRuns DEF Progress

\* A step that only a source that has gone tells from none.
LEMMA FrameRuns ==
    ASSUME Base, RunInv, overlapped => overlapped', booting' = booting, seen' = seen,
           UNCHANGED <<config, inst, instMap, insts, failed, leaked>>,
           booting # <<>> => current' = current,
           source' = source \/ source' = None,
           \A r \in Requests :
              \/ /\ at'[r] = at[r] /\ req'[r] = req[r] /\ todo'[r] = todo[r]
                 /\ keys'[r] = keys[r] /\ target'[r] = target[r]
              \/ ~Working(r) /\ ~Working(r)'
    PROVE  RunInv'
<1> SUFFICES ASSUME ~overlapped' PROVE RunInv'
  BY DEF RunInv
<1>1. Single /\ Sound /\ StartInv /\ \A r \in Requests : Working(r) => WorkOf(r)
  BY DEF RunInv
<1>2. \A p, s : RunsOn(p, s) => RunsOn(p, s)'
  BY DEF RunsOn, MadeFrom
<1>3. \A p : Good(p) => Good(p)'
  BY <1>2 DEF Good, RunsOn, MadeFrom
<1>4. ASSUME NEW r \in Requests, NEW p, Touches(r, p) PROVE Touches(r, p)'
  <2>1. Working(r)
    BY <1>4 DEF Touches
  <2> QED BY <1>4, <2>1 DEF Touches, Working, Deleting, Ahead
<1>5. ASSUME NEW r \in Requests, Working(r)' PROVE WorkOf(r)'
  <2>1. /\ at'[r] = at[r] /\ req'[r] = req[r] /\ todo'[r] = todo[r] /\ keys'[r] = keys[r]
        /\ target'[r] = target[r]
    BY <1>5
  <2>2. Settled(r) /\ KeysOf(r) /\ LoadOf(r)
    BY <1>1, <1>5, <2>1 DEF Working, WorkOf
  <2>3. Settled(r)' /\ KeysOf(r)'
    BY <2>1, <2>2 DEF Settled, KeysOf, Reloading
  <2>4. LoadOf(r)'
    BY <2>1, <2>2 DEF LoadOf, Reloading, RunsOn, MadeFrom
  <2> QED BY <2>3, <2>4 DEF WorkOf
<1>6. Single'
  BY <1>1 DEF Single
<1>7. Sound'
  BY <1>1, <1>3, <1>4 DEF Sound
<1>8. StartInv'
  BY <1>1 DEF StartInv
<1> QED BY <1>5, <1>6, <1>7, <1>8 DEF RunInv

\* What an edit of the source will reload.
LEMMA EditEffect ==
    ASSUME Base, NEW r \in Requests, EditSource(r)
    PROVE  /\ source = None => at'[r] = "done"
              /\ \A p \in Sourced : config[p] # None => p \in failed'
           /\ source # None =>
                 \/ at'[r] = "done" /\ \A p \in Sourced : config[p] = None
                 \/ /\ at'[r] = "reload" /\ Settled(r)'
                    /\ \A p \in Sourced : config[p] # None => p = req'[r].id \/ p \in Ahead(r)'
           /\ failed \subseteq failed' /\ config' = config
<1> DEFINE A == {p \in Sourced : source # None /\ config[p] # None}
           affected == SetToSeq(A)
           reloads == [n \in 1..Len(affected) |-> <<affected[n], config[affected[n]]>>]
<1>0. RequestOK /\ ConfigOK
  BY InvFact DEF Base
<1>1. /\ failed' = failed \cup {p \in Sourced : source = None /\ config[p] # None}
      /\ config' = config
      /\ \/ /\ reloads = <<>>
            /\ Comes(r, "edit", None, None, None)
            /\ Suspends(r, "done")
            /\ UNCHANGED <<todo, lockVars>>
         \/ /\ reloads # <<>>
            /\ Comes(r, "edit", reloads[1][1], reloads[1][1], reloads[1][2])
            /\ todo' = [todo EXCEPT ![r] = Tail(reloads)]
            /\ Acquires(r, "reload")
  BY Zenon DEF EditSource
<1>2. /\ affected \in Seq(A) /\ Elements(affected) = A /\ A \subseteq Ids
      /\ \A p \in A : config[p] \in Settings
  <2>1. IsFiniteSet(A) /\ A \subseteq Ids
    BY ProviderManagerAssumption, FS_Subset
  <2>2. \A p \in A : config[p] \in Settings
    BY <1>0, <2>1 DEF ConfigOK
  <2> HIDE DEF A
  <2> QED BY <2>1, <2>2, ListFact, ElementsFact
<1>3. source = None => A = {}
  OBVIOUS
<1>4. \A p \in Sourced : source # None /\ config[p] # None => p \in A
  OBVIOUS
<1> HIDE DEF A, affected
<1>5. /\ reloads \in Seq(Ids \X Settings) /\ Len(reloads) = Len(affected)
      /\ Len(reloads) \in Nat
      /\ \A n \in 1..Len(reloads) : reloads[n] = <<affected[n], config[affected[n]]>>
                                    /\ affected[n] \in A
  BY <1>2
<1>6. \A p \in A : \E n \in 1..Len(reloads) : reloads[n][1] = p
  BY <1>2, <1>5 DEF Elements
<1> HIDE DEF reloads
<1>7. CASE reloads = <<>>
  <2>1. at'[r] = "done"
    BY <1>0, <1>1, <1>7 DEF Suspends, RequestOK
  <2>2. A = {}
    BY <1>6, <1>7
  <2> QED BY <1>1, <1>4, <2>1, <2>2
<1>8. CASE reloads # <<>>
  <2>1. /\ Tail(reloads) \in Seq(Ids \X Settings) /\ Len(reloads) \in Nat \ {0}
        /\ Len(Tail(reloads)) = Len(reloads) - 1
        /\ \A n \in 1..Len(Tail(reloads)) : Tail(reloads)[n] = reloads[n + 1]
    BY <1>5, <1>8, TailFact
  <2>2. /\ req'[r] = [op |-> "edit", id |-> reloads[1][1], from |-> reloads[1][1],
                      new |-> reloads[1][2]]
        /\ todo'[r] = Tail(reloads) /\ at'[r] = "reload"
    BY <1>0, <1>1, <1>8 DEF Comes, Acquires, RequestOK
  <2>3. source # None
    <3>1. affected[1] \in A
      BY <1>5, <2>1
    <3> QED BY <1>3, <3>1
  <2>4. /\ config[reloads[1][1]] = reloads[1][2]
        /\ \A n \in 1..Len(todo'[r]) : config[todo'[r][n][1]] = todo'[r][n][2]
    <3>1. \A n \in 1..Len(reloads) : config[reloads[n][1]] = reloads[n][2]
      BY <1>5
    <3>2. \A n \in 1..Len(todo'[r]) : n + 1 \in 1..Len(reloads) /\ todo'[r][n] = reloads[n + 1]
      BY <2>1, <2>2
    <3>3. 1 \in 1..Len(reloads)
      BY <2>1
    <3> QED BY <3>1, <3>2, <3>3
  <2>5. Settled(r)'
    BY <1>1, <2>2, <2>4 DEF Settled, Reloading
  <2>6. ASSUME NEW p \in A PROVE p = req'[r].id \/ p \in Ahead(r)'
    <3>1. PICK n \in 1..Len(reloads) : reloads[n][1] = p
      BY <1>6
    <3>2. CASE n = 1
      BY <2>2, <3>1, <3>2
    <3>3. CASE n # 1
      <4>1. n - 1 \in 1..Len(todo'[r]) /\ todo'[r][n - 1] = reloads[n - 1 + 1] /\ n - 1 + 1 = n
        BY <2>1, <2>2, <3>3
      <4> QED BY <3>1, <4>1 DEF Ahead
    <3> QED BY <3>2, <3>3
  <2> QED BY <1>1, <1>4, <2>2, <2>3, <2>5, <2>6
<1> QED BY <1>7, <1>8

\* The requests that come; an edit of the source puts all its providers ahead.
LEMMA RequestRuns == ASSUME Base, RunInv, NEW r \in Requests, Request(r) PROVE RunInv'
<1>0. /\ Arrives(r) /\ RequestOK /\ booting = <<>>
      /\ UNCHANGED <<config, instVars, booting, leaked, keys, target>>
      /\ EditSource(r) \/ (at'[r] = "resource" /\ UNCHANGED <<sources, failed>>
                           /\ (current' = current \/ current' = r))
  BY RequestShape, RequestQuiet, InvFact DEF Base, Idle
<1>1. /\ at[r] = "away" /\ (overlapped => overlapped')
      /\ \A s \in Requests \ {r} : at'[s] = at[s] /\ req'[s] = req[s] /\ todo'[s] = todo[s]
  BY <1>0 DEF Arrives
<1>2. CASE ~EditSource(r)
  <2>1. source' = source \/ source' = None
    BY <1>0, <1>1, <1>2 DEF Base, SourceInv, source
  <2>2. \A s \in Requests :
          \/ /\ at'[s] = at[s] /\ req'[s] = req[s] /\ todo'[s] = todo[s]
             /\ keys'[s] = keys[s] /\ target'[s] = target[s]
          \/ ~Working(s) /\ ~Working(s)'
    BY <1>0, <1>1, <1>2 DEF Working
  <2>3. seen' = seen
    BY <1>2 DEF Request, Create, Update, Switch, Delete, Unsource, configVars
  <2> QED BY <1>0, <1>1, <1>2, <2>1, <2>2, <2>3, FrameRuns DEF instVars
<1>3. CASE EditSource(r)
  <2> SUFFICES ASSUME ~overlapped' PROVE RunInv'
    BY DEF RunInv
  <2>1. Active = {} /\ req'[r].op = "edit"
    <3>1. req'[r].op = "edit"
      BY <1>3, EditShape DEF Base
    <3>2. EditsSource(r)'
      BY <3>1 DEF EditsSource
    <3> QED BY <1>0, <3>1, <3>2 DEF Arrives
  <2>2. ~overlapped /\ Single /\ Sound /\ \A s \in Requests : ~Working(s)
    BY <1>1, <2>1 DEF RunInv, Active, Working
  <2>3. \A p \in Ids \ failed : Good(p)
    BY <1>0, <2>2 DEF Sound, Touches, Elements
  <2>4. ASSUME NEW p \in Ids \ failed, p \notin Sourced \/ config[p] = None
        PROVE  Good(p)'
    BY <1>0, <2>3, <2>4 DEF Good, RunsOn, MadeFrom, instVars
  <2>5. \A s \in Requests : Working(s)' => s = r
    BY <1>1, <2>2 DEF Working
  <2>6. at'[r] = "reload" /\ Settled(r)' => WorkOf(r)'
    BY DEF WorkOf, KeysOf, LoadOf, Closing, Sweep, Terminating
  <2>7. Working(r)' => WorkOf(r)'
    BY <1>3, <2>6, EditEffect DEF Working
  <2>8. ASSUME NEW p \in Ids \ failed' PROVE Good(p)' \/ Touches(r, p)'
    <3>1. CASE p \notin Sourced \/ config[p] = None
      BY <1>0, <1>3, <2>4, <2>8, <3>1, EditEffect
    <3>2. CASE p \in Sourced /\ config[p] # None
      <4>1. at'[r] = "reload" /\ (p = req'[r].id \/ p \in Ahead(r)')
        BY <1>3, <2>8, <3>2, EditEffect
      <4>2. Working(r)' /\ ~Deleting(r)'
        BY <2>1, <4>1 DEF Working, Deleting
      <4> QED BY <4>1, <4>2 DEF Touches, BeforeLoad
    <3> QED BY <3>1, <3>2
  <2>9. Single' /\ StartInv'
    BY <1>0, <2>2 DEF Single, StartInv, instVars
  <2> QED BY <2>5, <2>7, <2>8, <2>9 DEF RunInv, Sound
<1> QED BY <1>2, <1>3

\* The boot loads each enabled provider from the configuration nobody has changed yet.
LEMMA BootRuns == ASSUME Base, RunInv, BootLoads PROVE RunInv'
<1>1. PICK k : k = Head(booting)
  OBVIOUS
<1>2. PICK i : i = <<Boot, k>>
  OBVIOUS
<1>3. /\ booting # <<>> /\ k = booting[1] /\ k \in Ids /\ i \in Instances /\ i[2] = k
      /\ \A r \in Requests : at[r] = "away"
      /\ \A n \in 1..Len(booting') :
            n + 1 \in 1..Len(booting) /\ booting'[n] = booting[n + 1] /\ booting'[n] # k
      /\ \A n \in 1..Len(booting) : n = 1 \/ booting[n] \in Elements(booting')
      /\ UNCHANGED <<config, sources, current, seen, at, leaked, overlapped>>
      /\ \/ UNCHANGED instVars /\ failed' = failed \cup {k}
         \/ /\ failed' = failed
            /\ inst'[i].at = "open" /\ inst'[i].own = Boot
            /\ k \in Sourced => inst'[i].src = merged
            /\ \A j \in Instances \ {i} : inst'[j] = inst[j]
            /\ instMap'[k] = i /\ \A q \in Ids \ {k} : instMap'[q] = instMap[q]
            /\ Elements(insts) \cup {i} \subseteq Elements(insts')
  BY <1>1, <1>2, BootEffect DEF Base, configVars, requestVars
<1> SUFFICES ASSUME ~overlapped' PROVE RunInv'
  BY DEF RunInv
<1>4. Single /\ Sound /\ StartInv /\ source' = source
  BY <1>3 DEF RunInv, source
<1>5. \A r \in Requests : ~Working(r) /\ ~Working(r)'
  BY <1>3 DEF Working
<1>6. /\ instMap[k] = None /\ config[k] # None /\ config[k].enable /\ config[k].own = Boot
      /\ seen = current
  <2>1. 1 \in 1..Len(booting)
    <3>1. booting \in Seq(Ids)
      BY TypeParts DEF Base, Inv, RestOK
    <3> QED BY <1>3, <3>1
  <2> QED BY <1>3, <1>4, <2>1 DEF StartInv
<1>7. ASSUME NEW p \in Ids \ {k}
      PROVE  instMap'[p] = instMap[p] /\ (Good(p) => Good(p)')
  <2>1. instMap'[p] = instMap[p]
    BY <1>3 DEF instVars
  <2>2. instMap[p] # i /\ instMap[p] \in Instances \cup {None}
    BY <1>3, OtherFact DEF Base
  <2>3. instMap[p] # None => inst'[instMap[p]] = inst[instMap[p]]
    BY <1>3, <2>2 DEF instVars
  <2>4. Elements(insts) \subseteq Elements(insts')
    <3>1. CASE UNCHANGED instVars
      BY <3>1 DEF instVars
    <3>2. CASE ~UNCHANGED instVars
      BY <1>3, <3>2
    <3> QED BY <3>1, <3>2
  <2> QED BY <1>3, <1>4, <2>1, <2>3, <2>4, GoodKept
<1>8. Single'
  <2>1. CASE UNCHANGED instVars
    BY <1>3, <1>4, <2>1 DEF Single, instVars
  <2>2. CASE ~UNCHANGED instVars
    <3>1. leaked \subseteq Instances /\ inst[i].at = "none"
      <4>1. booting \in Seq(Ids) /\ leaked \subseteq Instances
        BY TypeParts DEF Base, Inv, RestOK
      <4>2. 1 \in 1..Len(booting)
        BY <1>3, <4>1
      <4> QED BY <1>2, <1>3, <4>1, <4>2 DEF Base, Inv, BootInv, Unmade
    <3>2. i \notin leaked /\ leaked' = leaked
      BY <1>3, <1>4, <3>1 DEF Single
    <3>3. ASSUME NEW j \in Instances \ leaked, inst'[j].at = "open" PROVE j = instMap'[j[2]]
      <4>1. CASE j = i
        BY <1>3, <2>2, <4>1
      <4>2. CASE j # i
        <5>1. j = instMap[j[2]] /\ j[2] \in Ids
          BY <1>3, <1>4, <2>2, <3>3, <4>2 DEF Single, Instances
        <5>2. j[2] # k
          BY <1>6, <5>1, ProviderManagerAssumption
        <5> QED BY <1>7, <5>1, <5>2
      <4> QED BY <4>1, <4>2
    <3>4. ASSUME NEW p \in Ids PROVE instMap'[p] \notin leaked
      <4>1. CASE p = k
        BY <1>3, <2>2, <3>2, <4>1
      <4>2. CASE p # k
        BY <1>4, <1>7, <4>2 DEF Single
      <4> QED BY <4>1, <4>2
    <3>5. ASSUME NEW j \in leaked PROVE inst'[j].at \notin {"none", "loading"}
      BY <1>3, <1>4, <2>2, <3>1, <3>2, <3>5 DEF Single
    <3> QED BY <3>2, <3>3, <3>4, <3>5 DEF Single
  <2> QED BY <2>1, <2>2
<1>9. Sound'
  <2>1. ASSUME NEW p \in Ids \ failed'
        PROVE  Good(p)' \/ p \in Elements(booting)'
    <3>1. CASE p = k
      <4>1. /\ inst'[i].at = "open" /\ inst'[i].own = Boot /\ instMap'[k] = i
            /\ k \in Sourced => inst'[i].src = merged
            /\ i \in Elements(insts') /\ i # None
        BY <1>3, <2>1, <3>1, ProviderManagerAssumption
      <4>2. merged = source
        BY <1>6 DEF merged, source
      <4>3. Good(k)'
        BY <1>3, <1>4, <1>6, <4>1, <4>2 DEF Good, RunsOn, MadeFrom
      <4> QED BY <3>1, <4>3
    <3>2. CASE p # k
      <4>1. Good(p) \/ p \in Elements(booting)
        BY <1>3, <1>4, <1>5, <2>1 DEF Sound, Touches
      <4>2. p \in Elements(booting) => p \in Elements(booting')
        <5>1. ASSUME p \in Elements(booting) PROVE p \in Elements(booting')
          <6>1. PICK n \in 1..Len(booting) : p = booting[n]
            BY <5>1 DEF Elements
          <6>2. n # 1
            BY <1>3, <3>2, <6>1
          <6> QED BY <1>3, <6>1, <6>2
        <5> QED BY <5>1
      <4>3. Elements(booting)' = Elements(booting')
        BY DEF Elements
      <4> QED BY <1>7, <3>2, <4>1, <4>2, <4>3
    <3> QED BY <3>1, <3>2
  <2> QED BY <2>1 DEF Sound
<1>10. StartInv'
  <2>1. ASSUME NEW n \in 1..Len(booting')
        PROVE  /\ instMap'[booting'[n]] = None /\ config'[booting'[n]] # None
               /\ config'[booting'[n]].enable /\ config'[booting'[n]].own = Boot
    <3>1. PICK p : p = booting'[n]
      OBVIOUS
    <3>2. n + 1 \in 1..Len(booting) /\ p = booting[n + 1] /\ p # k
      BY <1>3, <3>1
    <3>3. instMap[p] = None /\ config[p] # None /\ config[p].enable /\ config[p].own = Boot
      BY <1>3, <1>4, <3>2 DEF StartInv
    <3>4. p \in Ids
      <4>1. booting \in Seq(Ids)
        BY TypeParts DEF Base, Inv, RestOK
      <4> QED BY <3>2, <4>1
    <3> QED BY <1>3, <1>7, <3>1, <3>2, <3>3, <3>4
  <2> QED BY <1>3, <1>6, <2>1 DEF StartInv
<1> QED BY <1>5, <1>8, <1>9, <1>10 DEF RunInv

\* RunInv is inductive, given Base.
LEMMA RunNext == ASSUME Base, RunInv, [Next]_vars PROVE RunInv'
<1>1. CASE BootLoads
  BY <1>1, BootRuns
<1>2. ASSUME NEW r \in Requests, Request(r) PROVE RunInv'
  BY <1>2, RequestRuns
<1>3. ASSUME NEW r \in Requests, Progress(r) PROVE RunInv'
  BY <1>3, ProgressRuns
<1>4. ASSUME UNCHANGED <<configVars, instVars, requestVars, booting, history>> PROVE RunInv'
  BY <1>4, FrameRuns DEF configVars, instVars, requestVars, history, source
<1>5. ASSUME NEW k \in Locks, Granted(k) PROVE RunInv'
  BY <1>4, <1>5 DEF Granted
<1>6. CASE UNCHANGED vars
  BY <1>4, <1>6 DEF vars
<1> QED BY <1>1, <1>2, <1>3, <1>5, <1>6 DEF Next

\* It holds at first: what is enabled is yet to be loaded.
LEMMA RunInit == ASSUME Init PROVE RunInv
<1> DEFINE A == {p \in Ids : config[p] # None /\ config[p].enable}
<1>1. booting = SetToSeq(A) /\ \A p \in Ids : instMap[p] = None
  BY DEF Init
<1>2. Elements(booting) = A
  <2>1. IsFiniteSet(A)
    BY ProviderManagerAssumption, FS_Subset
  <2> HIDE DEF A
  <2> QED BY <1>1, <2>1, ElementsFact
<1>3. \A p \in Ids : Good(p) \/ p \in Elements(booting)
  BY <1>1, <1>2 DEF Good
<1>4. \A i \in Instances : inst[i].at = "none"
  BY DEF Init
<1>5. \A p \in A : config[p].own = Boot
  BY DEF Init
<1>6. StartInv
  <2>1. seen = current
    BY DEF Init
  <2>2. \A n \in 1..Len(booting) : booting[n] \in A
    BY <1>2 DEF Elements
  <2> QED BY <1>1, <1>5, <2>1, <2>2 DEF StartInv
<1>7. \A r \in Requests : ~Working(r)
  BY DEF Init, Working
<1>8. Single
  <2>1. leaked = {} /\ None \notin leaked
    BY DEF Init
  <2> QED BY <1>1, <1>4, <2>1 DEF Single
<1> QED BY <1>3, <1>6, <1>7, <1>8 DEF RunInv, Sound

\* With no request at work a provider that is not good would have to be marked.
LEMMA RunConfigured == Base /\ RunInv => RunsAsConfigured
<1> SUFFICES ASSUME Base, RunInv, AtRest, ~overlapped, NEW p \in Ids \ failed
             PROVE  LET i == instMap[p]
                        open == {j \in Instances : j[2] = p /\ inst[j].at \in {"open",
                                                                               "loading"}}
                    IN IF config[p] # None /\ config[p].enable
                       THEN /\ i # None /\ open \ leaked = {i} /\ i \in Range(insts)
                            /\ inst[i].own = config[p].own
                            /\ p \in Sourced /\ source # None => inst[i].src = source
                       ELSE i = None /\ open \subseteq leaked
  BY DEF RunsAsConfigured
<1> DEFINE i == instMap[p]
           open == {j \in Instances : j[2] = p /\ inst[j].at \in {"open", "loading"}}
<1>1. \A r \in Requests : at[r] \in {"away", "done"}
  BY DEF AtRest, Active
<1>2. Good(p)
  <2>1. booting = <<>>
    BY DEF AtRest, Idle
  <2>2. Elements(booting) = {}
    BY <2>1 DEF Elements
  <2> QED BY <1>1, <2>2 DEF RunInv, Sound, Touches, Working
<1>3. InstOK /\ KnownInv /\ i \in Instances \cup {None}
  BY TypeParts DEF Base, Inv, InstOK
<1>4. \A j \in Instances : inst[j].at # "loading"
  BY <1>1 DEF Base, LoadingInv
<1>5. i \notin leaked /\ \A j \in open \ leaked : j = i /\ j \in Instances
  BY <1>4 DEF RunInv, Single
<1>6. CASE config[p] # None /\ config[p].enable
  <2>1. RunsOn(p, config[p])
    BY <1>2, <1>6 DEF Good
  <2>2. i \in open
    BY <1>3, <2>1 DEF RunsOn, KnownInv
  <2>3. i \in Range(insts)
    <3>1. insts \in Seq(Instances)
      BY <1>3 DEF InstOK
    <3> QED BY <2>1, <3>1 DEF RunsOn, Elements, Range
  <2>4. open \ leaked = {i}
    BY <1>5, <2>2
  <2> QED BY <1>6, <2>1, <2>3, <2>4 DEF RunsOn, MadeFrom
<1>7. CASE ~(config[p] # None /\ config[p].enable)
  <2>1. i = None
    BY <1>2, <1>7 DEF Good
  <2>2. open \subseteq leaked
    BY <1>3, <1>5, <2>1, ProviderManagerAssumption
  <2> QED BY <1>7, <2>1, <2>2
<1> QED BY <1>6, <1>7

\* Base and RunInv are an invariant of ProviderManager, and so is its type.
THEOREM Invariance == Spec => [](Base /\ RunInv /\ TypeOK)
<1>1. Init => Base /\ RunInv
  BY BaseInit, RunInit
<1>2. Base /\ RunInv /\ [Next]_vars => Base' /\ RunInv'
  BY BaseNext, RunNext
<1>3. Base => TypeOK
  BY DEF Base, Inv
<1> QED BY <1>1, <1>2, <1>3, PTL DEF Spec

\* When no request is at work each provider runs as it is configured, whatever
\* requests overlapped and failed before, with the exceptions that are named where
\* RunsAsConfigured is: ids a failure has left behind, instances whose entry was taken,
\* and edits of the source that met another request (manager.py:749, :834).
THEOREM ProvidersConfigured == Spec => []RunsAsConfigured
BY Invariance, RunConfigured, PTL

----------------------------------------------------------------------------
(* Nobody waits for ever for a lock                                        *)

\* Where a request waits for something other than a request.
Outside == {"closing", "sweeping", "loading"}

Queues(r, k) == \E n \in 1..Len(queue[k]) : queue[k][n] = r

\* A request that does not run waits for something outside, or in the queue of the
\* lock it asks for and in no other; one that has a lock does not ask for it, and one
\* that has reload_lock does not ask for resource_lock.
WaitInv ==
    /\ \A r \in Active : running # r =>
        at[r] \in Outside \/ (at[r] \in Locks /\ Queues(r, at[r]))
    /\ \A k \in Locks : holder[k] # None =>
        holder[k] \in Active /\ (at[holder[k]] = k => running = holder[k])
    /\ holder["reload"] # None => at[holder["reload"]] # "resource"
    /\ \A k \in Locks : \A n \in 1..Len(queue[k]) :
        /\ at[queue[k][n]] = k /\ running # queue[k][n]
        /\ \A m \in 1..Len(queue[k]) : queue[k][m] = queue[k][n] => m = n
    /\ running # None => running \in Active /\ at[running] \notin Outside

CreateInv == \A r \in Requests : at[r] \in Terminating => req[r].op # "create"

LEMMA WaitTypes ==
    ASSUME Inv
    PROVE  /\ at \in [Requests -> Parts] /\ LockOK /\ None \notin Requests
           /\ running \in Requests \cup {None}
           /\ "resource" \in Locks /\ "reload" \in Locks /\ Locks = {"resource", "reload"}
           /\ \A k \in Locks : \A n \in 1..Len(queue[k]) : queue[k][n] \in Requests
<1>1. /\ at \in [Requests -> Parts] /\ LockOK /\ running \in Requests \cup {None}
      /\ None \notin Requests
  BY TypeParts, ProviderManagerAssumption DEF Inv, RequestOK, RestOK, Writers
<1>2. \A k \in Locks : queue[k] \in Seq(Requests)
  BY <1>1 DEF LockOK
<1> QED BY <1>1, <1>2 DEF Locks

\* A request has its turn: it runs, or what it waits for outside is over.
HasTurn(r) ==
    /\ at[r] \notin {"away", "done"}
    /\ running = r \/ (running = None /\ at[r] \in Outside)

\* Then it is in no queue.
LEMMA TurnFact ==
    ASSUME Inv, WaitInv, NEW r \in Requests,
           running = r \/ (running = None /\ at[r] \notin Locks)
    PROVE  \A k \in Locks : \A n \in 1..Len(queue[k]) : queue[k][n] # r
BY DEF WaitInv

\* It goes on, or comes to something outside;
LEMMA MovesWait ==
    ASSUME Inv, WaitInv, NEW r \in Requests, HasTurn(r), UNCHANGED lockVars,
           NEW p \in Parts \ {"away", "done", "resource"}, at' = [at EXCEPT ![r] = p],
           IF p \in Outside THEN running' = None ELSE running' = r
    PROVE  WaitInv'
<1>0. /\ at \in [Requests -> Parts] /\ None \notin Requests /\ at'[r] = p
      /\ \A s \in Requests \ {r} : at'[s] = at[s]
      /\ \A k \in Locks : \A n \in 1..Len(queue[k]) : queue[k][n] \in Requests
      /\ holder' = holder /\ queue' = queue /\ LockOK /\ "reload" \in Locks
  BY WaitTypes DEF lockVars
<1>1. running \in {r, None} /\ running' \in {r, None} /\ r \in Active /\ r \in Active'
  BY <1>0 DEF HasTurn, Active
<1>2. \A k \in Locks : \A n \in 1..Len(queue[k]) : queue[k][n] # r
  BY TurnFact DEF HasTurn, Outside, Locks
<1>3. ASSUME NEW s \in Active', running' # s
      PROVE  at'[s] \in Outside \/ (at'[s] \in Locks /\ Queues(s, at[s])')
  <2>1. CASE s = r
    BY <1>0, <1>3, <2>1
  <2>2. CASE s # r
    <3>1. s \in Active /\ running # s /\ at'[s] = at[s]
      BY <1>0, <1>1, <2>2 DEF Active
    <3> QED BY <1>0, <3>1 DEF WaitInv, Queues
  <2> QED BY <2>1, <2>2
<1>4. ASSUME NEW k \in Locks, holder'[k] # None
      PROVE  holder'[k] \in Active' /\ (at'[holder'[k]] = k => running' = holder'[k])
  <2>1. holder[k] \in Active /\ (at[holder[k]] = k => running = holder[k])
    BY <1>0, <1>4 DEF WaitInv
  <2>2. CASE holder[k] = r
    BY <1>0, <1>1, <2>2 DEF Locks, Outside
  <2>3. CASE holder[k] # r
    BY <1>0, <1>1, <1>4, <2>1, <2>3 DEF Active
  <2> QED BY <2>2, <2>3
<1>5. holder'["reload"] # None => at'[holder'["reload"]] # "resource"
  BY <1>0 DEF WaitInv, LockOK
<1>6. \A k \in Locks : \A n \in 1..Len(queue[k]) :
        at'[queue[k][n]] = at[queue[k][n]] /\ running' # queue[k][n]
  BY <1>0, <1>1, <1>2
<1>7. \A k \in Locks : \A n \in 1..Len(queue'[k]) :
        /\ at'[queue'[k][n]] = k /\ running' # queue'[k][n]
        /\ \A m \in 1..Len(queue'[k]) : queue'[k][m] = queue'[k][n] => m = n
  BY <1>0, <1>6 DEF WaitInv
<1>8. running' # None => running' \in Active' /\ at'[running'] \notin Outside
  BY <1>0, <1>1
<1> QED BY <1>3, <1>4, <1>5, <1>7, <1>8 DEF WaitInv

\* or it ends and gives up what locks it has;
LEMMA EndsWait ==
    ASSUME Inv, WaitInv, NEW r \in Requests, HasTurn(r), Ends(r)
    PROVE  WaitInv'
<1>0. /\ at \in [Requests -> Parts] /\ None \notin Requests /\ at'[r] = "done"
      /\ \A s \in Requests \ {r} : at'[s] = at[s]
      /\ \A k \in Locks : \A n \in 1..Len(queue[k]) : queue[k][n] \in Requests
      /\ queue' = queue /\ LockOK /\ "reload" \in Locks /\ running' = None
      /\ \A k \in Locks : holder'[k] = IF holder[k] = r THEN None ELSE holder[k]
  BY WaitTypes DEF Ends, Suspends
<1>1. running \in {r, None}
  BY DEF HasTurn
<1>2. \A k \in Locks : \A n \in 1..Len(queue[k]) : queue[k][n] # r
  BY TurnFact DEF HasTurn, Outside, Locks
<1>3. ASSUME NEW s \in Active', running' # s
      PROVE  at'[s] \in Outside \/ (at'[s] \in Locks /\ Queues(s, at[s])')
  <2>1. s # r /\ s \in Active /\ running # s /\ at'[s] = at[s]
    BY <1>0, <1>1 DEF Active
  <2> QED BY <1>0, <2>1 DEF WaitInv, Queues
<1>4. ASSUME NEW k \in Locks, holder'[k] # None
      PROVE  holder'[k] \in Active' /\ (at'[holder'[k]] = k => running' = holder'[k])
  <2>1. holder'[k] = holder[k] /\ holder[k] # r /\ holder[k] # None
    BY <1>0, <1>4
  <2>2. holder[k] \in Active /\ (at[holder[k]] = k => running = holder[k])
    BY <2>1 DEF WaitInv
  <2> QED BY <1>0, <1>1, <2>1, <2>2 DEF Active
<1>5. holder'["reload"] # None => at'[holder'["reload"]] # "resource"
  BY <1>0 DEF WaitInv, LockOK
<1>6. \A k \in Locks : \A n \in 1..Len(queue[k]) :
        at'[queue[k][n]] = at[queue[k][n]] /\ running' # queue[k][n]
  BY <1>0, <1>2
<1>7. \A k \in Locks : \A n \in 1..Len(queue'[k]) :
        /\ at'[queue'[k][n]] = k /\ running' # queue'[k][n]
        /\ \A m \in 1..Len(queue'[k]) : queue'[k][m] = queue'[k][n] => m = n
  BY <1>0, <1>6 DEF WaitInv
<1> QED BY <1>0, <1>3, <1>4, <1>5, <1>7 DEF WaitInv

\* or it gets a lock at once,
LEMMA GetsWait ==
    ASSUME Inv, WaitInv, NEW r \in Requests, NEW k \in Locks,
           running = r \/ (running = None /\ at[r] \notin Locks),
           k = "resource" => holder["reload"] # r,
           at' = [at EXCEPT ![r] = k], running' = r, queue' = queue,
           holder' = [holder EXCEPT ![k] = r]
    PROVE  WaitInv'
<1>0. /\ at \in [Requests -> Parts] /\ None \notin Requests /\ at'[r] = k
      /\ \A s \in Requests \ {r} : at'[s] = at[s]
      /\ \A l \in Locks : \A n \in 1..Len(queue[l]) : queue[l][n] \in Requests
      /\ LockOK /\ "reload" \in Locks /\ Locks = {"resource", "reload"} /\ holder'[k] = r
      /\ \A l \in Locks \ {k} : holder'[l] = holder[l]
  BY WaitTypes DEF LockOK
<1>1. running \in {r, None} /\ r \in Active' /\ k \notin Outside
  BY <1>0 DEF Active, Outside
<1>2. \A l \in Locks : \A n \in 1..Len(queue[l]) : queue[l][n] # r
  BY TurnFact
<1>3. ASSUME NEW s \in Active', running' # s
      PROVE  at'[s] \in Outside \/ (at'[s] \in Locks /\ Queues(s, at[s])')
  <2>1. s # r /\ s \in Active /\ running # s /\ at'[s] = at[s]
    BY <1>0, <1>1, <1>3 DEF Active
  <2> QED BY <1>0, <2>1 DEF WaitInv, Queues
<1>4. ASSUME NEW l \in Locks, holder'[l] # None
      PROVE  holder'[l] \in Active' /\ (at'[holder'[l]] = l => running' = holder'[l])
  <2>1. CASE holder'[l] = r
    BY <1>1, <2>1
  <2>2. CASE holder'[l] # r
    <3>1. l # k /\ holder'[l] = holder[l]
      BY <1>0, <2>2
    <3>2. holder[l] \in Active /\ (at[holder[l]] = l => running = holder[l])
      BY <1>4, <3>1 DEF WaitInv
    <3> QED BY <1>0, <1>1, <1>4, <2>2, <3>1, <3>2 DEF Active
  <2> QED BY <2>1, <2>2
<1>5. ASSUME holder'["reload"] # None PROVE at'[holder'["reload"]] # "resource"
  <2>1. CASE k = "reload"
    BY <1>0, <2>1
  <2>2. CASE k = "resource"
    <3>1. holder'["reload"] = holder["reload"] /\ holder["reload"] # r
      BY <1>0, <2>2
    <3> QED BY <1>0, <1>5, <3>1 DEF WaitInv, LockOK
  <2> QED BY <1>0, <2>1, <2>2
<1>6. \A l \in Locks : \A n \in 1..Len(queue[l]) :
        at'[queue[l][n]] = at[queue[l][n]] /\ running' # queue[l][n]
  BY <1>0, <1>2
<1>7. \A l \in Locks : \A n \in 1..Len(queue'[l]) :
        /\ at'[queue'[l][n]] = l /\ running' # queue'[l][n]
        /\ \A m \in 1..Len(queue'[l]) : queue'[l][m] = queue'[l][n] => m = n
  BY <1>6 DEF WaitInv
<1> QED BY <1>0, <1>1, <1>3, <1>4, <1>5, <1>7 DEF WaitInv

\* or it queues for one it does not have.
LEMMA JoinsWait ==
    ASSUME Inv, WaitInv, NEW r \in Requests, NEW k \in Locks,
           running = r \/ (running = None /\ at[r] \notin Locks),
           k = "resource" => holder["reload"] # r,
           at' = [at EXCEPT ![r] = k], running' = None,
           queue' = [queue EXCEPT ![k] = Append(queue[k], r)],
           holder' \in {holder, [holder EXCEPT ![k] = None]}, holder'[k] # r
    PROVE  WaitInv'
<1>0. /\ at \in [Requests -> Parts] /\ None \notin Requests /\ at'[r] = k
      /\ \A s \in Requests \ {r} : at'[s] = at[s]
      /\ \A l \in Locks : \A n \in 1..Len(queue[l]) : queue[l][n] \in Requests
      /\ LockOK /\ "reload" \in Locks /\ Locks = {"resource", "reload"}
      /\ \A l \in Locks : holder'[l] \in {holder[l], None}
      /\ \A l \in Locks \ {k} : holder'[l] = holder[l] /\ queue'[l] = queue[l]
  BY WaitTypes DEF LockOK
<1>1. running \in {r, None} /\ r \in Active' /\ k \notin Outside
  BY <1>0 DEF Active, Outside
<1>2. \A l \in Locks : \A n \in 1..Len(queue[l]) : queue[l][n] # r
  BY TurnFact
<1>a. /\ Len(queue'[k]) = Len(queue[k]) + 1 /\ Len(queue[k]) \in Nat
      /\ queue'[k][Len(queue[k]) + 1] = r
      /\ \A n \in 1..Len(queue[k]) : queue'[k][n] = queue[k][n]
  <2>1. queue[k] \in Seq(Requests) /\ queue'[k] = Append(queue[k], r)
    BY <1>0 DEF LockOK
  <2> QED BY <2>1
<1>b. Queues(r, k)' /\ \A l \in Locks, s \in Requests : Queues(s, l) => Queues(s, l)'
  BY <1>0, <1>a DEF Queues
<1>3. ASSUME NEW s \in Active', running' # s
      PROVE  at'[s] \in Outside \/ (at'[s] \in Locks /\ Queues(s, at[s])')
  <2>1. CASE s = r
    BY <1>0, <1>b, <2>1
  <2>2. CASE s # r
    <3>1. s \in Active /\ running # s /\ at'[s] = at[s] /\ s \in Requests
      BY <1>0, <1>1, <2>2 DEF Active
    <3>2. at[s] \in Outside \/ (at[s] \in Locks /\ Queues(s, at[s]))
      BY <3>1 DEF WaitInv
    <3> QED BY <1>b, <3>1, <3>2
  <2> QED BY <2>1, <2>2
<1>4. ASSUME NEW l \in Locks, holder'[l] # None
      PROVE  holder'[l] \in Active' /\ (at'[holder'[l]] = l => running' = holder'[l])
  <2>1. holder'[l] = holder[l]
    BY <1>0, <1>4
  <2>2. holder[l] \in Active /\ (at[holder[l]] = l => running = holder[l])
    BY <1>4, <2>1 DEF WaitInv
  <2>3. CASE holder[l] = r
    BY <1>0, <1>1, <2>1, <2>3
  <2>4. CASE holder[l] # r
    BY <1>0, <1>1, <1>4, <2>1, <2>2, <2>4 DEF Active
  <2> QED BY <2>3, <2>4
<1>5. ASSUME holder'["reload"] # None PROVE at'[holder'["reload"]] # "resource"
  <2>1. holder'["reload"] = holder["reload"] /\ holder["reload"] \in Requests
    BY <1>0, <1>5 DEF LockOK
  <2>2. holder["reload"] # r
    BY <1>0, <2>1
  <2> QED BY <1>0, <1>5, <2>1, <2>2 DEF WaitInv
<1>6. ASSUME NEW l \in Locks, NEW n \in 1..Len(queue'[l])
      PROVE  /\ at'[queue'[l][n]] = l /\ running' # queue'[l][n]
             /\ \A m \in 1..Len(queue'[l]) : queue'[l][m] = queue'[l][n] => m = n
  <2>1. CASE l # k
    <3>1. queue'[l] = queue[l] /\ queue[l][n] \in Requests \ {r}
      BY <1>0, <1>2, <2>1
    <3> QED BY <1>0, <3>1 DEF WaitInv
  <2>2. CASE l = k /\ n \in 1..Len(queue[k])
    <3>1. queue'[l][n] = queue[k][n] /\ queue[k][n] \in Requests \ {r}
      BY <1>0, <1>2, <1>a, <2>2
    <3>2. ASSUME NEW m \in 1..Len(queue'[l]), queue'[l][m] = queue'[l][n] PROVE m = n
      <4>1. m \in 1..Len(queue[k])
        BY <1>a, <2>2, <3>1, <3>2
      <4> QED BY <1>a, <2>2, <3>1, <3>2, <4>1 DEF WaitInv
    <3> QED BY <1>0, <2>2, <3>1, <3>2 DEF WaitInv
  <2>3. CASE l = k /\ n = Len(queue[k]) + 1
    <3>1. queue'[l][n] = r
      BY <1>a, <2>3
    <3>2. ASSUME NEW m \in 1..Len(queue'[l]), queue'[l][m] = queue'[l][n] PROVE m = n
      <4>1. m \notin 1..Len(queue[k])
        BY <1>2, <1>a, <2>3, <3>1, <3>2
      <4> QED BY <1>a, <2>3, <4>1
    <3> QED BY <1>0, <2>3, <3>1, <3>2
  <2> QED BY <1>a, <2>1, <2>2, <2>3
<1>7. WaitInv'
  BY <1>3, <1>4, <1>5, <1>6 DEF WaitInv
<1> QED BY <1>7

LEMMA AcquiresWait ==
    ASSUME Inv, WaitInv, NEW r \in Requests, NEW k \in Locks, Acquires(r, k),
           running = r \/ (running = None /\ at[r] \notin Locks),
           k = "resource" => holder["reload"] # r, holder[k] # r
    PROVE  WaitInv'
<1>1. CASE holder[k] = None /\ queue[k] = <<>>
  BY <1>1, GetsWait DEF Acquires, Lock!Enter
<1>2. CASE ~(holder[k] = None /\ queue[k] = <<>>)
  BY <1>2, JoinsWait DEF Acquires, Lock!Enter
<1> QED BY <1>1, <1>2

\* What a request does by itself.
LEMMA ProgressWait == ASSUME Inv, WaitInv, NEW r \in Requests, Progress(r) PROVE WaitInv'
<1>0. /\ None # r /\ "reload" \in Locks /\ "resource" \in Locks /\ LockOK
      /\ Outside \subseteq Parts
  BY WaitTypes DEF Outside, Parts
<1>a. /\ \A p \in Parts \ {"away", "done"} : Runs(r, p) => HasTurn(r)
      /\ \A p \in Outside : Idle /\ at[r] = p => HasTurn(r)
  BY DEF Runs, HasTurn, Idle, Outside
<1>b. ASSUME HasTurn(r), UNCHANGED lockVars,
             NEW p \in Parts \ ({"away", "done", "resource"} \cup Outside), Continues(r, p)
      PROVE  WaitInv'
  BY <1>b, MovesWait DEF Continues
<1>c. ASSUME HasTurn(r), UNCHANGED lockVars, NEW p \in Outside, Suspends(r, p)
      PROVE  WaitInv'
  <2>1. p \in Parts \ {"away", "done", "resource"}
    BY <1>0 DEF Outside
  <2> QED BY <1>c, <2>1, MovesWait DEF Suspends
<1>d. HasTurn(r) /\ Ends(r) => WaitInv'
  BY EndsWait
<1> DEFINE Goes == Parts \ ({"away", "done", "resource"} \cup Outside)
<1>e. /\ {"reload", "terminate", "terminated", "load", "loaded", "sweep", "swept"} = Goes
      /\ {"closing", "sweeping", "loading"} = Outside
  BY DEF Parts, Outside
<1>f. \A p \in {"resource", "reload", "terminate", "terminated", "load", "loaded", "sweep",
                "swept"} : Runs(r, p) => HasTurn(r)
  BY <1>a DEF Parts
<1>g. \A p \in {"reload", "terminate", "terminated", "load", "loaded", "sweep", "swept"} :
        HasTurn(r) /\ UNCHANGED lockVars /\ Continues(r, p) => WaitInv'
  BY <1>b, <1>e
<1>h. \A p \in {"closing", "sweeping", "loading"} :
        /\ Idle /\ at[r] = p => HasTurn(r)
        /\ HasTurn(r) /\ UNCHANGED lockVars /\ Suspends(r, p) => WaitInv'
  BY <1>a, <1>c, <1>e
<1>1. CASE Refuses(r) \/ DeleteEnds(r) \/ CreateEnds(r)
  BY <1>1, <1>d, <1>f DEF Refuses, DeleteEnds, CreateEnds
<1>2. CASE StoreCreated(r) \/ BeginDelete(r) \/ BeginReload(r)
  BY <1>2, <1>f, <1>g DEF StoreCreated, BeginDelete, BeginReload
<1>3. CASE StoreUpdated(r)
  <2>1. running = r /\ at[r] = "resource" /\ Acquires(r, "reload")
    BY <1>3 DEF StoreUpdated, Runs
  <2>2. holder["reload"] # r
    BY <1>0, <2>1 DEF WaitInv
  <2> QED BY <1>0, <2>1, <2>2, AcquiresWait
<1>4. CASE Terminates(r, "terminate", "closing", "terminated")
  BY <1>4, <1>f, <1>g, <1>h DEF Terminates
<1>5. CASE Terminates(r, "sweep", "sweeping", "swept")
  BY <1>5, <1>f, <1>g, <1>h DEF Terminates
<1>6. CASE CloseEnds(r, "closing", "terminated")
  BY <1>6, <1>d, <1>g, <1>h DEF CloseEnds, lockVars
<1>7. CASE CloseEnds(r, "sweeping", "swept")
  BY <1>7, <1>d, <1>g, <1>h DEF CloseEnds, lockVars
<1>8. CASE CloseFails(r) \/ LoadFails(r)
  BY <1>8, <1>d, <1>h DEF CloseFails, LoadFails
<1>9. CASE Loads(r)
  BY <1>9, <1>d, <1>f, <1>g, <1>h DEF Loads, lockVars
<1>10. CASE LoadEnds(r)
  BY <1>10, <1>g, <1>h DEF LoadEnds
<1>11. CASE Deleted(r) \/ Reloads(r)
  BY <1>11, <1>f, <1>g DEF Deleted, Reloads
<1>12. CASE Synchronizes(r) \/ SweepsOn(r)
  BY <1>12, <1>f, <1>g DEF Synchronizes, SweepsOn
<1>13. CASE ReloadEnds(r)
  <2>1. Runs(r, "sweep") /\ HasTurn(r)
    BY <1>13, <1>f DEF ReloadEnds
  <2>2. CASE Ends(r)
    BY <1>d, <2>1, <2>2
  <2>3. CASE Continues(r, "reload") /\ UNCHANGED lockVars
    BY <1>g, <2>1, <2>3
  <2>4. CASE /\ Suspends(r, "reload")
             /\ holder' = [holder EXCEPT !["reload"] = None]
             /\ queue' = [queue EXCEPT !["reload"] = Append(@, r)]
    <3>1. holder'["reload"] # r
      BY <1>0, <2>4 DEF LockOK
    <3>2. queue' = [queue EXCEPT !["reload"] = Append(queue["reload"], r)]
      BY <2>4
    <3> QED BY <1>0, <2>1, <2>4, <3>1, <3>2, JoinsWait DEF Suspends, Runs
  <2> QED BY <1>13, <2>2, <2>3, <2>4 DEF ReloadEnds
<1> QED BY <1>1, <1>2, <1>3, <1>4, <1>5, <1>6, <1>7, <1>8, <1>9, <1>10, <1>11, <1>12,
           <1>13 DEF Progress

\* A request that comes asks for a lock, or is over at once.
LEMMA RequestWait == ASSUME Inv, WaitInv, NEW r \in Requests, Request(r) PROVE WaitInv'
<1>0. /\ None # r /\ "reload" \in Locks /\ "resource" \in Locks /\ LockOK
      /\ at \in [Requests -> Parts] /\ "away" \notin Locks
  BY WaitTypes DEF Locks
<1>1. running = None /\ at[r] = "away"
  BY DEF Request, Create, Update, Switch, Delete, Unsource, EditSource, Comes, Idle
<1>2. \A k \in Locks : holder[k] # r
  BY <1>0, <1>1 DEF WaitInv, Active
<1>3. \/ \E k \in Locks : Acquires(r, k)
      \/ Suspends(r, "done") /\ UNCHANGED lockVars
  BY <1>0 DEF Request, Create, Update, Switch, Delete, Unsource, EditSource
<1>4. CASE \E k \in Locks : Acquires(r, k)
  BY <1>0, <1>1, <1>2, <1>4, AcquiresWait
<1>5. CASE Suspends(r, "done") /\ UNCHANGED lockVars
  <2>1. /\ running' = None /\ at'[r] = "done" /\ Active' = Active
        /\ \A s \in Active : at'[s] = at[s]
        /\ holder' = holder /\ queue' = queue
    BY <1>0, <1>1, <1>5 DEF Suspends, Active, lockVars
  <2>2. \A k \in Locks : \A n \in 1..Len(queue[k]) :
          queue[k][n] \in Requests /\ at'[queue[k][n]] = at[queue[k][n]]
    <3>1. \A k \in Locks : \A n \in 1..Len(queue[k]) :
            queue[k][n] \in Requests /\ at[queue[k][n]] = k
      BY WaitTypes DEF WaitInv
    <3>2. \A k \in Locks : k \notin {"away", "done"}
      BY DEF Locks
    <3> QED BY <2>1, <3>1, <3>2 DEF Active
  <2> QED BY <1>0, <1>1, <2>1, <2>2 DEF WaitInv, Queues
<1> QED BY <1>3, <1>4, <1>5

\* The first of a queue leaves it with the lock.
LEMMA GrantedWait == ASSUME Inv, WaitInv, NEW k \in Locks, Granted(k) PROVE WaitInv'
<1> DEFINE h == Head(queue[k])
<1>1. /\ holder[k] = None /\ queue[k] # <<>> /\ running = None /\ running' = h
      /\ holder' = [holder EXCEPT ![k] = h] /\ queue' = [queue EXCEPT ![k] = Tail(queue[k])]
      /\ at' = at
  BY DEF Granted, Lock!Grant, Idle, requestVars
<1>2. /\ at \in [Requests -> Parts] /\ LockOK /\ None \notin Requests
      /\ Locks = {"resource", "reload"}
      /\ \A l \in Locks : \A n \in 1..Len(queue[l]) : queue[l][n] \in Requests
  BY WaitTypes
<1>3. /\ h = queue[k][1] /\ 1 \in 1..Len(queue[k]) /\ h \in Requests
      /\ Len(Tail(queue[k])) = Len(queue[k]) - 1 /\ Len(queue[k]) \in Nat
      /\ \A n \in 1..Len(Tail(queue[k])) : Tail(queue[k])[n] = queue[k][n + 1]
  <2>1. queue[k] \in Seq(Requests) /\ queue[k] # <<>>
    BY <1>1, <1>2 DEF LockOK
  <2> QED BY <2>1, TailFact
<1>4. /\ holder'[k] = h /\ queue'[k] = Tail(queue[k])
      /\ \A l \in Locks \ {k} : holder'[l] = holder[l] /\ queue'[l] = queue[l]
  BY <1>1, <1>2 DEF LockOK
<1> HIDE DEF h
<1>5. at[h] = k /\ h \in Active
  BY <1>2, <1>3 DEF WaitInv, Active
<1>6. ASSUME NEW s \in Active', running' # s
      PROVE  at'[s] \in Outside \/ (at'[s] \in Locks /\ Queues(s, at[s])')
  <2>1. s \in Active /\ s # h /\ at'[s] = at[s] /\ s \in Requests /\ running # s
    BY <1>1, <1>2, <1>6 DEF Active
  <2>2. CASE at[s] \in Locks /\ Queues(s, at[s])
    <3>1. PICK n \in 1..Len(queue[at[s]]) : queue[at[s]][n] = s
      BY <2>2 DEF Queues
    <3>2. CASE at[s] = k
      <4>1. n # 1
        BY <1>3, <2>1, <3>1, <3>2
      <4>2. n - 1 \in 1..Len(Tail(queue[k])) /\ Tail(queue[k])[n - 1] = s
        <5>1. n - 1 \in 1..Len(Tail(queue[k])) /\ (n - 1) + 1 = n
          BY <1>3, <3>1, <3>2, <4>1
        <5> QED BY <1>3, <3>1, <3>2, <5>1
      <4> QED BY <1>4, <2>1, <2>2, <3>2, <4>2 DEF Queues
    <3>3. CASE at[s] # k
      BY <1>4, <2>1, <2>2, <3>1, <3>3 DEF Queues
    <3> QED BY <3>2, <3>3
  <2> QED BY <2>1, <2>2 DEF WaitInv
<1>7. ASSUME NEW l \in Locks, holder'[l] # None
      PROVE  holder'[l] \in Active' /\ (at'[holder'[l]] = l => running' = holder'[l])
  <2>1. CASE l = k
    BY <1>1, <1>4, <1>5, <2>1 DEF Active
  <2>2. CASE l # k
    <3>1. holder'[l] = holder[l]
      BY <1>4, <2>2
    <3>2. holder[l] \in Active /\ at[holder[l]] # l
      BY <1>1, <1>7, <3>1 DEF WaitInv
    <3> QED BY <1>1, <3>1, <3>2 DEF Active
  <2> QED BY <2>1, <2>2
<1>8. holder'["reload"] # None => at'[holder'["reload"]] # "resource"
  <2>1. CASE k = "reload"
    BY <1>1, <1>4, <1>5, <2>1
  <2>2. CASE k # "reload"
    BY <1>1, <1>2, <1>4, <2>2 DEF WaitInv
  <2> QED BY <2>1, <2>2
<1>9. ASSUME NEW l \in Locks, NEW n \in 1..Len(queue'[l])
      PROVE  /\ at'[queue'[l][n]] = l /\ running' # queue'[l][n]
             /\ \A m \in 1..Len(queue'[l]) : queue'[l][m] = queue'[l][n] => m = n
  <2>1. CASE l = k
    <3>1. /\ n + 1 \in 1..Len(queue[k]) /\ queue'[l][n] = queue[k][n + 1] /\ n \in Int
          /\ \A m \in 1..Len(queue'[l]) :
               m + 1 \in 1..Len(queue[k]) /\ queue'[l][m] = queue[k][m + 1]
      <4>1. queue'[l] = Tail(queue[k]) /\ Len(queue'[l]) = Len(queue[k]) - 1
        BY <1>3, <1>4, <2>1
      <4>2. n \in 1..Len(queue'[l]) /\ Len(queue[k]) \in Nat
        BY <1>3
      <4>3. \A m \in 1..Len(queue'[l]) : m + 1 \in 1..Len(queue[k])
        BY <4>1, <4>2
      <4>4. \A m \in 1..Len(queue'[l]) : queue'[l][m] = queue[k][m + 1]
        BY <1>3, <4>1
      <4> QED BY <4>1, <4>2, <4>3, <4>4
    <3>2. \A m \in 1..Len(queue[k]) : queue[k][m] = queue[k][n + 1] => m = n + 1
      BY <3>1 DEF WaitInv
    <3>3. n + 1 # 1
      OBVIOUS
    <3>4. queue'[l][n] # h
      BY <1>3, <3>1, <3>2, <3>3
    <3>5. at[queue[k][n + 1]] = k
      BY <3>1 DEF WaitInv
    <3>6. ASSUME NEW m \in 1..Len(queue'[l]), queue'[l][m] = queue'[l][n] PROVE m = n
      <4>1. m + 1 = n + 1
        BY <3>1, <3>2, <3>6
      <4> QED BY <4>1
    <3> QED BY <1>1, <2>1, <3>1, <3>4, <3>5, <3>6
  <2>2. CASE l # k
    <3>1. queue'[l] = queue[l]
      BY <1>4, <2>2
    <3>2. at[queue[l][n]] = l
      BY <3>1 DEF WaitInv
    <3>3. queue[l][n] # h
      BY <1>5, <2>2, <3>2
    <3>4. \A m \in 1..Len(queue[l]) : queue[l][m] = queue[l][n] => m = n
      BY <3>1 DEF WaitInv
    <3> QED BY <1>1, <3>1, <3>2, <3>3, <3>4
  <2> QED BY <2>1, <2>2
<1>10. running' # None => running' \in Active' /\ at'[running'] \notin Outside
  <2>1. k \notin Outside
    BY <1>2 DEF Outside
  <2> QED BY <1>1, <1>5, <2>1 DEF Active
<1> QED BY <1>6, <1>7, <1>8, <1>9, <1>10 DEF WaitInv

LEMMA WaitNext == ASSUME Inv, WaitInv, [Next]_vars PROVE WaitInv'
<1>1. CASE BootLoads \/ UNCHANGED vars
  <2>1. UNCHANGED <<at, running, holder, queue>>
    BY <1>1 DEF BootLoads, vars, requestVars, lockVars
  <2> QED BY <2>1 DEF WaitInv, Active, Queues
<1> QED BY <1>1, RequestWait, ProgressWait, GrantedWait DEF Next

LEMMA WaitInit == ASSUME Init PROVE WaitInv
<1>1. /\ Active = {} /\ running = None
      /\ \A k \in Locks : holder[k] = None /\ queue[k] = <<>>
  BY DEF Init, Active, Lock!Init
<1>2. "reload" \in Locks /\ \A k \in Locks : Len(queue[k]) = 0
  BY <1>1 DEF Locks
<1> QED BY <1>1, <1>2 DEF WaitInv

\* Only a request that deletes or reloads terminates anything before it loads.
LEMMA CreateNext == ASSUME Inv, CreateInv, [Next]_vars PROVE CreateInv'
<1>1. CASE BootLoads \/ UNCHANGED vars \/ \E k \in Locks : Granted(k)
  <2>1. at' = at /\ req' = req
    BY <1>1 DEF BootLoads, Granted, vars, requestVars
  <2> QED BY <2>1 DEF CreateInv
<1>2. ASSUME NEW r \in Requests, Request(r) PROVE CreateInv'
  BY <1>2, RequestShape DEF Arrives, CreateInv, Terminating
<1>3. ASSUME NEW r \in Requests, Progress(r) PROVE CreateInv'
  <2>0. PointsOf(r) /\ RequestOK
    BY InvFact
  <2>a. \A p : Continues(r, p) \/ Suspends(r, p) => at'[r] = p
    BY <2>0 DEF Continues, Suspends, RequestOK
  <2>b. Ends(r) => at'[r] = "done"
    BY <2>a DEF Ends
  <2>1. at'[r] \notin Terminating \/ at[r] \in Terminating \/ req[r].op # "create"
    <3>1. CASE BeginDelete(r) \/ BeginReload(r)
      BY <2>0, <3>1 DEF BeginDelete, BeginReload, Runs, PointsOf
    <3>2. CASE Refuses(r) \/ DeleteEnds(r) \/ CreateEnds(r) \/ CloseFails(r) \/ LoadFails(r)
      BY <2>b, <3>2 DEF Refuses, DeleteEnds, CreateEnds, CloseFails, LoadFails, Terminating
    <3>3. CASE StoreCreated(r) \/ Reloads(r) \/ Synchronizes(r) \/ SweepsOn(r) \/ LoadEnds(r)
      BY <2>a, <3>3 DEF StoreCreated, Reloads, Synchronizes, SweepsOn, LoadEnds, Terminating
    <3>4. CASE StoreUpdated(r)
      BY <2>0, <3>4 DEF StoreUpdated, Acquires, Terminating, RequestOK
    <3>5. CASE \/ Terminates(r, "terminate", "closing", "terminated")
               \/ CloseEnds(r, "closing", "terminated") \/ Deleted(r)
      BY <3>5 DEF Terminates, CloseEnds, Deleted, Runs, Terminating
    <3>6. CASE Terminates(r, "sweep", "sweeping", "swept")
      BY <2>a, <3>6 DEF Terminates, Terminating
    <3>7. CASE CloseEnds(r, "sweeping", "swept")
      BY <2>a, <2>b, <3>7 DEF CloseEnds, Terminating
    <3>8. CASE Loads(r)
      BY <2>a, <2>b, <3>8 DEF Loads, Terminating
    <3>9. CASE ReloadEnds(r)
      BY <2>a, <2>b, <3>9 DEF ReloadEnds, Terminating
    <3> QED BY <1>3, <3>1, <3>2, <3>3, <3>4, <3>5, <3>6, <3>7, <3>8, <3>9 DEF Progress
  <2>2. Shape(r)
    BY <1>3, ShapeFact
  <2> QED BY <2>1, <2>2 DEF CreateInv, Shape, Moves
<1> QED BY <1>1, <1>2, <1>3 DEF Next

\* The guards of what a request does: it goes on where it is, what it waits for
\* outside ends, or it is given the lock it is the first to wait for.
CanGoOn(r) ==
    \/ /\ running = r
       /\ \/ at[r] = "resource" /\ req[r].op \in {"create", "update", "delete", "unsource"}
          \/ at[r] \in {"reload", "terminate", "load", "sweep"}
          \/ at[r] = "terminated" /\ req[r].op \in {"delete", "unsource", "update", "edit"}
          \/ at[r] = "loaded" /\ req[r].op \in {"create", "update", "edit"}
          \/ at[r] = "swept" /\ keys[r] # <<>>
    \/ Idle /\ at[r] \in Outside
    \/ Idle /\ \E k \in Locks : holder[k] = None /\ queue[k] # <<>> /\ Head(queue[k]) = r

\* Of the requests under way one can go on: the holder of a lock may wait for
\* reload_lock, and the holder of that one waits for no lock.
LEMMA GoesOn ==
    ASSUME Base, WaitInv, CreateInv, Active # {}
    PROVE  \E r \in Active : CanGoOn(r)
<1>0. /\ Inv /\ SentInv /\ RequestOK
      /\ None \notin Requests /\ Locks = {"resource", "reload"} /\ LockOK
  BY WaitTypes, TypeParts DEF Base, Inv
<1>1. CASE running # None
  <2> DEFINE r == running
  <2>1. r \in Active /\ at[r] \notin Outside /\ r \in Requests
    BY <1>1 DEF WaitInv, Active
  <2>2. PointsOf(r) /\ req[r] \in ReqType /\ at[r] \in Parts
    BY <1>0, <2>1, InvFact DEF RequestOK
  <2>3. /\ at[r] \notin {"away", "done"} /\ req[r].op # "none"
        /\ at[r] = "terminated" => req[r].op # "create"
        /\ req[r].op \in {"none", "create", "update", "delete", "edit", "unsource"}
    BY <1>0, <2>1, <2>2 DEF Active, SentInv, CreateInv, Terminating, ReqType
  <2>4. CanGoOn(r)
    BY <2>1, <2>2, <2>3 DEF CanGoOn, PointsOf, Parts, Outside
  <2> QED BY <2>1, <2>4
<1>2. CASE running = None
  <2>1. Idle
    <3>1. PICK r \in Active : TRUE
      OBVIOUS
    <3> QED BY <1>0, <1>2, <3>1, Booted DEF Active, Idle
  <2>2. CASE \E r \in Active : at[r] \in Outside
    BY <2>1, <2>2 DEF CanGoOn
  <2>3. CASE \E k \in Locks : holder[k] = None /\ queue[k] # <<>>
    <3>1. PICK k \in Locks : holder[k] = None /\ queue[k] # <<>>
      BY <2>3
    <3>2. queue[k] \in Seq(Requests)
      BY <1>0 DEF LockOK
    <3>3. Head(queue[k]) = queue[k][1] /\ 1 \in 1..Len(queue[k]) /\ queue[k][1] \in Requests
      BY <3>1, <3>2, TailFact
    <3>4. Head(queue[k]) \in Active
      BY <1>0, <3>3 DEF WaitInv, Active
    <3> QED BY <2>1, <3>1, <3>4 DEF CanGoOn
  <2>4. CASE /\ \A r \in Active : at[r] \notin Outside
             /\ \A k \in Locks : queue[k] # <<>> => holder[k] # None
    <3>1. \A r \in Active : at[r] \in Locks /\ holder[at[r]] # None
      <4> SUFFICES ASSUME NEW r \in Active PROVE at[r] \in Locks /\ holder[at[r]] # None
        OBVIOUS
      <4>1. at[r] \in Locks /\ Queues(r, at[r])
        BY <1>0, <1>2, <2>4 DEF WaitInv, Active
      <4>2. queue[at[r]] # <<>>
        BY <1>0, <4>1 DEF Queues, LockOK
      <4> QED BY <2>4, <4>1, <4>2
    <3>2. \A k \in Locks : holder[k] # None => holder[k] \in Active /\ at[holder[k]] # k
      BY <1>0, <1>2 DEF WaitInv
    <3>3. holder["reload"] = None
      BY <1>0, <3>1, <3>2 DEF WaitInv
    <3>4. holder["resource"] = None
      BY <1>0, <3>1, <3>2, <3>3
    <3> QED BY <1>0, <3>1, <3>3, <3>4
  <2> QED BY <2>2, <2>3, <2>4
<1> QED BY <1>1, <1>2

\* As long as requests are under way one of them can go on, whichever overlap and
\* whichever raise: those that take reload_lock inside of resource_lock and those
\* that take it alone never wait for one another in a circle (manager.py:748, :859).
THEOREM NeverStuck == Spec => [](Active # {} => \E r \in Active : CanGoOn(r))
<1>1. Init => Base /\ WaitInv /\ CreateInv
  <2>1. Init => CreateInv
    BY DEF Init, CreateInv, Terminating
  <2> QED BY <2>1, BaseInit, WaitInit
<1>2. Base /\ WaitInv /\ CreateInv /\ [Next]_vars => Base' /\ WaitInv' /\ CreateInv'
  BY BaseNext, WaitNext, CreateNext DEF Base
<1>3. Base /\ WaitInv /\ CreateInv => (Active # {} => \E r \in Active : CanGoOn(r))
  BY GoesOn
<1> QED BY <1>1, <1>2, <1>3, PTL DEF Spec
=============================================================================
