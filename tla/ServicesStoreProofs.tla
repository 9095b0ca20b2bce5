------------------------ MODULE ServicesStoreProofs ------------------------
(***************************************************************************)
(* Theorems about ServicesStore, for any names, specifications, clicks and *)
(* troubles.                                                               *)
(***************************************************************************)
EXTENDS ServicesStore, TLAPS

(* One list is on its way at most; once read it is no older than the one   *)
(* that is shown and what a deletion asked for.                            *)
FetchInv ==
    /\ fetches = {} \/ \E f \in Fetch : fetches = {f}
    /\ shownAt <= index
    /\ owed <= index
    /\ \A f \in fetches : f # Unread =>
          shownAt <= f.at /\ owed <= f.at /\ f.at <= index

VersionInv ==
    /\ \A n \in DOMAIN swarm : swarm[n].version <= index
    /\ \A i \in Slot : calls[i] # None => calls[i].version <= index

(* The two calls of an update: what was read is still so, or is known to   *)
(* have been touched.                                                      *)
CallOK(call, c) ==
    /\ call.kind # "delete" => call.spec \in Scale
    /\ call.step = "read" => call.kind = "update"
    /\ call.step = "read" /\ ~call.touched =>
          call.name \in DOMAIN c /\ c[call.name].version = call.version

CallInv == \A i \in Slot : calls[i] # None => CallOK(calls[i], swarm)

FormInv == page = "update" => id \in Name

StoreInv == TypeOK /\ FormInv /\ FetchInv /\ VersionInv /\ CallInv /\ DeletionsShow

-----------------------------------------------------------------------------
(* What the Swarm is asked to do keeps its services well typed.            *)
LEMMA WithServices ==
    ASSUME NEW c, IsServices(c), NEW n \in Name, NEW s \in Scale \ Invalid,
           NEW k \in Nat
    PROVE  /\ IsServices(With(c, n, s, k))
           /\ DOMAIN With(c, n, s, k) = DOMAIN c \cup {n}
           /\ With(c, n, s, k)[n] = [spec |-> s, version |-> k]
           /\ \A m \in DOMAIN c : m # n => With(c, n, s, k)[m] = c[m]
BY DEF IsServices, With, Service

LEMMA CreatedServices ==
    ASSUME NEW c, IsServices(c), NEW n \in Name, NEW s \in Scale, NEW k \in Nat
    PROVE  IsServices(Created(c, n, s, k))
BY WithServices DEF Created, CanCreate

LEMMA UpdatedServices ==
    ASSUME NEW c, IsServices(c), NEW n \in Name, NEW s \in Scale, NEW k \in Nat,
           NEW v \in Nat
    PROVE  IsServices(Updated(c, n, s, v, k))
BY WithServices DEF Updated

LEMMA DeletedServices ==
    ASSUME NEW c, IsServices(c), NEW n
    PROVE  /\ IsServices(Deleted(c, n))
           /\ DOMAIN Deleted(c, n) = DOMAIN c \ {n}
           /\ \A m \in DOMAIN Deleted(c, n) : Deleted(c, n)[m] = c[m]
BY DEF IsServices, Deleted

LEMMA ListedComponents ==
    ASSUME NEW c, IsServices(c)
    PROVE  getServices(c) \in Components
<1>1. getServices(c) \in [DOMAIN c -> Scale \ Invalid]
  BY DEF IsServices, getServices, Service
<1>2. DOMAIN c \in SUBSET Name
  BY DEF IsServices
<1> QED  BY <1>1, <1>2 DEF Components

(* No change gives a service a version above the index of the change.      *)
LEMMA VersionsGrow ==
    ASSUME NEW c, IsServices(c), NEW k \in Nat,
           \A m \in DOMAIN c : c[m].version <= k
    PROVE  /\ \A n \in Name, s \in Scale :
                 \A m \in DOMAIN Created(c, n, s, k + 1) :
                    Created(c, n, s, k + 1)[m].version <= k + 1
           /\ \A n \in Name, s \in Scale, v \in Nat :
                 \A m \in DOMAIN Updated(c, n, s, v, k + 1) :
                    Updated(c, n, s, v, k + 1)[m].version <= k + 1
           /\ \A n \in Name : \A m \in DOMAIN Deleted(c, n) :
                 Deleted(c, n)[m].version <= k + 1
<1>1. \A m \in DOMAIN c : c[m].version \in Nat /\ c[m].version <= k + 1
  BY DEF IsServices, Service
<1>2. ASSUME NEW n \in Name, NEW s \in Scale \ Invalid
      PROVE  \A m \in DOMAIN With(c, n, s, k + 1) :
                With(c, n, s, k + 1)[m].version <= k + 1
  <2>1. /\ DOMAIN With(c, n, s, k + 1) = DOMAIN c \cup {n}
        /\ With(c, n, s, k + 1)[n].version = k + 1
        /\ \A m \in DOMAIN c : m # n => With(c, n, s, k + 1)[m] = c[m]
    BY DEF With
  <2> QED  BY <1>1, <2>1
<1>3. \A n \in Name, s \in Scale : \A m \in DOMAIN Created(c, n, s, k + 1) :
         Created(c, n, s, k + 1)[m].version <= k + 1
  BY <1>1, <1>2 DEF Created, CanCreate
<1>4. \A n \in Name, s \in Scale, v \in Nat :
         \A m \in DOMAIN Updated(c, n, s, v, k + 1) :
            Updated(c, n, s, v, k + 1)[m].version <= k + 1
  BY <1>1, <1>2 DEF Updated
<1>5. \A n \in Name : \A m \in DOMAIN Deleted(c, n) :
         Deleted(c, n)[m].version <= k + 1
  <2>1. TAKE n \in Name
  <2>2. /\ DOMAIN Deleted(c, n) \subseteq DOMAIN c
        /\ \A m \in DOMAIN Deleted(c, n) : Deleted(c, n)[m] = c[m]
    BY DeletedServices
  <2> QED  BY <1>1, <2>2
<1> QED  BY <1>3, <1>4, <1>5

(* The reducer keeps its state well typed, and when it shows an error.     *)
LEMMA ReducerState ==
    ASSUME NEW s \in State, NEW c \in Components
    PROVE  /\ initialState \in State
           /\ reducer(s, FetchComponents) \in State
           /\ reducer(s, FetchComponentsSuccess(c)) \in State
           /\ reducer(s, FetchComponentsFailure) \in State
           /\ reducer(s, FetchComponentsFailure).error = TRUE
<1>1. initialState \in State
  <2>1. [n \in {} |-> 0] \in [{} -> Scale \ Invalid] /\ {} \in SUBSET Name
    OBVIOUS
  <2> QED  BY <2>1 DEF initialState, State, Components
<1>2. /\ reducer(s, FetchComponents) = [s EXCEPT !.fetching = TRUE, !.error = FALSE]
      /\ reducer(s, FetchComponentsSuccess(c)) =
            [fetching |-> FALSE, error |-> FALSE, components |-> c]
      /\ reducer(s, FetchComponentsFailure) =
            [s EXCEPT !.fetching = FALSE, !.error = TRUE]
  BY DEF reducer, FetchComponents, FetchComponentsSuccess, FetchComponentsFailure
<1>3. s \in [fetching : BOOLEAN, error : BOOLEAN, components : Components]
  BY DEF State
<1>4. /\ [s EXCEPT !.fetching = TRUE, !.error = FALSE] \in State
      /\ [s EXCEPT !.fetching = FALSE, !.error = TRUE] \in State
  BY <1>3 DEF State
<1>5. [fetching |-> FALSE, error |-> FALSE, components |-> c] \in State
  BY DEF State
<1>6. [s EXCEPT !.fetching = FALSE, !.error = TRUE].error = TRUE
  BY <1>3
<1> QED  BY <1>1, <1>2, <1>4, <1>5, <1>6

-----------------------------------------------------------------------------
(* Calls of this tab, field by field.                                      *)
LEMMA TouchedCall ==
    ASSUME NEW c \in Call
    PROVE  LET t == [c EXCEPT !.touched = TRUE]
           IN  /\ t \in Call
               /\ t.kind = c.kind /\ t.name = c.name /\ t.spec = c.spec
               /\ t.step = c.step /\ t.version = c.version
               /\ t.done = c.done /\ t.ok = c.ok
               /\ t.touched = TRUE
BY DEF Call

LEMMA TouchingCalls ==
    ASSUME NEW cs \in [Slot -> {None} \cup Call]
    PROVE  /\ Touching(cs) \in [Slot -> {None} \cup Call]
           /\ \A i \in Slot :
                 /\ Touching(cs)[i] = None <=> cs[i] = None
                 /\ cs[i] # None /\ cs[i].step = "read" /\ ~Same(cs[i].name) =>
                       Touching(cs)[i] = [cs[i] EXCEPT !.touched = TRUE]
                 /\ ~(cs[i] # None /\ cs[i].step = "read" /\ ~Same(cs[i].name)) =>
                       Touching(cs)[i] = cs[i]
<1>1. None \notin Call
  BY NoneAssumption
<1>2. \A i \in Slot : cs[i] # None =>
         cs[i] \in Call /\ [cs[i] EXCEPT !.touched = TRUE] \in Call
  BY TouchedCall
<1> QED  BY <1>1, <1>2 DEF Touching

(* A change elsewhere in the Swarm leaves a call as it has to be.          *)
LEMMA TouchingKeepsCall ==
    ASSUME NEW cs \in [Slot -> {None} \cup Call], NEW i \in Slot,
           cs[i] # None, CallOK(cs[i], swarm)
    PROVE  CallOK(Touching(cs)[i], swarm')
<1> DEFINE c == cs[i]
           t == Touching(cs)[i]
<1>1. c \in Call
  BY NoneAssumption
<1>2. CASE c.step = "read" /\ ~Same(c.name)
  <2>1. t = [c EXCEPT !.touched = TRUE]
    BY <1>2, TouchingCalls
  <2>2. /\ t.kind = c.kind /\ t.spec = c.spec /\ t.step = c.step
        /\ t.touched = TRUE
    BY <2>1, <1>1, TouchedCall
  <2> QED  BY <2>2, <1>2 DEF CallOK
<1>3. CASE ~(c.step = "read" /\ ~Same(c.name))
  <2>1. t = c
    BY <1>3, TouchingCalls
  <2>2. c.step = "read" => Same(c.name)
    BY <1>3
  <2> QED  BY <2>1, <2>2 DEF CallOK, Same
<1> QED  BY <1>2, <1>3

LEMMA TouchingKeepsVersions ==
    ASSUME NEW cs \in [Slot -> {None} \cup Call], NEW i \in Slot,
           cs[i] # None
    PROVE  Touching(cs)[i].version = cs[i].version
<1>1. cs[i] \in Call
  BY NoneAssumption
<1>2. Touching(cs)[i] = cs[i] \/ Touching(cs)[i] = [cs[i] EXCEPT !.touched = TRUE]
  BY TouchingCalls
<1> QED  BY <1>1, <1>2, TouchedCall

(* A list that was read.                                                  *)
LEMMA ReadFetch ==
    ASSUME NEW f \in Fetch, f # Unread
    PROVE  f.list \in Components /\ f.at \in Nat
<1>1. f \notin [list : {None}, at : {0}]
  BY DEF Unread
<1> QED  BY <1>1 DEF Fetch

LEMMA UnreadFetch == Unread \in Fetch
BY DEF Unread, Fetch

(* A change in the Swarm, while calls become cs for another reason.        *)
LEMMA ChangeStep ==
    ASSUME StoreInv, NEW c, IsServices(c),
           \A m \in DOMAIN c : c[m].version <= index + 1,
           Changes(c), UNCHANGED tab,
           NEW cs \in [Slot -> {None} \cup Call], calls' = Touching(cs),
           \A i \in Slot : cs[i] # None =>
              CallOK(cs[i], swarm) /\ cs[i].version <= index'
    PROVE  /\ IsServices(swarm') /\ index' \in Nat
           /\ calls' \in [Slot -> {None} \cup Call]
           /\ FormInv' /\ FetchInv' /\ VersionInv' /\ CallInv' /\ DeletionsShow'
<1>1. swarm' = c /\ index \in Nat /\ index' \in Nat /\ index <= index'
  BY DEF Changes, StoreInv, TypeOK
<1>2. \A m \in DOMAIN swarm' : swarm'[m].version <= index'
  <2>1. CASE c = swarm
    BY <1>1, <2>1 DEF Changes, StoreInv, VersionInv
  <2>2. CASE c # swarm
    BY <1>1, <2>2 DEF Changes
  <2> QED  BY <2>1, <2>2
<1>3. \A i \in Slot : calls'[i] # None => cs[i] # None
  BY TouchingCalls
<1>4. VersionInv'
  <2>1. \A i \in Slot : calls'[i] # None => calls'[i].version <= index'
    BY <1>3, TouchingKeepsVersions
  <2> QED  BY <1>2, <2>1 DEF VersionInv
<1>5. CallInv'
  BY <1>3, TouchingKeepsCall DEF CallInv
<1>6. FetchInv'
  <2>1. shownAt' <= index' /\ owed' <= index'
    BY <1>1 DEF StoreInv, FetchInv, TypeOK, tab
  <2>2. \A f \in fetches : f # Unread => f.at <= index'
    <3>1. \A f \in fetches : f # Unread => f.at \in Nat
      BY ReadFetch DEF StoreInv, TypeOK
    <3> QED  BY <1>1, <3>1 DEF StoreInv, FetchInv
  <2> QED  BY <2>1, <2>2 DEF StoreInv, FetchInv, tab
<1>7. FormInv' /\ DeletionsShow'
  BY DEF StoreInv, FormInv, DeletionsShow, tab
<1> QED  BY <1>1, <1>4, <1>5, <1>6, <1>7, TouchingCalls

(* An answer of the backend, after a change that makes the service c.      *)
LEMMA AnswerStep ==
    ASSUME StoreInv, NEW i \in Slot, calls[i] # None,
           NEW c, IsServices(c),
           \A m \in DOMAIN c : c[m].version <= index + 1,
           NEW v \in Nat, NEW b \in BOOLEAN,
           Changes(c), v <= index', Answer(i, v, b), UNCHANGED <<tab, clicks, troubles>>
    PROVE  StoreInv'
<1> DEFINE call == calls[i]
           answered == [call EXCEPT !.step = "answered", !.version = v,
                                    !.ok = b, !.done = @ \/ swarm' # swarm]
           cs == [calls EXCEPT ![i] = answered]
<1>1. call \in Call /\ calls \in [Slot -> {None} \cup Call]
  BY NoneAssumption DEF StoreInv, TypeOK
<1>2. /\ answered \in Call
      /\ answered.kind = call.kind /\ answered.name = call.name
      /\ answered.spec = call.spec /\ answered.touched = call.touched
      /\ answered.step = "answered" /\ answered.version = v /\ answered.ok = b
  <2> DEFINE d == swarm' # swarm
  <2>1. d \in BOOLEAN
    OBVIOUS
  <2>2. LET t == [call EXCEPT !.step = "answered", !.version = v, !.ok = b,
                              !.done = @ \/ d]
        IN  /\ t \in Call
            /\ t.kind = call.kind /\ t.name = call.name /\ t.spec = call.spec
            /\ t.touched = call.touched /\ t.step = "answered"
            /\ t.version = v /\ t.ok = b
    <3> HIDE DEF d, call
    <3> QED  BY <1>1, <2>1 DEF Call, Step
  <2> QED  BY <2>2
<1>3. calls' = Touching(cs)
  BY <1>1 DEF Answer
<1>4. cs \in [Slot -> {None} \cup Call]
  BY <1>1, <1>2
<1>5. CallOK(answered, swarm)
  <2>1. call.kind # "delete" => call.spec \in Scale
    BY DEF StoreInv, CallInv, CallOK
  <2> HIDE DEF answered
  <2> QED  BY <1>2, <2>1 DEF CallOK
<1>6. index <= index'
  BY DEF Changes, StoreInv, TypeOK
<1>7. \A j \in Slot : cs[j] # None =>
         CallOK(cs[j], swarm) /\ cs[j].version <= index'
  <2>1. ASSUME NEW j \in Slot, cs[j] # None, j # i
        PROVE  CallOK(cs[j], swarm) /\ cs[j].version <= index'
    <3>1. cs[j] = calls[j] /\ calls[j] \in Call
      BY <1>1, <2>1
    <3>2. calls[j].version \in Nat /\ index \in Nat /\ index' \in Nat
      BY <3>1 DEF Call, StoreInv, TypeOK, Changes
    <3> QED  BY <1>6, <2>1, <3>1, <3>2 DEF StoreInv, CallInv, VersionInv
  <2>2. cs[i] = answered
    BY <1>1
  <2> HIDE DEF answered, cs
  <2> QED  BY <2>1, <2>2, <1>2, <1>5
<1>8. UNCHANGED tab
  OBVIOUS
<1>9. /\ IsServices(swarm') /\ index' \in Nat
      /\ calls' \in [Slot -> {None} \cup Call]
      /\ FormInv' /\ FetchInv' /\ VersionInv' /\ CallInv' /\ DeletionsShow'
  <2> HIDE DEF cs
  <2> QED  BY <1>3, <1>4, <1>7, <1>8, ChangeStep
<1>10. TypeOK'
  BY <1>9 DEF StoreInv, TypeOK, tab
<1> QED  BY <1>9, <1>10 DEF StoreInv

-----------------------------------------------------------------------------
(* The calls that reach the Swarm.                                         *)
LEMMA CallKnown ==
    ASSUME StoreInv, NEW i \in Slot, calls[i] # None
    PROVE  /\ calls[i] \in Call
           /\ CallOK(calls[i], swarm)
           /\ calls[i].name \in Name
           /\ calls[i].version \in Nat /\ calls[i].version <= index
           /\ index \in Nat /\ index + 1 \in Nat
<1>1. calls[i] \in Call
  BY NoneAssumption DEF StoreInv, TypeOK
<1> QED  BY <1>1 DEF Call, StoreInv, TypeOK, CallInv, VersionInv

(* The Swarm as it is, or as one operation makes it.                       *)
LEMMA AttemptedServices ==
    ASSUME StoreInv, NEW d, IsServices(d),
           \A m \in DOMAIN d : d[m].version <= index + 1,
           NEW c \in Attempts(swarm, d)
    PROVE  IsServices(c) /\ \A m \in DOMAIN c : c[m].version <= index + 1
<1>1. /\ IsServices(swarm) /\ index \in Nat
      /\ \A m \in DOMAIN swarm : swarm[m].version <= index
  BY DEF StoreInv, TypeOK, VersionInv
<1>2. \A m \in DOMAIN swarm : swarm[m].version \in Nat
  BY <1>1 DEF IsServices, Service
<1>3. CASE c = d
  BY <1>3
<1>4. CASE c = swarm
  BY <1>1, <1>2, <1>4
<1> QED  BY <1>3, <1>4 DEF Attempts

LEMMA CreateServiceStep ==
    ASSUME StoreInv, NEW i \in Slot, CreateService(i)
    PROVE  StoreInv'
<1> DEFINE call == calls[i]
           d == Created(swarm, call.name, call.spec, index + 1)
<1>1. call # None /\ call.step = "sent" /\ call.kind = "create"
  BY DEF CreateService, Sent, At
<1>2. call.name \in Name /\ call.spec \in Scale /\ index + 1 \in Nat
  BY <1>1, CallKnown DEF CallOK
<1>3. IsServices(swarm) /\ \A m \in DOMAIN swarm : swarm[m].version <= index
  BY DEF StoreInv, TypeOK, VersionInv
<1>4. IsServices(d)
  BY <1>2, <1>3, CreatedServices
<1>5. \A m \in DOMAIN d : d[m].version <= index + 1
  BY <1>2, <1>3, VersionsGrow DEF StoreInv, TypeOK
<1>6. PICK c \in Attempts(swarm, d) :
         Changes(c) /\ \E ok \in createService(swarm, c, call.name) : Answer(i, 0, ok)
  BY DEF CreateService
<1>7. PICK ok \in BOOLEAN : Answer(i, 0, ok)
  BY <1>6 DEF createService
<1>8. UNCHANGED <<tab, clicks, troubles>>
  BY DEF CreateService
<1>9. 0 \in Nat /\ 0 <= index'
  BY <1>6 DEF Changes, StoreInv, TypeOK
<1> HIDE DEF d
<1>10. IsServices(c) /\ \A m \in DOMAIN c : c[m].version <= index + 1
  BY <1>4, <1>5, <1>6, AttemptedServices
<1> HIDE DEF call
<1> QED  BY <1>1, <1>6, <1>7, <1>8, <1>9, <1>10, AnswerStep DEF call

LEMMA UpdateServiceStep ==
    ASSUME StoreInv, NEW i \in Slot, UpdateService(i)
    PROVE  StoreInv'
<1> DEFINE call == calls[i]
           d == Updated(swarm, call.name, call.spec, call.version, index + 1)
<1>1. call # None /\ call.step = "read"
  BY DEF UpdateService, At
<1>2. /\ call.kind = "update" /\ call.name \in Name /\ call.spec \in Scale
      /\ call.version \in Nat /\ index \in Nat /\ index + 1 \in Nat
      /\ call.version <= index
  BY <1>1, CallKnown DEF CallOK
<1>3. IsServices(swarm) /\ \A m \in DOMAIN swarm : swarm[m].version <= index
  BY DEF StoreInv, TypeOK, VersionInv
<1>4. IsServices(d)
  BY <1>2, <1>3, UpdatedServices
<1>5. \A m \in DOMAIN d : d[m].version <= index + 1
  BY <1>2, <1>3, VersionsGrow
<1>6. PICK c \in Attempts(swarm, d) : Changes(c)
  BY DEF UpdateService
<1>7. Answer(i, 0, TRUE) /\ UNCHANGED <<tab, clicks, troubles>>
  BY DEF UpdateService
<1>8. 0 \in Nat /\ 0 <= index' /\ TRUE \in BOOLEAN
  BY <1>6 DEF Changes, StoreInv, TypeOK
<1> HIDE DEF d
<1>9. IsServices(c) /\ \A m \in DOMAIN c : c[m].version <= index + 1
  BY <1>4, <1>5, <1>6, AttemptedServices
<1> HIDE DEF call
<1> QED  BY <1>1, <1>6, <1>7, <1>8, <1>9, AnswerStep DEF call

LEMMA DeleteServiceStep ==
    ASSUME StoreInv, NEW i \in Slot, DeleteService(i)
    PROVE  StoreInv'
<1> DEFINE call == calls[i]
           d == Deleted(swarm, call.name)
<1>1. call # None /\ call.kind = "delete"
  BY DEF DeleteService, Sent, At
<1>2. call.name \in Name /\ index \in Nat
  BY <1>1, CallKnown
<1>3. IsServices(swarm) /\ \A m \in DOMAIN swarm : swarm[m].version <= index
  BY DEF StoreInv, TypeOK, VersionInv
<1>4. IsServices(d)
  BY <1>2, <1>3, DeletedServices
<1>5. \A m \in DOMAIN d : d[m].version <= index + 1
  BY <1>2, <1>3, VersionsGrow
<1>6. PICK c \in Attempts(swarm, d) : Changes(c)
  BY DEF DeleteService
<1>7. Answer(i, index', TRUE) /\ UNCHANGED <<tab, clicks, troubles>>
  BY DEF DeleteService
<1>8. index' \in Nat /\ index' <= index' /\ TRUE \in BOOLEAN
  BY <1>2, <1>6 DEF Changes
<1> HIDE DEF d
<1>9. IsServices(c) /\ \A m \in DOMAIN c : c[m].version <= index + 1
  BY <1>4, <1>5, <1>6, AttemptedServices
<1> HIDE DEF call
<1>10. \A v \in Nat : v = index' /\ v <= index' /\ Answer(i, v, TRUE) => StoreInv'
  BY <1>1, <1>6, <1>7, <1>9, AnswerStep DEF call
<1> QED  BY <1>7, <1>8, <1>10

LEMMA OthersChangeStep ==
    ASSUME StoreInv, OthersChange
    PROVE  StoreInv'
<1>1. /\ IsServices(swarm) /\ \A m \in DOMAIN swarm : swarm[m].version <= index
      /\ index \in Nat /\ index + 1 \in Nat
      /\ calls \in [Slot -> {None} \cup Call]
  BY DEF StoreInv, TypeOK, VersionInv
<1> DEFINE Good(c) == /\ IsServices(c) /\ Changes(c)
                      /\ \A m \in DOMAIN c : c[m].version <= index + 1
<1>2. \E c : Good(c)
  <2>1. PICK n \in Name :
          \/ \E s \in Scale : Changes(Created(swarm, n, s, index + 1))
          \/ /\ n \in DOMAIN swarm
             /\ \E s \in Scale :
                   Changes(Updated(swarm, n, s, swarm[n].version, index + 1))
          \/ Changes(Deleted(swarm, n))
    BY DEF OthersChange
  <2>2. n \in DOMAIN swarm => swarm[n].version \in Nat
    BY <1>1 DEF IsServices, Service
  <2>3. ASSUME NEW s \in Scale, Changes(Created(swarm, n, s, index + 1))
        PROVE  \E c : Good(c)
    BY <1>1, <2>3, CreatedServices, VersionsGrow
  <2>4. ASSUME NEW s \in Scale, n \in DOMAIN swarm,
               Changes(Updated(swarm, n, s, swarm[n].version, index + 1))
        PROVE  \E c : Good(c)
    BY <1>1, <2>2, <2>4, UpdatedServices, VersionsGrow
  <2>5. ASSUME Changes(Deleted(swarm, n))
        PROVE  \E c : Good(c)
    BY <1>1, <2>5, DeletedServices, VersionsGrow
  <2> QED  BY <2>1, <2>3, <2>4, <2>5
<1>3. PICK c : Good(c)
  BY <1>2
<1>4. index <= index'
  BY <1>1, <1>3 DEF Changes
<1>5. \A i \in Slot : calls[i] # None =>
         CallOK(calls[i], swarm) /\ calls[i].version <= index'
  <2>1. index' \in Nat
    BY <1>1, <1>3 DEF Changes
  <2> QED  BY <1>1, <1>4, <2>1, CallKnown
<1>6. calls' = Touching(calls) /\ UNCHANGED tab
  BY DEF OthersChange
<1>7. /\ IsServices(swarm') /\ index' \in Nat
      /\ calls' \in [Slot -> {None} \cup Call]
      /\ FormInv' /\ FetchInv' /\ VersionInv' /\ CallInv' /\ DeletionsShow'
  BY <1>1, <1>3, <1>5, <1>6, ChangeStep
<1>8. clicks' = clicks /\ troubles' \in 0 .. MaxTroubles
  BY MaxAssumption DEF OthersChange, StoreInv, TypeOK
<1>9. TypeOK'
  BY <1>6, <1>7, <1>8 DEF StoreInv, TypeOK, tab
<1> QED  BY <1>7, <1>9 DEF StoreInv

-----------------------------------------------------------------------------
(* Steps that change nothing in the Swarm, but the calls of this tab.      *)
LEMMA CallsOnly ==
    ASSUME StoreInv, UNCHANGED <<tab, cluster>>,
           clicks' \in 0 .. MaxClicks, troubles' \in 0 .. MaxTroubles,
           NEW i \in Slot, NEW c \in {None} \cup Call,
           calls' = [calls EXCEPT ![i] = c],
           c # None => CallOK(c, swarm) /\ c.version <= index
    PROVE  StoreInv'
<1>1. calls' \in [Slot -> {None} \cup Call] /\ calls'[i] = c
  BY DEF StoreInv, TypeOK
<1>2. \A j \in Slot : j # i => calls'[j] = calls[j]
  BY DEF StoreInv, TypeOK
<1>3. TypeOK'
  BY <1>1 DEF StoreInv, TypeOK, tab, cluster
<1>4. VersionInv' /\ CallInv'
  BY <1>1, <1>2 DEF StoreInv, VersionInv, CallInv, cluster
<1>5. FormInv' /\ FetchInv' /\ DeletionsShow'
  BY DEF StoreInv, FormInv, FetchInv, DeletionsShow, tab, cluster
<1> QED  BY <1>3, <1>4, <1>5 DEF StoreInv

LEMMA SendStep ==
    ASSUME StoreInv, NEW n \in Name, NEW s \in Scale \cup {None},
           NEW kind \in Kind, kind # "delete" => s \in Scale, Send(kind, n, s)
    PROVE  StoreInv'
<1> DEFINE c == [kind |-> kind, name |-> n, spec |-> s, step |-> "sent",
                 version |-> 0, touched |-> FALSE, done |-> FALSE, ok |-> FALSE]
<1>1. clicks' \in Slot /\ clicks' \in 0 .. MaxClicks
  BY MaxAssumption DEF Send, StoreInv, TypeOK, Slot
<1>2. c \in {None} \cup Call /\ CallOK(c, swarm)
  BY DEF Call, Step, CallOK
<1>3. c.version <= index
  BY DEF StoreInv, TypeOK
<1>4. /\ calls' = [calls EXCEPT ![clicks'] = c]
      /\ UNCHANGED <<tab, cluster>> /\ troubles' \in 0 .. MaxTroubles
  BY DEF Send, StoreInv, TypeOK
<1> HIDE DEF c
<1>5. \A i \in Slot : i = clicks' /\ calls' = [calls EXCEPT ![i] = c] => StoreInv'
  BY <1>1, <1>2, <1>3, <1>4, CallsOnly
<1> QED  BY <1>1, <1>4, <1>5

LEMMA ReadVersionStep ==
    ASSUME StoreInv, NEW i \in Slot, ReadVersion(i)
    PROVE  StoreInv'
<1> DEFINE call == calls[i]
           v == swarm[call.name].version
           c == [call EXCEPT !.step = "read", !.version = v, !.touched = FALSE]
<1>1. call # None /\ call.kind = "update" /\ call.name \in DOMAIN swarm
  BY DEF ReadVersion, Sent, At
<1>2. v \in Nat /\ v <= index
  BY <1>1 DEF StoreInv, TypeOK, VersionInv, IsServices, Service
<1>3. call \in Call /\ call.spec \in Scale
  BY <1>1, CallKnown DEF CallOK
<1>4. /\ c \in Call /\ c.version = v /\ c.kind = "update" /\ c.name = call.name
      /\ c.spec = call.spec /\ c.step = "read"
  <2> HIDE DEF call, v
  <2> QED  BY <1>1, <1>2, <1>3 DEF Call, Step
<1>5. calls' = [calls EXCEPT ![i] = c]
  BY <1>1, <1>3 DEF ReadVersion, StoreInv, TypeOK
<1>6. CallOK(c, swarm)
  <2> HIDE DEF c
  <2> QED  BY <1>1, <1>3, <1>4 DEF CallOK
<1>7. /\ UNCHANGED <<tab, cluster>>
      /\ clicks' \in 0 .. MaxClicks /\ troubles' \in 0 .. MaxTroubles
  BY DEF ReadVersion, StoreInv, TypeOK
<1> HIDE DEF c, v
<1> QED  BY <1>2, <1>4, <1>5, <1>6, <1>7, CallsOnly

LEMMA FailStep ==
    ASSUME StoreInv, NEW i \in Slot, Fail(i)
    PROVE  StoreInv'
<1> DEFINE call == calls[i]
           c == [call EXCEPT !.step = "answered", !.ok = FALSE]
<1>1. call # None
  BY DEF Fail, At
<1>2. call \in Call /\ call.version <= index
  BY <1>1, CallKnown
<1>3. /\ c \in Call /\ c.version = call.version /\ c.kind = call.kind
      /\ c.spec = call.spec /\ c.step = "answered" /\ c.ok = FALSE
  <2> HIDE DEF call
  <2> QED  BY <1>2 DEF Call, Step
<1>4. CallOK(c, swarm)
  <2> HIDE DEF c
  <2> QED  BY <1>1, <1>3, CallKnown DEF CallOK
<1>5. /\ calls' = [calls EXCEPT ![i] = c] /\ UNCHANGED <<tab, cluster>>
      /\ clicks' \in 0 .. MaxClicks /\ troubles' \in 0 .. MaxTroubles
  BY <1>1, <1>2 DEF Fail, StoreInv, TypeOK
<1> HIDE DEF c
<1> QED  BY <1>2, <1>3, <1>4, <1>5, CallsOnly

LEMMA LoseAnswerStep ==
    ASSUME StoreInv, NEW i \in Slot, LoseAnswer(i)
    PROVE  StoreInv'
<1> DEFINE call == calls[i]
           again == [call EXCEPT !.step = "sent"]
           lost == [call EXCEPT !.ok = FALSE]
<1>1. call # None /\ call.step = "answered"
  BY DEF LoseAnswer, At
<1>2. call \in Call /\ call.version <= index
  BY <1>1, CallKnown
<1>3. /\ again \in Call /\ again.version = call.version /\ again.kind = call.kind
      /\ again.spec = call.spec /\ again.step = "sent"
      /\ lost \in Call /\ lost.version = call.version /\ lost.kind = call.kind
      /\ lost.spec = call.spec /\ lost.step = "answered" /\ lost.ok = FALSE
  <2> HIDE DEF call
  <2> QED  BY <1>1, <1>2 DEF Call, Step
<1>4. CallOK(again, swarm) /\ CallOK(lost, swarm)
  <2> HIDE DEF again, lost
  <2> QED  BY <1>1, <1>3, CallKnown DEF CallOK
<1>5. /\ UNCHANGED <<tab, cluster>>
      /\ clicks' \in 0 .. MaxClicks /\ troubles' \in 0 .. MaxTroubles
  BY MaxAssumption DEF LoseAnswer, StoreInv, TypeOK
<1>6. \/ calls' = [calls EXCEPT ![i] = again]
      \/ calls' = [calls EXCEPT ![i] = lost]
  BY <1>1, <1>2 DEF LoseAnswer, StoreInv, TypeOK
<1> HIDE DEF again, lost
<1>7. CASE calls' = [calls EXCEPT ![i] = again]
  BY <1>2, <1>3, <1>4, <1>5, <1>7, CallsOnly
<1>8. CASE calls' = [calls EXCEPT ![i] = lost]
  BY <1>2, <1>3, <1>4, <1>5, <1>8, CallsOnly
<1> QED  BY <1>6, <1>7, <1>8

LEMMA OverKeepsCalls ==
    ASSUME StoreInv, UNCHANGED cluster, NEW i \in Slot, Over(i)
    PROVE  calls' \in [Slot -> {None} \cup Call] /\ VersionInv' /\ CallInv'
<1>1. calls' \in [Slot -> {None} \cup Call] /\ calls'[i] = None
  BY DEF StoreInv, TypeOK, Over
<1>2. \A j \in Slot : j # i => calls'[j] = calls[j]
  BY DEF StoreInv, TypeOK, Over
<1> QED  BY <1>1, <1>2 DEF StoreInv, VersionInv, CallInv, cluster

-----------------------------------------------------------------------------
(* The list: the two parts of a call to fetch it, and the page.            *)
LEMMA FetchKeepsInv ==
    ASSUME StoreInv, fetch, UNCHANGED <<index, shownAt>>,
           owed' \in Nat, owed' <= index, fetches # {} => owed' = owed
    PROVE  fetches' \subseteq Fetch /\ FetchInv' /\ DeletionsShow'
<1>1. CASE fetches = {}
  <2>1. fetches' = {Unread}
    BY <1>1 DEF fetch
  <2>2. shownAt' <= index' /\ owed' <= index'
    BY DEF StoreInv, FetchInv
  <2> QED  BY <2>1, <2>2, UnreadFetch DEF FetchInv, DeletionsShow
<1>2. CASE fetches # {}
  <2>1. fetches' = fetches /\ owed' = owed
    BY <1>2 DEF fetch
  <2> QED  BY <1>2, <2>1 DEF StoreInv, TypeOK, FetchInv, DeletionsShow
<1> QED  BY <1>1, <1>2

LEMMA LoadServicesStep ==
    ASSUME StoreInv, LoadServices
    PROVE  StoreInv'
<1>1. fetches' \subseteq Fetch /\ FetchInv' /\ DeletionsShow'
  BY FetchKeepsInv DEF LoadServices, StoreInv, TypeOK, FetchInv, cluster
<1>2. status' \in State
  <2>1. [n \in {} |-> 0] \in Components
    <3>1. [n \in {} |-> 0] \in [{} -> Scale \ Invalid] /\ {} \in SUBSET Name
      OBVIOUS
    <3> QED  BY <3>1 DEF Components
  <2> QED  BY <2>1, ReducerState DEF LoadServices, StoreInv, TypeOK
<1>3. TypeOK'
  BY <1>1, <1>2 DEF LoadServices, StoreInv, TypeOK, cluster
<1>4. FormInv' /\ VersionInv' /\ CallInv'
  BY DEF LoadServices, StoreInv, FormInv, VersionInv, CallInv, cluster
<1> QED  BY <1>1, <1>3, <1>4 DEF StoreInv

LEMMA ReadStep ==
    ASSUME StoreInv, NEW f \in fetches, Read(f)
    PROVE  StoreInv'
<1> DEFINE g == [list |-> getServices(swarm), at |-> index]
<1>1. getServices(swarm) \in Components /\ index \in Nat
  BY ListedComponents DEF StoreInv, TypeOK
<1>2. g \in Fetch
  BY <1>1 DEF Fetch
<1>3. fetches = {f}
  BY DEF StoreInv, FetchInv
<1>4. fetches' = {g}
  BY <1>3 DEF Read
<1>5. FetchInv' /\ DeletionsShow'
  <2>1. shownAt' <= g.at /\ owed' <= g.at /\ g.at <= index'
    BY <1>1 DEF Read, StoreInv, FetchInv, cluster
  <2>2. shownAt' <= index' /\ owed' <= index'
    BY DEF Read, StoreInv, FetchInv, cluster
  <2> HIDE DEF g
  <2> QED  BY <1>2, <1>4, <2>1, <2>2 DEF FetchInv, DeletionsShow
<1>6. TypeOK'
  <2> HIDE DEF g
  <2> QED  BY <1>2, <1>4 DEF Read, StoreInv, TypeOK, cluster
<1>7. FormInv' /\ VersionInv' /\ CallInv'
  BY DEF Read, StoreInv, FormInv, VersionInv, CallInv, cluster
<1> QED  BY <1>5, <1>6, <1>7 DEF StoreInv

LEMMA FetchSucceedsStep ==
    ASSUME StoreInv, NEW f \in fetches, FetchSucceeds(f)
    PROVE  StoreInv' /\ shownAt' >= shownAt
<1>1. f \in Fetch /\ f # Unread
  BY DEF FetchSucceeds, StoreInv, TypeOK
<1>2. f.list \in Components /\ f.at \in Nat
  BY <1>1, ReadFetch
<1>3. fetches' = {}
  BY DEF FetchSucceeds, StoreInv, FetchInv
<1>4. shownAt' = f.at /\ shownAt <= f.at /\ owed' = owed /\ owed <= f.at
      /\ f.at <= index /\ index' = index
  BY <1>1 DEF FetchSucceeds, StoreInv, FetchInv, cluster
<1>5. status' \in State
  BY <1>2, ReducerState DEF FetchSucceeds, StoreInv, TypeOK
<1>6. TypeOK'
  BY <1>2, <1>3, <1>4, <1>5 DEF FetchSucceeds, StoreInv, TypeOK, cluster
<1>7. FetchInv' /\ DeletionsShow'
  BY <1>2, <1>3, <1>4 DEF StoreInv, TypeOK, FetchInv, DeletionsShow
<1>8. FormInv' /\ VersionInv' /\ CallInv'
  BY DEF FetchSucceeds, StoreInv, FormInv, VersionInv, CallInv, cluster
<1>9. shownAt' >= shownAt
  BY <1>2, <1>4 DEF StoreInv, TypeOK
<1> QED  BY <1>6, <1>7, <1>8, <1>9 DEF StoreInv

LEMMA FetchFailsStep ==
    ASSUME StoreInv, NEW f \in fetches, FetchFails(f)
    PROVE  StoreInv'
<1>1. fetches' = {}
  BY DEF FetchFails, StoreInv, FetchInv
<1>2. status' \in State /\ status'.error = TRUE
  <2>1. getServices(swarm) \in Components
    BY ListedComponents DEF StoreInv, TypeOK
  <2> QED  BY <2>1, ReducerState DEF FetchFails, StoreInv, TypeOK
<1>3. TypeOK'
  BY <1>1, <1>2 DEF FetchFails, StoreInv, TypeOK, cluster
<1>4. FetchInv' /\ DeletionsShow'
  BY <1>1, <1>2 DEF FetchFails, StoreInv, FetchInv, DeletionsShow, cluster
<1>5. FormInv' /\ VersionInv' /\ CallInv'
  BY DEF FetchFails, StoreInv, FormInv, VersionInv, CallInv, cluster
<1> QED  BY <1>3, <1>4, <1>5 DEF StoreInv

LEMMA PageStep ==
    ASSUME StoreInv, (\E p \in Page : OpenPage(p)) \/ (\E n \in Name : OpenUpdate(n))
    PROVE  StoreInv'
<1>1. /\ page' \in Page /\ id' \in Name \cup {None}
      /\ page' = "update" => id' \in Name
  BY DEF OpenPage, OpenUpdate, Page
<1>2. UNCHANGED <<status, fetches, shownAt, owed, calls, cluster, clicks, troubles>>
  BY DEF OpenPage, OpenUpdate
<1>3. TypeOK' /\ FormInv'
  BY <1>1, <1>2 DEF StoreInv, TypeOK, FormInv, cluster
<1>4. FetchInv' /\ DeletionsShow' /\ VersionInv' /\ CallInv'
  BY <1>2 DEF StoreInv, FetchInv, DeletionsShow, VersionInv, CallInv, cluster
<1> QED  BY <1>3, <1>4 DEF StoreInv

-----------------------------------------------------------------------------
(* The ends of the calls.                                                  *)
LEMMA FormSucceedsStep ==
    ASSUME StoreInv, NEW i \in Slot, FormSucceeds(i)
    PROVE  StoreInv'
<1>1. calls' \in [Slot -> {None} \cup Call] /\ VersionInv' /\ CallInv'
  BY OverKeepsCalls DEF FormSucceeds
<1>2. TypeOK' /\ FormInv'
  BY <1>1 DEF FormSucceeds, StoreInv, TypeOK, FormInv, Page, cluster
<1>3. FetchInv' /\ DeletionsShow'
  BY DEF FormSucceeds, StoreInv, FetchInv, DeletionsShow, cluster
<1> QED  BY <1>1, <1>2, <1>3 DEF StoreInv

LEMMA DeleteSucceedsStep ==
    ASSUME StoreInv, NEW i \in Slot, DeleteSucceeds(i)
    PROVE  StoreInv'
<1>1. calls' \in [Slot -> {None} \cup Call] /\ VersionInv' /\ CallInv'
  BY OverKeepsCalls DEF DeleteSucceeds
<1>2. /\ calls[i].version \in Nat /\ calls[i].version <= index
      /\ owed \in Nat /\ owed <= index
  BY CallKnown DEF DeleteSucceeds, At, StoreInv, TypeOK, FetchInv
<1>3. owed' \in Nat /\ owed' <= index /\ (fetches # {} => owed' = owed)
  BY <1>2 DEF DeleteSucceeds, Owe
<1>4. fetches' \subseteq Fetch /\ FetchInv' /\ DeletionsShow'
  BY <1>3, FetchKeepsInv DEF DeleteSucceeds, cluster
<1>5. status' \in State
  <2>1. getServices(swarm) \in Components
    BY ListedComponents DEF StoreInv, TypeOK
  <2> QED  BY <2>1, ReducerState DEF DeleteSucceeds, StoreInv, TypeOK
<1>6. TypeOK' /\ FormInv'
  BY <1>1, <1>3, <1>4, <1>5 DEF DeleteSucceeds, StoreInv, TypeOK, FormInv, cluster
<1> QED  BY <1>1, <1>4, <1>6 DEF StoreInv

LEMMA CallFailsStep ==
    ASSUME StoreInv, NEW i \in Slot, CallFails(i)
    PROVE  StoreInv'
<1>1. /\ calls' = [calls EXCEPT ![i] = None] /\ UNCHANGED <<tab, cluster>>
      /\ clicks' \in 0 .. MaxClicks /\ troubles' \in 0 .. MaxTroubles
  BY DEF CallFails, Over, StoreInv, TypeOK
<1> QED  BY <1>1, CallsOnly

-----------------------------------------------------------------------------
LEMMA StoreInvInit == Init => StoreInv
<1> SUFFICES ASSUME Init PROVE StoreInv
  OBVIOUS
<1>1. PICK S \in SUBSET Name : swarm \in [S -> [spec : Scale \ Invalid, version : {1}]]
  BY DEF Init
<1>2. IsServices(swarm) /\ \A n \in DOMAIN swarm : swarm[n].version = 1
  BY <1>1 DEF IsServices, Service
<1>3. initialState \in State
  <2>1. [n \in {} |-> 0] \in [{} -> Scale \ Invalid] /\ {} \in SUBSET Name
    OBVIOUS
  <2> QED  BY <2>1 DEF initialState, State, Components
<1>4. TypeOK
  BY <1>2, <1>3, MaxAssumption DEF Init, TypeOK, Page
<1>5. FormInv /\ FetchInv /\ VersionInv /\ CallInv /\ DeletionsShow
  BY <1>2 DEF Init, FormInv, FetchInv, VersionInv, CallInv, DeletionsShow
<1> QED  BY <1>4, <1>5 DEF StoreInv

(* Every step keeps the invariant and takes the list forward.              *)
LEMMA StoreInvNext ==
    ASSUME StoreInv, [Next]_vars
    PROVE  StoreInv' /\ shownAt' >= shownAt
<1>1. shownAt \in Nat
  BY DEF StoreInv, TypeOK
<1>2. CASE LoadServices
  BY <1>1, <1>2, LoadServicesStep DEF LoadServices
<1>3. ASSUME NEW f \in fetches, Read(f) \/ FetchSucceeds(f) \/ FetchFails(f)
      PROVE  StoreInv' /\ shownAt' >= shownAt
  BY <1>1, <1>3, ReadStep, FetchSucceedsStep, FetchFailsStep DEF Read, FetchFails
<1>4. CASE (\E p \in Page : OpenPage(p)) \/ (\E n \in Name : OpenUpdate(n))
  BY <1>1, <1>4, PageStep DEF OpenPage, OpenUpdate
<1>5. ASSUME NEW n \in Name, NEW s \in Scale, onServiceSubmit(n, s)
      PROVE  StoreInv' /\ shownAt' >= shownAt
  <2>1. Send("create", n, s) /\ "create" \in Kind /\ s \in Scale \cup {None}
    BY <1>5 DEF onServiceSubmit, Kind
  <2>2. StoreInv'
    BY <2>1, SendStep
  <2> QED  BY <1>1, <2>1, <2>2 DEF Send, tab
<1>6. ASSUME NEW s \in Scale, onServiceUpdateSubmit(s)
      PROVE  StoreInv' /\ shownAt' >= shownAt
  <2>1. id \in Name /\ Send("update", id, s)
    BY <1>6 DEF onServiceUpdateSubmit, StoreInv, FormInv
  <2>2. ASSUME NEW n \in Name, Send("update", n, s)
        PROVE  StoreInv'
    <3>1. "update" \in Kind /\ s \in Scale \cup {None}
      BY DEF Kind
    <3> QED  BY <2>2, <3>1, SendStep
  <2>3. StoreInv'
    BY <2>1, <2>2
  <2> QED  BY <1>1, <2>1, <2>3 DEF Send, tab
<1>7. ASSUME NEW n \in Name, onDeleteService(n)
      PROVE  StoreInv' /\ shownAt' >= shownAt
  <2>1. Send("delete", n, None) /\ "delete" \in Kind /\ None \in Scale \cup {None}
    BY <1>7 DEF onDeleteService, Kind
  <2>2. StoreInv'
    BY <2>1, SendStep
  <2> QED  BY <1>1, <2>1, <2>2 DEF Send, tab
<1>8. ASSUME NEW i \in Slot,
             CreateService(i) \/ ReadVersion(i) \/ UpdateService(i)
                \/ DeleteService(i) \/ Fail(i) \/ LoseAnswer(i)
      PROVE  StoreInv' /\ shownAt' >= shownAt
  <2>1. StoreInv'
    BY <1>8, CreateServiceStep, ReadVersionStep, UpdateServiceStep,
       DeleteServiceStep, FailStep, LoseAnswerStep
  <2>2. UNCHANGED tab
    BY <1>8 DEF CreateService, ReadVersion, UpdateService, DeleteService, Fail,
       LoseAnswer
  <2> QED  BY <1>1, <2>1, <2>2 DEF tab
<1>9. ASSUME NEW i \in Slot, FormSucceeds(i) \/ DeleteSucceeds(i) \/ CallFails(i)
      PROVE  StoreInv' /\ shownAt' >= shownAt
  <2>1. StoreInv'
    BY <1>9, FormSucceedsStep, DeleteSucceedsStep, CallFailsStep
  <2>2. shownAt' = shownAt
    BY <1>9 DEF FormSucceeds, DeleteSucceeds, CallFails, tab
  <2> QED  BY <1>1, <2>1, <2>2
<1>10. CASE OthersChange
  BY <1>1, <1>10, OthersChangeStep DEF OthersChange, tab
<1>11. CASE UNCHANGED vars
  BY <1>1, <1>11 DEF vars, tab, cluster, StoreInv, TypeOK, FormInv, FetchInv,
     VersionInv, CallInv, DeletionsShow
<1> QED
  BY <1>2, <1>3, <1>4, <1>5, <1>6, <1>7, <1>8, <1>9, <1>10, <1>11 DEF Next

(* The invariant: lists and calls, and the Swarm they speak of.            *)
THEOREM ServicesInvariant == Spec => []StoreInv
<1>1. StoreInv /\ [Next]_vars => StoreInv'
  BY StoreInvNext
<1> QED  BY <1>1, StoreInvInit, PTL DEF Spec

(* State of the tab, calls and services of the Swarm are well typed.       *)
THEOREM ServicesTypesHold == Spec => []TypeOK
<1>1. StoreInv => TypeOK
  BY DEF StoreInv
<1> QED  BY <1>1, ServicesInvariant, PTL

(* A deletion that asked for a list is in the list that is shown.          *)
THEOREM DeletionsAreShown == Spec => []DeletionsShow
<1>1. StoreInv => DeletionsShow
  BY DEF StoreInv
<1> QED  BY <1>1, ServicesInvariant, PTL

(* The list that is shown is never replaced by an older one.               *)
THEOREM ListsNeverGoBack == Spec => TableNeverGoesBack
<1>1. StoreInv /\ [Next]_vars => [shownAt' >= shownAt]_vars
  BY StoreInvNext
<1> QED  BY <1>1, ServicesInvariant, PTL DEF Spec, TableNeverGoesBack

-----------------------------------------------------------------------------
(* Optimistic concurrency: versions are never given twice, since each is   *)
(* the index of a change.                                                  *)

(* A service that was touched is gone, or newer than the version read.     *)
TouchedIsNewer ==
    \A i \in Slot :
       At(i, "read") /\ calls[i].touched =>
          \/ calls[i].name \notin DOMAIN swarm
          \/ swarm[calls[i].name].version > calls[i].version

(* What d holds is as it was in c, or is of index k.                       *)
NewAt(c, d, k) ==
    \A m \in DOMAIN d : \/ m \in DOMAIN c /\ d[m] = c[m]
                        \/ d[m].version = k

(* Each operation of the Swarm gives the index of its change as version.   *)
LEMMA OperationsAreNew ==
    ASSUME NEW c, NEW n, NEW s, NEW v, NEW k
    PROVE  /\ NewAt(c, Created(c, n, s, k), k)
           /\ NewAt(c, Updated(c, n, s, v, k), k)
           /\ NewAt(c, Deleted(c, n), k)
           /\ NewAt(c, c, k)
<1>1. NewAt(c, With(c, n, s, k), k)
  BY DEF NewAt, With
<1>2. NewAt(c, c, k)
  BY DEF NewAt
<1>3. NewAt(c, Deleted(c, n), k)
  BY DEF NewAt, Deleted
<1> QED  BY <1>1, <1>2, <1>3 DEF Created, Updated

(* A change in the Swarm, while calls between their two steps wait.        *)
LEMMA ChangeTouches ==
    ASSUME StoreInv, TouchedIsNewer, NewAt(swarm, swarm', index + 1),
           NEW cs \in [Slot -> {None} \cup Call], calls' = Touching(cs),
           \A i \in Slot : cs[i] # None /\ cs[i].step = "read" =>
              cs[i] = calls[i]
    PROVE  TouchedIsNewer'
<1> SUFFICES ASSUME NEW i \in Slot, calls'[i] # None,
                    calls'[i].step = "read", calls'[i].touched
             PROVE  \/ calls'[i].name \notin DOMAIN swarm'
                    \/ swarm'[calls'[i].name].version > calls'[i].version
  BY DEF TouchedIsNewer, At
<1> DEFINE call == cs[i]
<1>1. call # None /\ call \in Call
  BY NoneAssumption, TouchingCalls
<1>2. /\ call.step = "read"
      /\ calls'[i].name = call.name /\ calls'[i].version = call.version
  <2>1. calls'[i] = call \/ calls'[i] = [call EXCEPT !.touched = TRUE]
    BY TouchingCalls
  <2> QED  BY <1>1, <2>1, TouchedCall
<1>3. call = calls[i]
  BY <1>1, <1>2
<1>4. call.version \in Nat /\ index \in Nat /\ call.version <= index
  BY <1>1, <1>3 DEF Call, StoreInv, TypeOK, VersionInv
<1>5. CASE Same(call.name)
  <2>1. calls'[i] = call
    BY <1>1, <1>5, TouchingCalls
  <2> QED  BY <1>1, <1>2, <1>3, <1>5, <2>1 DEF TouchedIsNewer, At, Same
<1>6. CASE ~Same(call.name)
  <2>1. call.name \in DOMAIN swarm' =>
           swarm'[call.name].version = index + 1
    BY <1>6 DEF Same, NewAt
  <2> QED  BY <1>2, <1>4, <2>1
<1> QED  BY <1>5, <1>6

(* An answer to one call leaves no other call between its two steps.       *)
LEMMA AnswerTouches ==
    ASSUME StoreInv, TouchedIsNewer, NewAt(swarm, swarm', index + 1),
           NEW i \in Slot, calls[i] # None, NEW v \in Nat, NEW b \in BOOLEAN,
           Answer(i, v, b)
    PROVE  TouchedIsNewer'
<1> DEFINE answered == [calls[i] EXCEPT !.step = "answered", !.version = v,
                                        !.ok = b, !.done = @ \/ swarm' # swarm]
           cs == [calls EXCEPT ![i] = answered]
<1>1. calls[i] \in Call /\ calls \in [Slot -> {None} \cup Call]
  BY NoneAssumption DEF StoreInv, TypeOK
<1>2. answered \in Call /\ answered.step = "answered"
  <2> DEFINE d == swarm' # swarm
             call == calls[i]
  <2>1. d \in BOOLEAN
    OBVIOUS
  <2>2. LET t == [call EXCEPT !.step = "answered", !.version = v, !.ok = b,
                              !.done = @ \/ d]
        IN  t \in Call /\ t.step = "answered"
    <3>1. call \in Call
      BY <1>1
    <3> HIDE DEF d, call
    <3> QED  BY <2>1, <3>1 DEF Call, Step
  <2> QED  BY <2>2
<1>3. calls' = Touching(cs)
  BY <1>1 DEF Answer
<1>4. cs[i] = answered /\ \A j \in Slot : j # i => cs[j] = calls[j]
  BY <1>1
<1> HIDE DEF answered
<1>5. cs \in [Slot -> {None} \cup Call]
  BY <1>1, <1>2
<1>6. \A j \in Slot : cs[j] # None /\ cs[j].step = "read" => cs[j] = calls[j]
  BY <1>2, <1>4
<1> HIDE DEF cs
<1> QED  BY <1>3, <1>5, <1>6, ChangeTouches

(* The calls of which none gets between its two steps, without a change.   *)
LEMMA QuietSteps ==
    ASSUME TouchedIsNewer, UNCHANGED swarm,
           \A i \in Slot : calls'[i] # None /\ calls'[i].step = "read" =>
              calls'[i] = calls[i] \/ ~calls'[i].touched
    PROVE  TouchedIsNewer'
BY DEF TouchedIsNewer, At

(* Every step keeps it.                                                    *)
LEMMA TouchedIsNewerNext ==
    ASSUME StoreInv, TouchedIsNewer, [Next]_vars
    PROVE  TouchedIsNewer'
<1>1. /\ calls \in [Slot -> {None} \cup Call] /\ index \in Nat
      /\ 0 \in Nat /\ TRUE \in BOOLEAN
  BY DEF StoreInv, TypeOK
<1>2. CASE UNCHANGED <<calls, swarm>>
  BY <1>2 DEF TouchedIsNewer, At
<1>3. ASSUME NEW kind, NEW n, NEW s, Send(kind, n, s)
      PROVE  TouchedIsNewer'
  <2>1. clicks' \in Slot
    BY <1>3, MaxAssumption DEF Send, StoreInv, TypeOK, Slot
  <2> QED  BY <1>1, <1>3, <2>1, QuietSteps DEF Send, cluster
<1>4. ASSUME NEW i \in Slot, CreateService(i)
      PROVE  TouchedIsNewer'
  <2>1. NewAt(swarm, swarm', index + 1)
    BY <1>4, OperationsAreNew DEF CreateService, Attempts, Changes
  <2>2. PICK ok \in BOOLEAN : Answer(i, 0, ok)
    BY <1>4 DEF CreateService, createService
  <2>3. calls[i] # None
    BY <1>4 DEF CreateService, Sent, At
  <2> QED  BY <1>1, <2>1, <2>2, <2>3, AnswerTouches
<1>5. ASSUME NEW i \in Slot, UpdateService(i)
      PROVE  TouchedIsNewer'
  <2>1. NewAt(swarm, swarm', index + 1)
    BY <1>5, OperationsAreNew DEF UpdateService, Attempts, Changes
  <2>2. calls[i] # None /\ Answer(i, 0, TRUE)
    BY <1>5 DEF UpdateService, At
  <2> QED  BY <1>1, <2>1, <2>2, AnswerTouches
<1>6. ASSUME NEW i \in Slot, DeleteService(i)
      PROVE  TouchedIsNewer'
  <2>1. NewAt(swarm, swarm', index + 1) /\ index' \in Nat
    BY <1>1, <1>6, OperationsAreNew DEF DeleteService, Attempts, Changes
  <2>2. calls[i] # None /\ Answer(i, index', TRUE)
    BY <1>6 DEF DeleteService, Sent, At
  <2> QED  BY <1>1, <2>1, <2>2, AnswerTouches
<1>7. CASE OthersChange
  <2>1. NewAt(swarm, swarm', index + 1)
    BY <1>7, OperationsAreNew DEF OthersChange, Changes
  <2> QED  BY <1>1, <1>7, <2>1, ChangeTouches DEF OthersChange
<1>8. ASSUME NEW i \in Slot,
             ReadVersion(i) \/ Fail(i) \/ LoseAnswer(i)
                \/ FormSucceeds(i) \/ DeleteSucceeds(i) \/ CallFails(i)
      PROVE  TouchedIsNewer'
  <2>1. UNCHANGED swarm
    BY <1>8 DEF ReadVersion, Fail, LoseAnswer, FormSucceeds, DeleteSucceeds,
       CallFails, cluster
  <2>2. calls[i] \in Call
    BY <1>1, <1>8, NoneAssumption
       DEF ReadVersion, Fail, LoseAnswer, FormSucceeds, DeleteSucceeds,
           CallFails, Sent, At
  <2>3. \A j \in Slot : j # i => calls'[j] = calls[j]
    BY <1>1, <1>8 DEF ReadVersion, Fail, LoseAnswer, FormSucceeds,
       DeleteSucceeds, CallFails, Over
  <2>4. calls'[i] # None /\ calls'[i].step = "read" => ~calls'[i].touched
    BY <1>1, <1>8, <2>2 DEF ReadVersion, Fail, LoseAnswer, FormSucceeds,
       DeleteSucceeds, CallFails, Over, At, Call
  <2> QED  BY <2>1, <2>3, <2>4, QuietSteps
<1> QED
  BY <1>2, <1>3, <1>4, <1>5, <1>6, <1>7, <1>8
     DEF Next, vars, tab, cluster, LoadServices, Read, FetchSucceeds, FetchFails,
         OpenPage, OpenUpdate, onServiceSubmit, onServiceUpdateSubmit,
         onDeleteService

(* A call that is touched, or another that is answered, is not answered.   *)
LEMMA StaysRead ==
    ASSUME StoreInv, NEW i \in Slot, At(i, "read"), At(i, "answered")',
           NEW cs \in [Slot -> {None} \cup Call], calls' = Touching(cs)
    PROVE  cs[i] # calls[i]
<1> SUFFICES ASSUME cs[i] = calls[i] PROVE FALSE
  OBVIOUS
<1>1. cs[i] # None /\ cs[i] \in Call /\ cs[i].step = "read"
  BY NoneAssumption DEF At
<1>2. \/ calls'[i] = cs[i]
      \/ calls'[i] = [cs[i] EXCEPT !.touched = TRUE]
  BY TouchingCalls
<1>3. calls'[i].step = cs[i].step
  BY <1>1, <1>2, TouchedCall
<1> QED  BY <1>1, <1>3 DEF At

LEMMA OnlyItsAnswer ==
    ASSUME StoreInv, NEW i \in Slot, At(i, "read"), At(i, "answered")',
           NEW j \in Slot, calls[j] # None, NEW v \in Nat, NEW b \in BOOLEAN,
           Answer(j, v, b)
    PROVE  j = i
<1> DEFINE answered == [calls[j] EXCEPT !.step = "answered", !.version = v,
                                        !.ok = b, !.done = @ \/ swarm' # swarm]
           cs == [calls EXCEPT ![j] = answered]
<1>1. calls[j] \in Call /\ calls \in [Slot -> {None} \cup Call]
  BY NoneAssumption DEF StoreInv, TypeOK
<1>2. answered \in Call
  <2> DEFINE d == swarm' # swarm
             call == calls[j]
  <2>1. d \in BOOLEAN /\ call \in Call
    BY <1>1
  <2>2. [call EXCEPT !.step = "answered", !.version = v, !.ok = b,
                     !.done = @ \/ d] \in Call
    <3> HIDE DEF d, call
    <3> QED  BY <2>1 DEF Call, Step
  <2> QED  BY <2>2
<1>3. calls' = Touching(cs)
  BY <1>1 DEF Answer
<1>4. j # i => cs[i] = calls[i]
  BY <1>1
<1> HIDE DEF answered
<1>5. cs \in [Slot -> {None} \cup Call]
  BY <1>1, <1>2
<1> HIDE DEF cs
<1> QED  BY <1>3, <1>4, <1>5, StaysRead

(* An update that has its effect in a step is the only change of the step. *)
LEMMA EffectOfUpdate ==
    ASSUME StoreInv, [Next]_vars, swarm' # swarm,
           NEW i \in Slot, At(i, "read"), At(i, "answered")'
    PROVE  UpdateService(i)
<1>1. /\ calls \in [Slot -> {None} \cup Call] /\ index \in Nat
      /\ 0 \in Nat /\ TRUE \in BOOLEAN
  BY DEF StoreInv, TypeOK
<1>2. ASSUME NEW j \in Slot, CreateService(j)
      PROVE  FALSE
  <2>1. PICK ok \in BOOLEAN : Answer(j, 0, ok)
    BY <1>2 DEF CreateService, createService
  <2>2. calls[j] # None /\ calls[j].step = "sent"
    BY <1>2 DEF CreateService, Sent, At
  <2>3. j = i
    BY <1>1, <2>1, <2>2, OnlyItsAnswer
  <2> QED  BY <2>2, <2>3 DEF At
<1>3. ASSUME NEW j \in Slot, DeleteService(j)
      PROVE  FALSE
  <2>1. index' \in Nat
    BY <1>1, <1>3 DEF DeleteService, Changes
  <2>2. Answer(j, index', TRUE) /\ calls[j] # None /\ calls[j].step = "sent"
    BY <1>3 DEF DeleteService, Sent, At
  <2>3. j = i
    BY <1>1, <2>1, <2>2, OnlyItsAnswer
  <2> QED  BY <2>2, <2>3 DEF At
<1>4. CASE OthersChange
  BY <1>1, <1>4, StaysRead DEF OthersChange
<1>5. ASSUME NEW j \in Slot, UpdateService(j)
      PROVE  UpdateService(i)
  <2>1. calls[j] # None /\ Answer(j, 0, TRUE)
    BY <1>5 DEF UpdateService, At
  <2>2. j = i
    BY <1>1, <2>1, OnlyItsAnswer
  <2> QED  BY <1>5, <2>2
<1> QED
  BY <1>2, <1>3, <1>4, <1>5
     DEF Next, vars, tab, cluster, LoadServices, Read, FetchSucceeds, FetchFails,
         OpenPage, OpenUpdate, onServiceSubmit, onServiceUpdateSubmit, Send,
         onDeleteService, ReadVersion, Fail, LoseAnswer, FormSucceeds,
         DeleteSucceeds, CallFails

(* No update overwrites a change made after its version was read.          *)
THEOREM UpdatesOverwriteNothing == Spec => NoUpdateIsLost
<1>1. Init => TouchedIsNewer
  BY DEF Init, TouchedIsNewer, At
<1>2. StoreInv /\ TouchedIsNewer /\ [Next]_vars => TouchedIsNewer'
  BY TouchedIsNewerNext
<1>3. ASSUME StoreInv, TouchedIsNewer, [Next]_vars, swarm' # swarm,
             NEW i \in Slot, At(i, "read"), At(i, "answered")'
      PROVE  ~calls[i].touched
  <2>1. swarm' = Updated(swarm, calls[i].name, calls[i].spec,
                         calls[i].version, index + 1)
    BY <1>3, EffectOfUpdate DEF UpdateService, Attempts, Changes
  <2>2. /\ calls[i].name \in DOMAIN swarm
        /\ swarm[calls[i].name].version = calls[i].version
    BY <1>3, <2>1 DEF Updated
  <2>3. calls[i].version \in Nat
    BY <1>3, NoneAssumption DEF At, Call, StoreInv, TypeOK
  <2> QED  BY <1>3, <2>2, <2>3 DEF TouchedIsNewer
<1>4. StoreInv /\ TouchedIsNewer /\ [Next]_vars =>
         [swarm' # swarm =>
             \A i \in Slot :
                At(i, "read") /\ At(i, "answered")' => ~calls[i].touched]_vars
  BY <1>3
<1> QED
  BY <1>1, <1>2, <1>4, ServicesInvariant, PTL DEF Spec, NoUpdateIsLost

-----------------------------------------------------------------------------
(* CallsInterceptor sends a call again whose answer was lost.  For the list *)
(* of services it makes no difference that the first attempt was carried   *)
(* out, and if nobody else makes a change in between, a second attempt     *)
(* changes nothing else: it finds the service created or deleted, and      *)
(* updates it to what it is.                                               *)
THEOREM RepeatedCallsChangeNothing ==
    ASSUME NEW c, IsServices(c), NEW n \in Name, NEW s \in Scale, NEW v \in Nat,
           NEW k \in Nat, NEW j \in Nat
    PROVE  /\ Created(Created(c, n, s, k), n, s, j) = Created(c, n, s, k)
           /\ Deleted(Deleted(c, n), n) = Deleted(c, n)
           /\ LET d == Updated(c, n, s, v, k)
              IN  d # c => getServices(Updated(d, n, s, d[n].version, j))
                              = getServices(d)
<1>1. Created(Created(c, n, s, k), n, s, j) = Created(c, n, s, k)
  BY DEF Created, CanCreate, With
<1>2. Deleted(Deleted(c, n), n) = Deleted(c, n)
  BY DEF Deleted
<1>3. ASSUME Updated(c, n, s, v, k) # c
      PROVE  LET d == Updated(c, n, s, v, k)
             IN  getServices(Updated(d, n, s, d[n].version, j)) = getServices(d)
  <2> DEFINE d == Updated(c, n, s, v, k)
             u == Updated(d, n, s, d[n].version, j)
  <2>1. n \in DOMAIN d /\ d[n].spec = s /\ s \notin Invalid
    BY <1>3 DEF Updated, With
  <2> HIDE DEF d
  <2>2. /\ DOMAIN u = DOMAIN d
        /\ \A m \in DOMAIN d : u[m].spec = d[m].spec
    BY <2>1 DEF Updated, With
  <2> HIDE DEF u
  <2>3. getServices(u) = getServices(d)
    BY <2>2 DEF getServices
  <2> QED  BY <2>3 DEF d, u
<1> QED  BY <1>1, <1>2, <1>3
=============================================================================
