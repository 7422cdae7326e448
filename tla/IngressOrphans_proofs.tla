----------------------- MODULE IngressOrphans_proofs ------------------------
(***************************************************************************)
(* Proofs about IngressOrphans, for every set of CRs and ingresses, every  *)
(* installation and every bound.  They look at the calls a reconcile still *)
(* has to make as a set, and at their order for StandingKept only.         *)
(***************************************************************************)
EXTENDS IngressOrphans, SequenceElements

Pending(c) == Elements(todo[c])
First(c) == Head(todo[c])
Others(c) == Elements(Tail(todo[c]))

-----------------------------------------------------------------------------
(* The calls that the model's operators make                               *)

Deletes(kind, names) == IF names = {} THEN {} ELSE {Call("delete", kind, names, {})}
Sweeps(kind, keep) ==
  {Call("sweep", policy, {}, keep) : policy \in IF kind = "HTTPRoute" THEN PolicyKinds ELSE {}}
TryDeletes(kind, name) ==
  {Call("tryDelete", policy, {name}, {}) :
     policy \in IF kind = "HTTPRoute" THEN PolicyKinds ELSE {}}
Policies(kind, name) ==
  {Apply(policy, name) : policy \in IF kind = "HTTPRoute" THEN PoliciesOf[name] ELSE {}}
Specs(names) == IF names = {} THEN {} ELSE {Call("specs", None, names, {})}

AnyKind == RouteKinds \cup PolicyKinds

LEMMA CallIsCall ==
  ASSUME NEW do \in {"lock", "list", "collect", "decide", "delete", "tryDelete",
                     "sweep", "specs", "apply"},
         NEW kind \in AnyKind \cup {None}, NEW names \in AnyNames, NEW keep \in AnyNames
  PROVE  Call(do, kind, names, keep) \in Calls
BY DEF Call, Calls, AnyKind

LEMMA CallsForEach ==
  ASSUME NEW call \in Calls
  PROVE  /\ ForEach(call) \in Seq(Calls)
         /\ Elements(ForEach(call)) = IF call.names = {} THEN {} ELSE {call}
<1>1. CASE call.names = {}
  BY <1>1, ElementsOfNone DEF ForEach
<1>2. CASE call.names # {}
  BY <1>2, ElementsOfOne DEF ForEach
<1> QED BY <1>1, <1>2

LEMMA DeleteCalls ==
  ASSUME NEW kind \in AnyKind, NEW names \in AnyNames
  PROVE  /\ Delete(kind, names) \in Seq(Calls)
         /\ Elements(Delete(kind, names)) = Deletes(kind, names)
<1> DEFINE call == Call("delete", kind, names, {})
<1>1. call \in Calls
  BY CallIsCall DEF AnyNames
<1>2. call.names = names
  BY DEF Call
<1>3. Delete(kind, names) = ForEach(call) /\ Deletes(kind, names) = IF names = {} THEN {} ELSE {call}
  BY DEF Delete, Deletes
<1> HIDE DEF call
<1> QED BY <1>1, <1>2, <1>3, CallsForEach

LEMMA SpecsCalls ==
  ASSUME NEW names \in AnyNames
  PROVE  /\ ApplyIngressSpecs(names) \in Seq(Calls)
         /\ Elements(ApplyIngressSpecs(names)) = Specs(names)
<1> DEFINE call == Call("specs", None, names, {})
<1>1. call \in Calls
  BY CallIsCall DEF AnyNames
<1>2. call.names = names
  BY DEF Call
<1>3. ApplyIngressSpecs(names) = ForEach(call) /\ Specs(names) = IF names = {} THEN {} ELSE {call}
  BY DEF ApplyIngressSpecs, Specs
<1> HIDE DEF call
<1> QED BY <1>1, <1>2, <1>3, CallsForEach

LEMMA SweepCalls ==
  ASSUME NEW kind \in RouteKinds, NEW keep \in AnyNames
  PROVE  /\ Sweep(kind, keep) \in Seq(Calls)
         /\ Elements(Sweep(kind, keep)) = Sweeps(kind, keep)
<1> DEFINE call(policy) == Call("sweep", policy, {}, keep)
<1>1. \A policy \in PolicyKinds : call(policy) \in Calls
  BY CallIsCall DEF AnyNames, AnyKind
<1>2. CASE kind = "HTTPRoute"
  <2>1. Sweep(kind, keep) = <<call("BackendTrafficPolicy"), call("ClientTrafficPolicy")>>
    BY <1>2 DEF Sweep
  <2>2. Sweeps(kind, keep) = {call("BackendTrafficPolicy"), call("ClientTrafficPolicy")}
    BY <1>2 DEF Sweeps, PolicyKinds
  <2> HIDE DEF call
  <2> QED BY <1>1, <2>1, <2>2, ElementsOfTwo DEF PolicyKinds
<1>3. CASE kind # "HTTPRoute"
  BY <1>3, ElementsOfNone DEF Sweep, Sweeps
<1> QED BY <1>2, <1>3

LEMMA PolicyDeletes ==
  ASSUME NEW kind \in AnyKind, NEW name \in IngressNames
  PROVE  /\ DeletePolicies(kind, name) \in Seq(Calls)
         /\ Elements(DeletePolicies(kind, name)) = TryDeletes(kind, name)
<1> DEFINE call(policy) == Call("tryDelete", policy, {name}, {})
<1>1. \A policy \in PolicyKinds : call(policy) \in Calls
  BY CallIsCall DEF AnyNames, AnyKind
<1>2. CASE kind = "HTTPRoute"
  <2>1. DeletePolicies(kind, name)
          = <<call("BackendTrafficPolicy"), call("ClientTrafficPolicy")>>
    BY <1>2 DEF DeletePolicies
  <2>2. TryDeletes(kind, name)
          = {call("BackendTrafficPolicy"), call("ClientTrafficPolicy")}
    BY <1>2 DEF TryDeletes, PolicyKinds
  <2> HIDE DEF call
  <2> QED BY <1>1, <2>1, <2>2, ElementsOfTwo DEF PolicyKinds
<1>3. CASE kind # "HTTPRoute"
  BY <1>3, ElementsOfNone DEF DeletePolicies, TryDeletes
<1> QED BY <1>2, <1>3

LEMMA PolicyApplies ==
  ASSUME NEW kind \in AnyKind, NEW name \in IngressNames
  PROVE  /\ ApplyPolicies(kind, name) \in Seq(Calls)
         /\ Elements(ApplyPolicies(kind, name)) = Policies(kind, name)
<1> DEFINE apply(policy) == IF kind = "HTTPRoute" /\ policy \in PoliciesOf[name]
                            THEN <<Apply(policy, name)>> ELSE <<>>
           made(policy) == IF kind = "HTTPRoute" /\ policy \in PoliciesOf[name]
                           THEN {Apply(policy, name)} ELSE {}
<1>1. \A policy \in PolicyKinds : Apply(policy, name) \in Calls
  BY CallIsCall DEF AnyNames, AnyKind, Apply
<1>2. ASSUME NEW policy \in PolicyKinds
      PROVE  apply(policy) \in Seq(Calls) /\ Elements(apply(policy)) = made(policy)
  <2>1. CASE kind = "HTTPRoute" /\ policy \in PoliciesOf[name]
    <3>1. apply(policy) = <<Apply(policy, name)>> /\ made(policy) = {Apply(policy, name)}
      BY <2>1
    <3> HIDE DEF apply, made
    <3> QED BY <1>1, <3>1, ElementsOfOne
  <2>2. CASE ~(kind = "HTTPRoute" /\ policy \in PoliciesOf[name])
    <3>1. apply(policy) = <<>> /\ made(policy) = {}
      BY <2>2
    <3> HIDE DEF apply, made
    <3> QED BY <3>1, ElementsOfNone
  <2> QED BY <2>1, <2>2
<1>3. ApplyPolicies(kind, name)
        = apply("BackendTrafficPolicy") \o apply("ClientTrafficPolicy")
  BY DEF ApplyPolicies
<1>4. Policies(kind, name) = made("BackendTrafficPolicy") \cup made("ClientTrafficPolicy")
  BY PoliciesAssumption DEF Policies, PolicyKinds
<1> HIDE DEF apply, made
<1> QED BY <1>2, <1>3, <1>4, ElementsOfConcat DEF PolicyKinds

LEMMA OrphansCalls ==
  ASSUME system \in Seq(RouteKinds)
  PROVE  /\ Orphans \in Seq(Calls)
         /\ Elements(Orphans) = {DeleteOrphaned(kind) : kind \in Deployed}
<1>1. \A kind \in RouteKinds : DeleteOrphaned(kind) \in Calls
  BY CallIsCall DEF DeleteOrphaned, Phases, AnyNames, AnyKind
<1>2. DOMAIN system = 1..Len(system) /\ Len(system) \in Nat
      /\ \A i \in DOMAIN system : system[i] \in RouteKinds
  OBVIOUS
<1>3. Orphans = [i \in 1..Len(system) |-> DeleteOrphaned(system[i])]
  BY <1>2 DEF Orphans
<1> HIDE DEF DeleteOrphaned
<1>4. Orphans \in Seq(Calls)
  BY <1>1, <1>2, <1>3
<1> QED BY <1>2, <1>3, <1>4 DEF Elements, Deployed

LEMMA AppliesCalls ==
  ASSUME system \in Seq(RouteKinds), NEW n \in IngressNames \cup {Unnamed}
  PROVE  LET calls == [i \in DOMAIN system |-> Apply(system[i], n)]
         IN /\ calls \in Seq(Calls)
            /\ Elements(calls) = {Apply(kind, n) : kind \in Deployed}
<1> DEFINE calls == [i \in DOMAIN system |-> Apply(system[i], n)]
<1>1. \A kind \in RouteKinds : Apply(kind, n) \in Calls
  BY CallIsCall DEF Apply, AnyNames, AnyKind
<1>2. DOMAIN system = 1..Len(system) /\ Len(system) \in Nat
      /\ \A i \in DOMAIN system : system[i] \in RouteKinds
  OBVIOUS
<1>3. calls = [i \in 1..Len(system) |-> Apply(system[i], n)]
  BY <1>2
<1>4. calls \in Seq(Calls)
  BY <1>1, <1>2, <1>3
<1> QED BY <1>2, <1>3, <1>4 DEF Elements, Deployed

-----------------------------------------------------------------------------
(* Types                                                                   *)

\* What the calls of c's reconcile are about.
Proper(c, call) ==
  /\ call.do \in {"list", "collect", "decide"} => call.kind \in RouteKinds
  /\ call.do \in {"collect", "decide", "delete", "tryDelete"} =>
       call.kind \in AnyKind /\ call.names \subseteq IngressNames
  /\ call.do = "tryDelete" => \E n \in IngressNames : call.names = {n}
  /\ call.do = "sweep" => call.kind \in PolicyKinds
  /\ call.do \in {"specs", "apply"} =>
       obj[c] \in Objects /\ call.names \subseteq obj[c].declares
  /\ call.do = "apply" =>
       /\ call.kind \in Deployed \cup PolicyKinds
       /\ \E n \in IngressNames \cup {Unnamed} :
            /\ call = Apply(call.kind, n)
            /\ call.kind \in PolicyKinds => n \in IngressNames

Typed ==
  /\ TypeOK
  /\ born \in [CRs -> Nat]
  /\ system \in Seq(RouteKinds)
  /\ todo \in [CRs -> Seq(Calls)]
  /\ obj \in [CRs -> Objects \cup {None}]
  /\ standing \in [CRs -> SUBSET (CRs \X IngressNames)]
  /\ \A c \in CRs : \A call \in Pending(c) : Proper(c, call)

-----------------------------------------------------------------------------
(* The inductive invariants                                                *)

\* What is true since a restart, while users change nothing.
Current(call) ==
  /\ call.do = "decide" => call.keep = DeclaredBy("FacadeService")
  /\ call.do = "sweep" => call.keep = Declared
  /\ call.do \in {"delete", "tryDelete"} => call.names \cap Declared = {}

Exists(o) == res[o] # None

\* Ingress n of c is there, with its policies, or is to be.
Served(c, kind, n) ==
  \/ Apply(kind, n) \in Pending(c)
  \/ /\ n \in IngressNames /\ Exists(Of(kind, n))
     /\ kind = "HTTPRoute" =>
          \A policy \in PoliciesOf[n] :
            Apply(policy, n) \in Pending(c) \/ Exists(Of(policy, n))

Specifies(c, n) == \E call \in Pending(c) : call.do = "specs" /\ n \in call.names

CRServed(c) ==
  \A n \in Declares(crs, c) :
    c \in queue \/ Specifies(c, n) \/ \A kind \in Deployed : Served(c, kind, n)

Recovering ==
  /\ crCache = crs
  /\ \A o \in Resources : ~Collectable(o)
  /\ \A o \in Cached : Exists(o) => o.name \in Declared \/ seen[o] # None
  /\ \A c \in CRs :
       /\ c \in busy => obj[c] = crs[c]
       /\ \A call \in Pending(c) : Current(call)
       /\ CRServed(c)

\* What the caches of the CRs declare.
Known == UNION {Declares(crCache, c) : c \in CRs}

\* The call is on the way to delete o.
Marks(call, o) ==
  /\ call.kind = o.kind /\ o.name \in call.names
  /\ \/ call.do \in {"collect", "delete"}
     \/ call.do = "decide" /\ o.name \notin call.keep
InHand(o) ==
  \/ queue # {}
  \/ \E c \in CRs : DeleteOrphaned(o.kind) \in Pending(c)
  \/ seen[o] # None /\ \E c \in CRs : \E call \in Pending(c) : Marks(call, o)

Watched == recovered \/ (~lagged /\ faults = 0)

\* Who reconciles an old object is to reconcile the new one.
Fresh == \A c \in busy : obj[c] = crCache[c] \/ c \in queue

OfSystem == \A o \in Cached : Exists(o) => o.kind \in Deployed

\* Every ingress and route that no CR declares is on the way to be deleted.
Followed == Watched => \A o \in Cached : Exists(o) => o.name \in Known \/ InHand(o)

\* The call is on the way to delete policy o.
Removes(call, o) ==
  \/ call.do \in {"list", "collect", "decide"} /\ call.kind = "HTTPRoute"
  \/ call.do = "sweep" /\ call.kind = o.kind
  \/ call.do = "delete" /\ call.kind = o.kind /\ o.name \in call.names
PolicyInHand(o) ==
  queue # {} \/ \E c \in CRs : \E call \in Pending(c) : Removes(call, o)

Route(n) == Of("HTTPRoute", n)
RouteStays ==
  \E n \in IngressNames \cap Declared : Exists(Route(n)) /\ seen[Route(n)] # None

\* While a declared route is there to be listed, the policies are looked for.
PoliciesFollowed ==
  /\ RouteStays
  /\ \A o \in Resources \ Cached :
       Exists(o) => o.name \in Declared \/ PolicyInHand(o)

Tended ==
  /\ Typed
  /\ recovered => Recovering
  /\ recovered /\ routed => PoliciesFollowed
  /\ Fresh /\ OfSystem /\ Followed
  /\ faults \in Nat

ListsFirst(s) ==
  \A i, j \in DOMAIN s :
    i < j /\ s[i].do = "list" => s[j].do \in {"list", "specs"}

\* What c's reconcile may delete, no CR has declared ever since c listed.
Spares(c, call) ==
  \A p \in standing[c] :
    /\ call.do = "decide" /\ p[1].kind = "FacadeService" => p[2] \in call.keep
    /\ call.do = "delete" /\ call.kind \in RouteKinds => p[2] \notin call.names

Standing ==
  \A c \in CRs :
    /\ \A p \in standing[c] : p[2] \in Declares(crCache, p[1])
    /\ \A call \in Pending(c) : Spares(c, call)
    /\ ListsFirst(todo[c])

-----------------------------------------------------------------------------
(* What the steps of c's reconcile do to its calls                         *)

Turn(c, new) ==
  /\ c \in busy /\ First(c) \in Calls
  /\ Pending(c) = {First(c)} \cup Others(c)
  /\ Pending(c)' = new \cup Others(c)
  /\ \A d \in CRs \ {c} : todo'[d] = todo[d] /\ Pending(d)' = Pending(d)
  /\ todo' \in [CRs -> Seq(Calls)]
  /\ ListsFirst(todo[c]) /\ (\A call \in new : call.do # "list")
       => ListsFirst(todo'[c])

Ends(c) ==
  /\ c \in busy
  /\ todo'[c] = <<>> /\ Pending(c)' = {}
  /\ \A d \in CRs \ {c} : todo'[d] = todo[d] /\ Pending(d)' = Pending(d)
  /\ todo' \in [CRs -> Seq(Calls)]
  /\ busy' = busy \ {c}
  /\ obj' = [obj EXCEPT ![c] = None]
  /\ standing' = [standing EXCEPT ![c] = {}]

Listed(c) ==
  LET found == {n \in IngressNames : seen[Of(First(c).kind, n)] # None}
  IN IF found = {} THEN {} ELSE {Call("collect", First(c).kind, found, First(c).keep)}
Collected(c) ==
  {Call("decide", First(c).kind, First(c).names, DeclaredBy("FacadeService"))}
Names(c) == First(c).keep \cup DeclaredBy("Gateway")
Decided(c) ==
  Deletes(First(c).kind, First(c).names \ Names(c)) \cup Sweeps(First(c).kind, Names(c))
Deleted(c, n) ==
  TryDeletes(First(c).kind, n) \cup Deletes(First(c).kind, First(c).names \ {n})
Swept(c) ==
  Deletes(First(c).kind,
          {n \in IngressNames \ First(c).keep : res[Of(First(c).kind, n)] # None})
Specified(c, n) ==
  {Apply(kind, n) : kind \in Deployed} \cup Specs(First(c).names \ {n})

LEMMA ListsStayFirst ==
  ASSUME NEW s \in Seq(Calls), s # <<>>, ListsFirst(s), NEW calls \in Seq(Calls),
         \A call \in Elements(calls) : call.do # "list"
  PROVE  ListsFirst(calls \o Tail(s))
<1> DEFINE t == calls \o Tail(s)
           n == Len(calls)
<1>1. /\ Tail(s) \in Seq(Calls) /\ Len(s) \in Nat \ {0} /\ DOMAIN s = 1..Len(s)
      /\ Len(Tail(s)) = Len(s) - 1
      /\ \A i \in 1..Len(s) - 1 : Tail(s)[i] = s[i + 1]
  BY HeadTailProperties
<1>2. /\ n \in Nat /\ DOMAIN t = 1..n + Len(s) - 1
      /\ \A i \in 1..n + Len(s) - 1 : t[i] = IF i <= n THEN calls[i] ELSE Tail(s)[i - n]
  BY <1>1, ConcatProperties
<1>3. \A i \in 1..n : calls[i].do # "list"
  BY DEF Elements
<1> HIDE DEF t, n
<1>4. ASSUME NEW i \in DOMAIN t, NEW j \in DOMAIN t, i < j, t[i].do = "list"
      PROVE  t[j].do \in {"list", "specs"}
  <2>1. i > n /\ j > n
    BY <1>2, <1>3, <1>4
  <2>2. i - n \in 1..Len(s) - 1 /\ j - n \in 1..Len(s) - 1
    BY <1>1, <1>2, <2>1
  <2>3. t[i] = s[i - n + 1] /\ t[j] = s[j - n + 1]
    <3>1. ~(i <= n) /\ ~(j <= n)
      BY <1>2, <2>1
    <3>2. t[i] = Tail(s)[i - n] /\ t[j] = Tail(s)[j - n]
      BY <1>2, <3>1
    <3> QED BY <1>1, <2>2, <3>2
  <2>4. /\ i - n + 1 \in DOMAIN s /\ j - n + 1 \in DOMAIN s
        /\ i - n + 1 < j - n + 1
    BY <1>1, <1>2, <1>4, <2>2
  <2> QED BY <1>4, <2>3, <2>4 DEF ListsFirst
<1> QED BY <1>4 DEF ListsFirst, t

LEMMA AfterLists ==
  ASSUME NEW s \in Seq(Calls), s # <<>>, ListsFirst(s), Head(s).do = "list"
  PROVE  \A call \in Elements(Tail(s)) : call.do \in {"list", "specs"}
<1>1. /\ Len(s) \in Nat \ {0} /\ DOMAIN s = 1..Len(s) /\ Head(s) = s[1]
      /\ DOMAIN Tail(s) = 1..Len(s) - 1
      /\ \A i \in 1..Len(s) - 1 : Tail(s)[i] = s[i + 1]
  BY HeadTailProperties
<1>2. ASSUME NEW i \in DOMAIN Tail(s) PROVE Tail(s)[i].do \in {"list", "specs"}
  <2>1. 1 \in DOMAIN s /\ i + 1 \in DOMAIN s /\ 1 < i + 1 /\ Tail(s)[i] = s[i + 1]
    BY <1>1
  <2> QED BY <1>1, <2>1 DEF ListsFirst
<1> QED BY <1>2 DEF Elements

LEMMA TurnTaken ==
  ASSUME Typed, NEW c \in CRs, c \in busy, todo[c] # <<>>,
         NEW calls \in Seq(Calls), Instead(c, calls)
  PROVE  Turn(c, Elements(calls))
<1>1. /\ First(c) \in Calls /\ Tail(todo[c]) \in Seq(Calls)
      /\ Pending(c) = {First(c)} \cup Others(c)
  BY ElementsOfHeadTail DEF Typed, First, Pending, Others
<1>2. /\ calls \o Tail(todo[c]) \in Seq(Calls)
      /\ Elements(calls \o Tail(todo[c])) = Elements(calls) \cup Others(c)
  BY <1>1, ElementsOfConcat DEF Others
<1>3. todo' = [todo EXCEPT ![c] = calls \o Tail(todo[c])]
  BY DEF Instead
<1>4. /\ todo'[c] = calls \o Tail(todo[c])
      /\ \A d \in CRs \ {c} : todo'[d] = todo[d]
      /\ todo' \in [CRs -> Seq(Calls)]
  BY <1>2, <1>3 DEF Typed
<1>5. ASSUME ListsFirst(todo[c]), \A call \in Elements(calls) : call.do # "list"
      PROVE  ListsFirst(todo'[c])
  <2>1. todo[c] \in Seq(Calls)
    BY DEF Typed
  <2> QED BY <1>4, <1>5, <2>1, ListsStayFirst
<1> QED BY <1>1, <1>2, <1>4, <1>5 DEF Turn, Pending

LEMMA EndTaken ==
  ASSUME Typed, NEW c \in CRs, c \in busy, Return(c)
  PROVE  Ends(c)
<1>1. /\ todo'[c] = <<>>
      /\ \A d \in CRs \ {c} : todo'[d] = todo[d]
      /\ todo' \in [CRs -> Seq(Calls)]
  BY DEF Return, Typed
<1> QED BY <1>1, ElementsOfNone DEF Return, Ends, Pending

LEMMA DeclaresNames ==
  ASSUME Typed, NEW kind
  PROVE  DeclaredBy(kind) \in AnyNames
BY DEF Typed, TypeOK, DeclaredBy, Declares, AnyNames, Objects

LEMMA FirstIsProper ==
  ASSUME Typed, NEW c \in CRs, todo[c] # <<>>
  PROVE  First(c) \in Calls /\ First(c) \in Pending(c) /\ Proper(c, First(c))
BY ElementsOfHeadTail DEF Typed, First, Pending

LEMMA ListTurn ==
  ASSUME Typed, NEW c \in CRs, List(c)
  PROVE  First(c).do = "list" /\ Turn(c, Listed(c))
<1> DEFINE kind == First(c).kind
           found == {n \in IngressNames : seen[Of(kind, n)] # None}
           keep == First(c).keep
           call == Call("collect", kind, found, keep)
<1>1. c \in busy /\ todo[c] # <<>> /\ First(c).do = "list"
  BY DEF List, Calling, First
<1>3. kind \in RouteKinds
  BY <1>1, FirstIsProper DEF Proper
<1>4. call \in Calls /\ call.names = found
  <2>1. found \in AnyNames /\ kind \in AnyKind
    BY <1>3 DEF AnyNames, AnyKind
  <2>2. keep \in AnyNames
    BY <1>1, FirstIsProper DEF Calls
  <2> HIDE DEF kind, found, keep
  <2>3. call \in Calls
    BY <2>1, <2>2, CallIsCall
  <2> QED BY <2>3 DEF Call
<1>5. Instead(c, ForEach(call))
  BY <1>1 DEF List, First, Following, Phases
<1>6. Listed(c) = IF found = {} THEN {} ELSE {call}
  BY DEF Listed
<1> HIDE DEF call, found, kind, keep
<1>7. ForEach(call) \in Seq(Calls) /\ Elements(ForEach(call)) = Listed(c)
  BY <1>4, <1>6, CallsForEach
<1>8. Turn(c, Elements(ForEach(call)))
  BY <1>1, <1>5, <1>7, TurnTaken
<1> QED BY <1>1, <1>7, <1>8

LEMMA CollectTurn ==
  ASSUME Typed, NEW c \in CRs, Collect(c)
  PROVE  First(c).do = "collect" /\ Turn(c, Collected(c))
<1> DEFINE keep == DeclaredBy("FacadeService")
           call == Call("decide", First(c).kind, First(c).names, keep)
<1>1. c \in busy /\ todo[c] # <<>> /\ First(c).do = "collect"
  BY DEF Collect, Calling, First
<1>2. First(c).kind \in AnyKind /\ First(c).names \in AnyNames
  BY <1>1, FirstIsProper DEF Proper, Calls
<1>3. keep \in AnyNames
  BY DeclaresNames
<1>4. Instead(c, <<call>>)
  BY DEF Collect, First, Following, Phases
<1>5. call \in Calls
  <2> HIDE DEF keep
  <2> QED BY <1>2, <1>3, CallIsCall
<1>6. Collected(c) = {call}
  BY DEF Collected
<1> HIDE DEF call
<1>7. <<call>> \in Seq(Calls) /\ Elements(<<call>>) = Collected(c)
  BY <1>5, <1>6, ElementsOfOne
<1>8. Turn(c, Elements(<<call>>))
  BY <1>1, <1>4, <1>7, TurnTaken
<1> QED BY <1>1, <1>7, <1>8

\* An error ends the reconcile, or its calls are replaced.
LEMMA DecideTurn ==
  ASSUME Typed, NEW c \in CRs, Decide(c)
  PROVE  /\ First(c).do = "decide" /\ First(c).kind \in RouteKinds
         /\ \/ Ends(c) /\ queue' = queue \cup {c}
            \/ /\ Turn(c, Decided(c))
               /\ UNCHANGED <<workVars, standing>>
<1>1. c \in busy /\ todo[c] # <<>> /\ First(c).do = "decide"
  BY DEF Decide, Calling, First
<1>2. /\ First(c).kind \in RouteKinds /\ First(c).kind \in AnyKind
      /\ First(c).names \in AnyNames /\ First(c).keep \in AnyNames
  BY <1>1, FirstIsProper DEF Proper, Calls, AnyKind
<1>3. Names(c) \in AnyNames /\ First(c).names \ Names(c) \in AnyNames
  BY <1>2, DeclaresNames DEF Names, AnyNames
<1>4. CASE Retry(c)
  BY <1>1, <1>2, <1>4, EndTaken DEF Retry
<1>5. CASE /\ Instead(c, Delete(First(c).kind, First(c).names \ Names(c))
                           \o Sweep(First(c).kind, Names(c)))
           /\ UNCHANGED <<workVars, standing>>
  <2> DEFINE deletes == Delete(First(c).kind, First(c).names \ Names(c))
             sweeps == Sweep(First(c).kind, Names(c))
  <2>1. /\ deletes \in Seq(Calls)
        /\ Elements(deletes) = Deletes(First(c).kind, First(c).names \ Names(c))
    BY <1>2, <1>3, DeleteCalls
  <2>2. /\ sweeps \in Seq(Calls)
        /\ Elements(sweeps) = Sweeps(First(c).kind, Names(c))
    BY <1>2, <1>3, SweepCalls
  <2>3. Instead(c, deletes \o sweeps)
    BY <1>5
  <2> HIDE DEF deletes, sweeps
  <2>4. deletes \o sweeps \in Seq(Calls) /\ Elements(deletes \o sweeps) = Decided(c)
    BY <2>1, <2>2, ElementsOfConcat DEF Decided
  <2>5. Turn(c, Decided(c))
    BY <1>1, <2>3, <2>4, TurnTaken
  <2> QED BY <1>1, <1>2, <1>5, <2>5
<1> QED BY <1>4, <1>5 DEF Decide, Orphaned, Names, First

LEMMA DeleteTurn ==
  ASSUME Typed, NEW c \in CRs, NEW n, DoDelete(c, n)
  PROVE  /\ First(c).do = "delete" /\ n \in First(c).names /\ n \in IngressNames
         /\ First(c).kind \in AnyKind
         /\ Turn(c, Deleted(c, n))
<1> DEFINE policies == DeletePolicies(First(c).kind, n)
           deletes == Delete(First(c).kind, First(c).names \ {n})
<1>1. /\ c \in busy /\ todo[c] # <<>> /\ First(c).do = "delete"
      /\ n \in First(c).names /\ Instead(c, policies \o deletes)
  BY DEF DoDelete, Calling, First
<1>2. /\ First(c).kind \in AnyKind /\ n \in IngressNames
      /\ First(c).names \ {n} \in AnyNames
  BY <1>1, FirstIsProper DEF Proper, AnyNames
<1>3. /\ policies \in Seq(Calls)
      /\ Elements(policies) = TryDeletes(First(c).kind, n)
  BY <1>2, PolicyDeletes
<1>4. /\ deletes \in Seq(Calls)
      /\ Elements(deletes) = Deletes(First(c).kind, First(c).names \ {n})
  BY <1>2, DeleteCalls
<1> HIDE DEF policies, deletes
<1>5. policies \o deletes \in Seq(Calls) /\ Elements(policies \o deletes) = Deleted(c, n)
  BY <1>3, <1>4, ElementsOfConcat DEF Deleted
<1> QED BY <1>1, <1>2, <1>5, TurnTaken

\* Whether the call is made or fails.
LEMMA ContinueTurn ==
  ASSUME Typed, NEW c \in CRs, c \in busy, todo[c] # <<>>, Continue(c)
  PROVE  Turn(c, {})
<1>1. <<>> \in Seq(Calls)
  OBVIOUS
<1> QED BY <1>1, ElementsOfNone, TurnTaken DEF Continue

LEMMA LockTurn ==
  ASSUME Typed, NEW c \in CRs, LockName(c)
  PROVE  First(c).do = "lock" /\ Turn(c, {}) /\ UNCHANGED <<res, standing, workVars>>
<1>1. c \in busy /\ todo[c] # <<>> /\ First(c).do = "lock" /\ Continue(c)
  BY DEF LockName, Calling, First
<1> QED BY <1>1, ContinueTurn DEF LockName, Continue

LEMMA SweepTurn ==
  ASSUME Typed, NEW c \in CRs, DoSweep(c)
  PROVE  /\ First(c).do = "sweep" /\ First(c).kind \in PolicyKinds
         /\ Turn(c, Swept(c))
<1> DEFINE names == {n \in IngressNames \ First(c).keep :
                       res[Of(First(c).kind, n)] # None}
<1>1. /\ c \in busy /\ todo[c] # <<>> /\ First(c).do = "sweep"
      /\ Instead(c, Delete(First(c).kind, names))
  BY DEF DoSweep, Calling, First
<1>2. First(c).kind \in PolicyKinds /\ First(c).kind \in AnyKind
  BY <1>1, FirstIsProper DEF Proper, AnyKind
<1>3. names \in AnyNames
  BY DEF AnyNames
<1>4. Swept(c) = Deletes(First(c).kind, names)
  BY DEF Swept
<1> HIDE DEF names
<1> QED BY <1>1, <1>2, <1>3, <1>4, DeleteCalls, TurnTaken

LEMMA SpecTurn ==
  ASSUME Typed, NEW c \in CRs, NEW n, NextSpec(c, n)
  PROVE  /\ First(c).do = "specs" /\ n \in First(c).names
         /\ n \in IngressNames \cup {Unnamed}
         /\ Turn(c, Specified(c, n))
<1> DEFINE applies == [i \in DOMAIN system |-> Apply(system[i], n)]
           more == ApplyIngressSpecs(First(c).names \ {n})
<1>1. /\ c \in busy /\ todo[c] # <<>> /\ First(c).do = "specs"
      /\ n \in First(c).names /\ Instead(c, applies \o more)
  BY DEF NextSpec, Calling, First
<1>2. First(c).names \ {n} \in AnyNames /\ n \in IngressNames \cup {Unnamed}
  BY <1>1, FirstIsProper DEF Calls, AnyNames
<1>3. /\ applies \in Seq(Calls)
      /\ Elements(applies) = {Apply(kind, n) : kind \in Deployed}
  BY <1>2, AppliesCalls DEF Typed
<1>4. more \in Seq(Calls) /\ Elements(more) = Specs(First(c).names \ {n})
  BY <1>2, SpecsCalls
<1> HIDE DEF applies, more
<1>5. applies \o more \in Seq(Calls) /\ Elements(applies \o more) = Specified(c, n)
  BY <1>3, <1>4, ElementsOfConcat DEF Specified
<1> QED BY <1>1, <1>2, <1>5, TurnTaken

Owner(c) == [cr |-> c, inc |-> obj[c].inc]
OwnersOf(o) == IF res[o] = None THEN {} ELSE res[o].owners

\* c's reconcile has found o as it is, and o is its own now.
Writes(c, o) ==
  /\ o \in Resources /\ ~Conflict(o)
  /\ \/ res' = res /\ res[o] # None /\ Owner(c) \in res[o].owners
     \/ \E v \in Versions :
          v.owners = OwnersOf(o) \cup {Owner(c)} /\ res' = [res EXCEPT ![o] = v]

LEMMA VersionIsThere ==
  ASSUME Typed, NEW o \in Resources, NEW owners \in SUBSET Owners
  PROVE  Version(o, owners) \in Versions /\ Version(o, owners).owners = owners
<1> DEFINE others == {res[o], seen[o]} \ {None}
<1>1. \E n \in 0..2 : \A v \in others : v.rev # n
  <2>1. \A v \in others : v.rev \in 0..2
    BY DEF Typed, TypeOK, Versions
  <2>2. CASE res[o] # None /\ seen[o] # None
    <3>1. \E n \in 0..2 : n # res[o].rev /\ n # seen[o].rev
      BY <2>1, <2>2
    <3> QED BY <3>1
  <2>3. CASE res[o] = None /\ seen[o] # None
    <3>1. \E n \in 0..2 : n # seen[o].rev
      BY <2>1, <2>3
    <3> QED BY <2>3, <3>1
  <2>4. CASE res[o] # None /\ seen[o] = None
    <3>1. \E n \in 0..2 : n # res[o].rev
      BY <2>1, <2>4
    <3> QED BY <2>4, <3>1
  <2>5. CASE res[o] = None /\ seen[o] = None
    BY <2>5
  <2> QED BY <2>2, <2>3, <2>4, <2>5
<1>2. (CHOOSE n \in 0..2 : \A v \in others : v.rev # n) \in 0..2
  <2> HIDE DEF others
  <2> QED BY <1>1
<1> QED BY <1>2 DEF Version, Versions

LEMMA ApplyTurn ==
  ASSUME Typed, NEW c \in CRs, DoApply(c)
  PROVE  /\ First(c).do = "apply"
         /\ \E n \in IngressNames \cup {Unnamed} :
              /\ First(c) = Apply(First(c).kind, n)
              /\ \/ Ends(c) /\ queue' = queue \cup {c} /\ res' = res
                 \/ /\ n \in IngressNames
                    /\ Turn(c, Policies(First(c).kind, n))
                    /\ UNCHANGED <<workVars, standing>>
                    /\ Writes(c, Of(First(c).kind, n))
<1> DEFINE kind == First(c).kind
<1>1. /\ c \in busy /\ todo[c] # <<>> /\ First(c).do = "apply"
      /\ First(c) = Head(todo[c])
  BY DEF DoApply, Calling, First
<1>2. /\ kind \in Deployed \cup PolicyKinds /\ kind \in AnyKind
      /\ obj[c] \in Objects
  BY <1>1, FirstIsProper DEF Proper, Deployed, AnyKind, Typed
<1>3. PICK n \in IngressNames \cup {Unnamed} :
        /\ First(c) = Apply(kind, n) /\ First(c).names = {n}
        /\ kind \in PolicyKinds => n \in IngressNames
  <2>1. \E n \in IngressNames \cup {Unnamed} :
          /\ First(c) = Apply(kind, n)
          /\ kind \in PolicyKinds => n \in IngressNames
    BY <1>1, FirstIsProper DEF Proper
  <2>2. \A n : Apply(kind, n).names = {n}
    BY DEF Apply, Call
  <2> HIDE DEF kind
  <2> QED BY <2>1, <2>2
<1> DEFINE o == Of(kind, n)
           found == IF Found(o) = None THEN {} ELSE Found(o).owners
<1>4. \/ Retry(c) /\ UNCHANGED res
      \/ /\ n # Unnamed /\ ~Conflict(o)
         /\ res' = IF Owner(c) \in found THEN res
                   ELSE [res EXCEPT ![o] = Version(o, found \cup {Owner(c)})]
         /\ Instead(c, ApplyPolicies(o.kind, n))
         /\ UNCHANGED <<workVars, standing>>
  BY <1>1, <1>3 DEF DoApply, Owner
<1>5. CASE Retry(c) /\ UNCHANGED res
  BY <1>1, <1>3, <1>5, EndTaken DEF Retry
<1>6. CASE /\ n # Unnamed /\ ~Conflict(o)
           /\ res' = IF Owner(c) \in found THEN res
                     ELSE [res EXCEPT ![o] = Version(o, found \cup {Owner(c)})]
           /\ Instead(c, ApplyPolicies(o.kind, n))
           /\ UNCHANGED <<workVars, standing>>
  <2>1. n \in IngressNames /\ o \in Resources /\ o.kind = kind
    BY <1>2, <1>3, <1>6 DEF Of, Resources, Cached, AnyKind
  <2>2. found = OwnersOf(o)
    BY <1>6 DEF Conflict, OwnersOf
  <2>3. OwnersOf(o) \cup {Owner(c)} \in SUBSET Owners
    BY <1>2, <2>1 DEF OwnersOf, Owner, Owners, Typed, TypeOK, Versions, Objects
  <2>4. Writes(c, o)
    <3>1. CASE Owner(c) \in found
      BY <1>6, <2>1, <2>2, <3>1 DEF Writes, OwnersOf
    <3>2. CASE Owner(c) \notin found
      BY <1>6, <2>1, <2>2, <2>3, <3>2, VersionIsThere DEF Writes
    <3> QED BY <3>1, <3>2
  <2>5. Turn(c, Policies(kind, n))
    BY <1>1, <1>2, <1>6, <2>1, PolicyApplies, TurnTaken
  <2> QED BY <1>1, <1>3, <1>6, <2>1, <2>4, <2>5
<1> QED BY <1>4, <1>5, <1>6

LEMMA FinishEnds ==
  ASSUME Typed, NEW c \in CRs, Finish(c)
  PROVE  Ends(c) /\ Pending(c) = {}
BY EndTaken, ElementsOfNone DEF Finish, Pending

LEMMA FailTurn ==
  ASSUME Typed, NEW c \in CRs, CallFails(c)
  PROVE  \/ Ends(c) /\ queue' = queue \cup {c}
         \/ /\ First(c).do = "tryDelete" /\ Turn(c, {})
            /\ UNCHANGED <<workVars, standing>>
<1>1. c \in busy /\ todo[c] # <<>>
  BY DEF CallFails
<1>2. CASE First(c).do = "tryDelete"
  BY <1>1, <1>2, ContinueTurn DEF CallFails, First, Continue
<1>3. CASE First(c).do # "tryDelete"
  BY <1>1, <1>3, EndTaken DEF CallFails, First, Retry
<1> QED BY <1>2, <1>3

Orphaning == {DeleteOrphaned(kind) : kind \in Deployed}
Started(c) == {LockCall} \cup Orphaning \cup Specs(Declares(crCache, c))

LEMMA BeginCalls ==
  ASSUME Typed, NEW c \in CRs, Begin(c)
  PROVE  /\ Pending(c)' = Started(c)
         /\ \A i \in DOMAIN todo'[c] : i > 1 => todo'[c][i] \in Started(c) \ {LockCall}
         /\ \A d \in CRs \ {c} : todo'[d] = todo[d] /\ Pending(d)' = Pending(d)
         /\ todo' \in [CRs -> Seq(Calls)]
<1> DEFINE lists == Orphans
           specs == ApplyIngressSpecs(Declares(crCache, c))
           rest == lists \o specs
           lock == <<LockCall>>
<1>1. lists \in Seq(Calls) /\ Elements(lists) = Orphaning
  BY OrphansCalls DEF Typed, Orphaning
<1>2. Declares(crCache, c) \in AnyNames
  BY DEF Typed, TypeOK, Declares, Objects, AnyNames
<1>3. specs \in Seq(Calls) /\ Elements(specs) = Specs(Declares(crCache, c))
  BY <1>2, SpecsCalls
<1>4. LockCall \in Calls
  BY CallIsCall DEF LockCall, AnyNames
<1>5. /\ lock \in Seq(Calls) /\ Elements(lock) = {LockCall} /\ Len(lock) = 1
  BY <1>4, ElementsOfOne
<1>6. LockCall \notin Orphaning \cup Specs(Declares(crCache, c))
  BY DEF LockCall, Orphaning, DeleteOrphaned, Phases, Specs, Call
<1>7. todo' = [todo EXCEPT ![c] = lock \o rest]
  <2>1. lock \o rest = lock \o lists \o specs
    <3> HIDE DEF lock, lists, specs
    <3> QED BY <1>1, <1>3, <1>5
  <2> QED BY <2>1 DEF Begin
<1> HIDE DEF lists, specs, lock
<1>8. rest \in Seq(Calls) /\ Elements(rest) = Started(c) \ {LockCall}
  BY <1>1, <1>3, <1>6, ElementsOfConcat DEF Started
<1> HIDE DEF rest
<1>9. lock \o rest \in Seq(Calls) /\ Elements(lock \o rest) = Started(c)
  BY <1>5, <1>8, ElementsOfConcat DEF Started
<1>10. /\ todo'[c] = lock \o rest /\ todo' \in [CRs -> Seq(Calls)]
       /\ \A d \in CRs \ {c} : todo'[d] = todo[d]
  BY <1>7, <1>9 DEF Typed
<1>11. ASSUME NEW i \in DOMAIN (lock \o rest), i > 1
       PROVE  (lock \o rest)[i] \in Started(c) \ {LockCall}
  <2>1. /\ Len(lock \o rest) = 1 + Len(rest) /\ Len(rest) \in Nat
        /\ \A k \in 1..1 + Len(rest) : k > 1 => (lock \o rest)[k] = rest[k - 1]
    BY <1>5, <1>8, ConcatProperties
  <2>2. DOMAIN (lock \o rest) = 1..1 + Len(rest) /\ DOMAIN rest = 1..Len(rest)
    BY <1>8, <1>9, <2>1
  <2>3. i - 1 \in DOMAIN rest /\ (lock \o rest)[i] = rest[i - 1]
    BY <1>11, <2>1, <2>2
  <2> QED BY <1>8, <2>3 DEF Elements
<1> QED BY <1>9, <1>10, <1>11 DEF Pending

-----------------------------------------------------------------------------
(* Type correctness                                                        *)

\* A step that leaves the types of everything else as they are.
TypesElsewhere ==
  /\ crs' \in [CRs -> Objects \cup {None}]
  /\ crCache' \in [CRs -> Objects \cup {None}]
  /\ born' \in [CRs -> Nat]
  /\ res' \in [Resources -> Versions \cup {None}]
  /\ seen' \in [Resources -> Versions \cup {None}]
  /\ system' = system

LEMMA NewCallsProper ==
  ASSUME Typed, NEW c \in CRs, NEW new, Turn(c, new), obj' = obj, busy' = busy,
         queue' = queue, TypesElsewhere,
         standing' \in [CRs -> SUBSET (CRs \X IngressNames)],
         \A call \in new : Proper(c, call)
  PROVE  Typed'
<1>1. \A d \in CRs : Pending(d)' \subseteq Pending(d) \/ d = c
  BY DEF Turn
<1>2. Pending(c)' \subseteq new \cup Pending(c)
  BY DEF Turn
<1>3. ASSUME NEW d \in CRs, NEW call \in Pending(d)' PROVE Proper(d, call)
  BY <1>1, <1>2 DEF Typed
<1>4. \A d \in CRs : \A call : Proper(d, call) => Proper(d, call)'
  BY DEF Proper, TypesElsewhere, Deployed
<1>5. \A d \in CRs : d \notin busy => todo'[d] = <<>> /\ obj'[d] = None
  BY DEF Typed, TypeOK, Turn
<1>6. TypeOK'
  BY <1>5 DEF Typed, TypeOK, Turn, TypesElsewhere
<1> QED BY <1>3, <1>4, <1>6 DEF Typed, Turn, TypesElsewhere

LEMMA EndTyped ==
  ASSUME Typed, NEW c \in CRs, Ends(c), queue' = queue \/ queue' = queue \cup {c},
         TypesElsewhere
  PROVE  Typed'
<1>1. /\ obj' \in [CRs -> Objects \cup {None}] /\ obj'[c] = None
      /\ \A d \in CRs \ {c} : obj'[d] = obj[d]
      /\ standing' \in [CRs -> SUBSET (CRs \X IngressNames)]
  BY DEF Ends, Typed
<1>2. ASSUME NEW d \in CRs, NEW call \in Pending(d)' PROVE d # c /\ Proper(d, call)
  BY DEF Ends, Typed
<1>3. \A d \in CRs \ {c} : \A call : Proper(d, call) => Proper(d, call)'
  BY <1>1 DEF Proper, TypesElsewhere, Deployed
<1>4. TypeOK'
  BY <1>1 DEF Typed, TypeOK, Ends, TypesElsewhere
<1> QED BY <1>1, <1>2, <1>3, <1>4 DEF Typed, Ends, TypesElsewhere

LEMMA SameTyped ==
  ASSUME Typed, UNCHANGED <<busy, obj, todo>>, queue' \subseteq CRs, TypesElsewhere,
         standing' \in [CRs -> SUBSET (CRs \X IngressNames)]
  PROVE  Typed'
<1>1. \A d \in CRs : \A call : Proper(d, call) => Proper(d, call)'
  BY DEF Proper, TypesElsewhere, Deployed
<1>2. \A d \in CRs : Pending(d)' = Pending(d)
  BY DEF Pending
<1>3. TypeOK'
  BY DEF Typed, TypeOK, TypesElsewhere
<1> QED BY <1>1, <1>2, <1>3 DEF Typed, TypesElsewhere

LEMMA InitTyped == Init => Typed
<1> SUFFICES ASSUME Init PROVE Typed
  OBVIOUS
<1>1. crs \in [CRs -> Objects \cup {None}] /\ born \in [CRs -> Nat]
  BY DeclarationsAssumption DEF Init, Objects
<1>2. \A c \in CRs : Pending(c) = {}
  BY ElementsOfNone DEF Init, Pending
<1>3. \A c \in CRs : <<>> \in Seq(Calls)
  OBVIOUS
<1>4. system \in Seq(RouteKinds)
  BY SystemsAssumption DEF Init
<1>5. /\ todo \in [CRs -> Seq(Calls)]
      /\ obj \in [CRs -> Objects \cup {None}]
      /\ standing \in [CRs -> SUBSET (CRs \X IngressNames)]
      /\ res \in [Resources -> Versions \cup {None}] /\ seen = res
  BY <1>3 DEF Init
<1>6. TypeOK
  BY <1>1, <1>5 DEF Init, TypeOK
<1> QED BY <1>1, <1>2, <1>4, <1>5, <1>6 DEF Typed

LEMMA GoneTyped ==
  ASSUME Typed, NEW o \in Resources, res' = Gone(o)
  PROVE  res' \in [Resources -> Versions \cup {None}]
BY DEF Gone, Typed, TypeOK

LEMMA WriteTyped ==
  ASSUME Typed, NEW c \in CRs, NEW o, Writes(c, o)
  PROVE  res' \in [Resources -> Versions \cup {None}]
BY DEF Writes, Typed, TypeOK

\* The steps of c's reconcile.
WorkStep(c) ==
  \/ Begin(c) \/ LockName(c) \/ List(c) \/ Collect(c) \/ Decide(c) \/ TryDelete(c)
  \/ DoSweep(c) \/ DoApply(c) \/ Finish(c) \/ CallFails(c)
  \/ \E n \in IngressNames \cup {Unnamed} : DoDelete(c, n) \/ NextSpec(c, n)

\* It changes no CR, no cache, and of the objects what it calls for.
Environs == <<crVars, crCache, seen, system, startVars, changes>>

LEMMA WorkLeavesEnvirons ==
  ASSUME NEW c \in CRs, WorkStep(c)
  PROVE  UNCHANGED Environs
BY DEF WorkStep, Environs, Begin, LockName, List, Collect, Decide, TryDelete, DoSweep,
       DoApply, Finish, CallFails, DoDelete, NextSpec, Calling

LEMMA WorkTyped ==
  ASSUME Typed, NEW c \in CRs, WorkStep(c)
  PROVE  Typed'
<1> USE DEF workVars
<1>1. UNCHANGED Environs
  BY WorkLeavesEnvirons
<1>2. res' \in [Resources -> Versions \cup {None}] => TypesElsewhere
  BY <1>1 DEF Typed, TypeOK, TypesElsewhere, Environs, crVars
<1>3. res' = res => TypesElsewhere
  BY <1>2 DEF Typed, TypeOK
<1>4. standing' = standing => standing' \in [CRs -> SUBSET (CRs \X IngressNames)]
  BY DEF Typed
<1>5. CASE Begin(c)
  <2>1. TypesElsewhere /\ standing' = standing
    BY <1>3, <1>5 DEF Begin
  <2>2. /\ busy' = busy \cup {c} /\ queue' = queue \ {c}
        /\ obj' \in [CRs -> Objects \cup {None}] /\ obj'[c] = crCache[c]
        /\ \A d \in CRs \ {c} : obj'[d] = obj[d]
    BY <1>5 DEF Begin, Typed, TypeOK
  <2>3. ASSUME NEW d \in CRs \ {c}, NEW call \in Pending(d)' PROVE Proper(d, call)'
    <3>1. Proper(d, call)
      BY <1>5, <2>3, BeginCalls DEF Typed
    <3> QED BY <2>1, <2>2, <3>1 DEF Proper, TypesElsewhere, Deployed
  <2>4. ASSUME NEW call \in Pending(c)' PROVE Proper(c, call)'
    <3>1. call \in Started(c)
      BY <1>5, <2>4, BeginCalls
    <3>2. CASE call \in Orphaning
      <4>1. call.do = "list" /\ call.kind \in Deployed
        BY <3>2 DEF Orphaning, DeleteOrphaned, Phases, Call
      <4>2. Deployed \subseteq RouteKinds
        BY DEF Typed, Deployed
      <4> QED BY <4>1, <4>2 DEF Proper
    <3>3. CASE call \in Specs(Declares(crCache, c))
      <4>1. Declares(crCache, c) # {} /\ call.do = "specs"
            /\ call.names = Declares(crCache, c)
        BY <3>3 DEF Specs, Call
      <4>2. crCache[c] \in Objects /\ call.names = crCache[c].declares
        BY <4>1 DEF Declares, Typed, TypeOK
      <4> QED BY <2>2, <4>1, <4>2 DEF Proper
    <3>4. CASE call = LockCall
      BY <3>4 DEF LockCall, Call, Proper
    <3> QED BY <3>1, <3>2, <3>3, <3>4 DEF Started
  <2>5. TypeOK'
    BY <1>5, <2>1, <2>2, BeginCalls DEF Typed, TypeOK, TypesElsewhere
  <2> QED BY <1>4, <1>5, <2>1, <2>2, <2>3, <2>4, <2>5, BeginCalls
          DEF Typed, TypesElsewhere
<1>6. CASE List(c)
  <2>1. Turn(c, Listed(c)) /\ First(c).do = "list"
    BY <1>6, ListTurn
  <2>2. First(c).kind \in RouteKinds
    BY <1>6, <2>1, FirstIsProper DEF List, Calling, Proper
  <2>3. \A call \in Listed(c) : Proper(c, call)
    BY <2>2 DEF Listed, Proper, Call, AnyKind
  <2>4. standing' \in [CRs -> SUBSET (CRs \X IngressNames)]
    BY <1>6 DEF List, Typed
  <2> QED BY <1>3, <1>6, <2>1, <2>3, <2>4, NewCallsProper DEF List
<1>7. CASE Collect(c)
  <2>1. Turn(c, Collected(c)) /\ First(c).do = "collect"
    BY <1>7, CollectTurn
  <2>2. First(c).kind \in RouteKinds /\ First(c).names \subseteq IngressNames
    BY <1>7, <2>1, FirstIsProper DEF Collect, Calling, Proper
  <2>3. \A call \in Collected(c) : Proper(c, call)
    BY <2>2 DEF Collected, Proper, Call, AnyKind
  <2> QED BY <1>3, <1>4, <1>7, <2>1, <2>3, NewCallsProper DEF Collect
<1>8. CASE Decide(c)
  <2>1. TypesElsewhere
    BY <1>3, <1>8 DEF Decide
  <2>2. CASE Ends(c) /\ queue' = queue \cup {c}
    BY <2>1, <2>2, EndTyped
  <2>3. CASE Turn(c, Decided(c)) /\ UNCHANGED <<workVars, standing>>
    <3>1. First(c).kind \in RouteKinds /\ First(c).names \subseteq IngressNames
      BY <1>8, DecideTurn, FirstIsProper DEF Decide, Calling, Proper
    <3>2. \A call \in Deletes(First(c).kind, First(c).names \ Names(c)) : Proper(c, call)
      BY <3>1 DEF Deletes, Proper, Call, AnyKind
    <3>3. \A call \in Sweeps(First(c).kind, Names(c)) : Proper(c, call)
      BY DEF Sweeps, Proper, Call
    <3>4. \A call \in Decided(c) : Proper(c, call)
      BY <3>2, <3>3 DEF Decided
    <3> QED BY <1>4, <2>1, <2>3, <3>4, NewCallsProper
  <2> QED BY <1>8, <2>2, <2>3, DecideTurn
<1>9. CASE TryDelete(c)
  <2>1. Turn(c, {}) /\ c \in busy /\ todo[c] # <<>> /\ First(c).do = "tryDelete"
    BY <1>9, ContinueTurn DEF TryDelete, Calling, First
  <2>2. First(c).kind \in AnyKind /\ First(c).names \subseteq IngressNames
    BY <2>1, FirstIsProper DEF Proper
  <2>3. \E n \in First(c).names : res' = Gone(Of(First(c).kind, n))
    BY <1>9 DEF TryDelete, First
  <2>4. \A n \in First(c).names : Of(First(c).kind, n) \in Resources
    BY <2>2 DEF Of, Resources, Cached, AnyKind
  <2>5. TypesElsewhere
    BY <1>2, <2>3, <2>4, GoneTyped
  <2>6. UNCHANGED <<workVars, standing>>
    BY <1>9 DEF TryDelete, Continue
  <2> QED BY <1>4, <2>1, <2>5, <2>6, NewCallsProper
<1>10. CASE DoSweep(c)
  <2>1. First(c).kind \in PolicyKinds /\ Turn(c, Swept(c))
    BY <1>10, SweepTurn
  <2>2. \A call \in Swept(c) : Proper(c, call)
    BY <2>1 DEF Swept, Deletes, Proper, Call, AnyKind
  <2> QED BY <1>3, <1>4, <1>10, <2>1, <2>2, NewCallsProper DEF DoSweep
<1>11. CASE DoApply(c)
  <2>1. PICK n \in IngressNames \cup {Unnamed} :
          /\ First(c) = Apply(First(c).kind, n)
          /\ \/ Ends(c) /\ queue' = queue \cup {c} /\ res' = res
             \/ /\ n \in IngressNames
                /\ Turn(c, Policies(First(c).kind, n))
                /\ UNCHANGED <<workVars, standing>>
                /\ Writes(c, Of(First(c).kind, n))
    BY <1>11, ApplyTurn
  <2>2. CASE Ends(c) /\ queue' = queue \cup {c} /\ res' = res
    BY <1>3, <2>2, EndTyped
  <2>3. CASE /\ n \in IngressNames
             /\ Turn(c, Policies(First(c).kind, n))
             /\ UNCHANGED <<workVars, standing>>
             /\ Writes(c, Of(First(c).kind, n))
    <3>1. First(c).do = "apply" /\ First(c).names = {n}
      BY <2>1 DEF Apply, Call
    <3>2. obj[c] \in Objects /\ n \in obj[c].declares
      BY <1>11, <3>1, FirstIsProper DEF DoApply, Calling, Proper
    <3>3. PoliciesOf[n] \subseteq PolicyKinds
      BY <2>3, PoliciesAssumption
    <3>4. \A policy \in PolicyKinds : Proper(c, Apply(policy, n))
      BY <2>3, <3>2 DEF Proper, Apply, Call
    <3>5. \A call \in Policies(First(c).kind, n) : Proper(c, call)
      BY <3>3, <3>4 DEF Policies
    <3> QED BY <1>2, <1>4, <2>3, <3>5, WriteTyped, NewCallsProper
  <2> QED BY <2>1, <2>2, <2>3
<1>12. CASE Finish(c)
  BY <1>3, <1>12, FinishEnds, EndTyped DEF Finish
<1>13. CASE CallFails(c)
  <2>1. TypesElsewhere
    BY <1>3, <1>13 DEF CallFails
  <2> QED BY <1>4, <1>13, <2>1, FailTurn, EndTyped, NewCallsProper
<1>14. ASSUME NEW n \in IngressNames \cup {Unnamed}, DoDelete(c, n) PROVE Typed'
  <2>1. /\ First(c).do = "delete" /\ n \in IngressNames /\ First(c).kind \in AnyKind
        /\ Turn(c, Deleted(c, n))
    BY <1>14, DeleteTurn
  <2>2. First(c).names \subseteq IngressNames
    BY <1>14, <2>1, FirstIsProper DEF DoDelete, Calling, Proper
  <2>3. \A call \in TryDeletes(First(c).kind, n) : Proper(c, call)
    BY <2>1 DEF TryDeletes, Proper, Call, AnyKind
  <2>4. \A call \in Deletes(First(c).kind, First(c).names \ {n}) : Proper(c, call)
    BY <2>1, <2>2 DEF Deletes, Proper, Call
  <2>5. res' = Gone(Of(First(c).kind, n)) /\ Of(First(c).kind, n) \in Resources
    BY <1>14, <2>1 DEF DoDelete, First, Of, Resources, Cached, AnyKind
  <2>6. TypesElsewhere /\ UNCHANGED <<workVars, standing>>
    BY <1>2, <1>14, <2>5, GoneTyped DEF DoDelete
  <2>7. \A call \in Deleted(c, n) : Proper(c, call)
    BY <2>3, <2>4 DEF Deleted
  <2> QED BY <1>4, <2>1, <2>6, <2>7, NewCallsProper
<1>15. ASSUME NEW n \in IngressNames \cup {Unnamed}, NextSpec(c, n) PROVE Typed'
  <2>1. /\ First(c).do = "specs" /\ n \in First(c).names
        /\ Turn(c, Specified(c, n))
    BY <1>15, SpecTurn
  <2>2. obj[c] \in Objects /\ First(c).names \subseteq obj[c].declares
    BY <1>15, <2>1, FirstIsProper DEF NextSpec, Calling, Proper
  <2>3. Deployed \cap PolicyKinds = {}
    BY DEF Typed, Deployed, RouteKinds, PolicyKinds
  <2>4. \A kind \in Deployed : Proper(c, Apply(kind, n))
    BY <2>1, <2>2, <2>3 DEF Proper, Apply, Call
  <2>5. \A call \in Specs(First(c).names \ {n}) : Proper(c, call)
    BY <2>2 DEF Specs, Proper, Call
  <2>6. TypesElsewhere /\ UNCHANGED <<workVars, standing>>
    BY <1>3, <1>15 DEF NextSpec
  <2>7. \A call \in Specified(c, n) : Proper(c, call)
    BY <2>4, <2>5 DEF Specified
  <2> QED BY <1>4, <2>1, <2>6, <2>7, NewCallsProper
<1>16. CASE LockName(c)
  BY <1>3, <1>4, <1>16, LockTurn, NewCallsProper
<1> QED BY <1>5, <1>6, <1>7, <1>8, <1>9, <1>10, <1>11, <1>12, <1>13, <1>14, <1>15,
        <1>16 DEF WorkStep

\* Users, the informers and the garbage collector.
LEMMA OthersTyped ==
  ASSUME Typed,
         \/ \E c \in CRs : WriteCR(c) \/ DeleteCR(c) \/ SyncCR(c)
         \/ \E o \in Resources : SyncResource(o) \/ CollectGarbage(o)
         \/ UNCHANGED vars
  PROVE  Typed'
<1> USE DEF crVars, workVars
<1>1. ASSUME NEW c \in CRs, WriteCR(c) PROVE Typed'
  <2>1. PICK d \in Declarations[c] :
          crs' = [crs EXCEPT ![c] =
                    [inc |-> IF @ = None THEN born[c] ELSE @.inc, declares |-> d]]
    BY <1>1 DEF WriteCR
  <2>2. d \in AnyNames
    BY DeclarationsAssumption
  <2>3. [inc |-> IF crs[c] = None THEN born[c] ELSE crs[c].inc, declares |-> d]
          \in Objects
    BY <2>2 DEF Typed, TypeOK, Objects
  <2>4. crs' \in [CRs -> Objects \cup {None}]
    BY <2>1, <2>3 DEF Typed, TypeOK
  <2>5. born' \in [CRs -> Nat]
    BY <1>1 DEF WriteCR, Typed
  <2>6. TypesElsewhere
    BY <1>1, <2>4, <2>5 DEF WriteCR, Change, Typed, TypeOK, TypesElsewhere
  <2> QED BY <1>1, <2>6, SameTyped DEF WriteCR, Change, Typed, TypeOK
<1>2. ASSUME NEW c \in CRs, DeleteCR(c) PROVE Typed'
  <2>1. TypesElsewhere
    BY <1>2 DEF DeleteCR, Change, Typed, TypeOK, TypesElsewhere
  <2> QED BY <1>2, <2>1, SameTyped DEF DeleteCR, Change, Typed, TypeOK
<1>3. ASSUME NEW c \in CRs, SyncCR(c) PROVE Typed'
  <2>1. TypesElsewhere
    BY <1>3 DEF SyncCR, Typed, TypeOK, TypesElsewhere
  <2>2. standing' \in [CRs -> SUBSET (CRs \X IngressNames)]
    BY <1>3 DEF SyncCR, Typed
  <2> QED BY <1>3, <2>1, <2>2, SameTyped DEF SyncCR, Typed, TypeOK
<1>4. ASSUME NEW o \in Resources, SyncResource(o) \/ CollectGarbage(o) PROVE Typed'
  <2>1. TypesElsewhere
    BY <1>4 DEF SyncResource, CollectGarbage, Typed, TypeOK, TypesElsewhere
  <2> QED BY <1>4, <2>1, SameTyped DEF SyncResource, CollectGarbage, Typed, TypeOK
<1>5. CASE UNCHANGED vars
  <2>1. TypesElsewhere
    BY <1>5 DEF vars, Typed, TypeOK, TypesElsewhere
  <2> QED BY <1>5, <2>1, SameTyped DEF vars, Typed, TypeOK
<1> QED BY <1>1, <1>2, <1>3, <1>4, <1>5

LEMMA RestartTyped ==
  ASSUME Typed, Restart
  PROVE  Typed'
<1>1. \A c \in CRs : Pending(c)' = {}
  BY ElementsOfNone DEF Restart, Pending
<1>2. <<>> \in Seq(Calls)
  OBVIOUS
<1>3. /\ todo' \in [CRs -> Seq(Calls)]
      /\ obj' \in [CRs -> Objects \cup {None}]
      /\ standing' \in [CRs -> SUBSET (CRs \X IngressNames)]
      /\ UNCHANGED <<born, system>>
  BY <1>2 DEF Restart, crVars
<1>4. TypeOK'
  BY <1>3 DEF Restart, Typed, TypeOK, crVars
<1> QED BY <1>1, <1>3, <1>4 DEF Typed

LEMMA Steps ==
  ASSUME [Next]_vars
  PROVE  \/ \E c \in CRs : WorkStep(c)
         \/ \E c \in CRs : WriteCR(c) \/ DeleteCR(c) \/ SyncCR(c)
         \/ \E o \in Resources : SyncResource(o) \/ CollectGarbage(o)
         \/ Restart
         \/ UNCHANGED vars
BY DEF Next, WorkStep, Rest

LEMMA TypedNext == Typed /\ [Next]_vars => Typed'
BY Steps, WorkTyped, OthersTyped, RestartTyped

\* Every variable keeps its type, and the reconciles that are over have nothing
\* left to do.
THEOREM IngressTypeCorrect == Spec => []TypeOK
<1>1. Typed => TypeOK
  BY DEF Typed
<1> QED BY <1>1, InitTyped, TypedNext, PTL DEF Spec

-----------------------------------------------------------------------------
(* What stands                                                             *)

LEMMA TurnStands ==
  ASSUME Typed, Standing, NEW c \in CRs, NEW new, Turn(c, new),
         UNCHANGED <<standing, crCache>>,
         \A call \in new : call.do # "list" /\ Spares(c, call)
  PROVE  Standing'
<1>1. \A d \in CRs : \A call : Spares(d, call)' <=> Spares(d, call)
  BY DEF Spares
<1>2. \A d \in CRs : \A call \in Pending(d)' : call \in Pending(d) \/ (d = c /\ call \in new)
  BY DEF Turn
<1>3. \A d \in CRs : ListsFirst(todo'[d])
  BY DEF Standing, Turn
<1>4. \A d \in CRs : \A p \in standing'[d] : p[2] \in Declares(crCache, p[1])'
  BY DEF Standing, Declares
<1> QED BY <1>1, <1>2, <1>3, <1>4 DEF Standing

LEMMA EndStands ==
  ASSUME Typed, Standing, NEW c \in CRs, Ends(c), crCache' = crCache
  PROVE  Standing'
<1>1. standing'[c] = {} /\ \A d \in CRs \ {c} : standing'[d] = standing[d]
  BY DEF Ends, Typed
<1>2. \A d \in CRs \ {c} : \A call : Spares(d, call)' <=> Spares(d, call)
  BY <1>1 DEF Spares
<1>3. \A d \in CRs \ {c} : todo'[d] = todo[d] /\ Pending(d)' = Pending(d)
  BY DEF Ends
<1>4. Pending(c)' = {} /\ ListsFirst(todo'[c])
  BY DEF Ends, ListsFirst
<1>5. \A d \in CRs : \A p \in standing'[d] : p[2] \in Declares(crCache, p[1])'
  BY <1>1 DEF Standing, Declares
<1> QED BY <1>1, <1>2, <1>3, <1>4, <1>5 DEF Standing

LEMMA BeginStands ==
  ASSUME Typed, Standing, NEW c \in CRs, Begin(c)
  PROVE  Standing'
<1>1. UNCHANGED <<standing, crCache>>
  BY DEF Begin
<1>2. \A d \in CRs : \A call : Spares(d, call)' <=> Spares(d, call)
  BY <1>1 DEF Spares
<1>3. /\ \A call \in Started(c) \ {LockCall} : call.do \in {"list", "specs"}
      /\ LockCall.do = "lock"
  BY DEF Started, Orphaning, DeleteOrphaned, Phases, Specs, LockCall, Call
<1>4. \A call \in Pending(c)' : Spares(c, call)'
  BY <1>3, BeginCalls DEF Spares
<1>5. ListsFirst(todo'[c])
  <2>1. todo'[c] \in Seq(Calls)
    BY BeginCalls
  <2>2. \A i, j \in DOMAIN todo'[c] : i < j => j > 1
    BY <2>1
  <2> QED BY <1>3, <2>2, BeginCalls DEF ListsFirst
<1>6. \A d \in CRs \ {c} : todo'[d] = todo[d] /\ Pending(d)' = Pending(d)
  BY BeginCalls
<1>7. \A d \in CRs : \A p \in standing'[d] : p[2] \in Declares(crCache, p[1])'
  BY <1>1 DEF Standing, Declares
<1> QED BY <1>2, <1>4, <1>5, <1>6, <1>7 DEF Standing

LEMMA ListStands ==
  ASSUME Typed, Standing, NEW c \in CRs, List(c)
  PROVE  Standing'
<1>1. /\ standing'[c] = {p \in CRs \X IngressNames : p[2] \in Declares(crCache, p[1])}
      /\ \A d \in CRs \ {c} : standing'[d] = standing[d]
      /\ crCache' = crCache
  BY DEF List, Calling, Typed
<1>2. Turn(c, Listed(c)) /\ First(c).do = "list" /\ todo[c] # <<>>
  BY ListTurn DEF List, Calling
<1>3. \A call \in Others(c) : call.do \in {"list", "specs"}
  <2>1. todo[c] \in Seq(Calls) /\ ListsFirst(todo[c])
    BY DEF Typed, Standing
  <2> QED BY <1>2, <2>1, AfterLists DEF Others, First
<1>4. \A call \in Listed(c) : call.do = "collect"
  BY DEF Listed, Call
<1>5. \A call \in Pending(c)' : Spares(c, call)'
  <2>1. \A call \in Pending(c)' : call.do \in {"collect", "list", "specs"}
    BY <1>2, <1>3, <1>4 DEF Turn
  <2> QED BY <2>1 DEF Spares
<1>6. \A d \in CRs \ {c} : \A call : Spares(d, call)' <=> Spares(d, call)
  BY <1>1 DEF Spares
<1>7. \A d \in CRs \ {c} : todo'[d] = todo[d] /\ Pending(d)' = Pending(d)
  BY <1>2 DEF Turn
<1>8. ListsFirst(todo'[c])
  BY <1>2, <1>4 DEF Turn, Standing
<1>9. \A d \in CRs : \A p \in standing'[d] : p[2] \in Declares(crCache, p[1])'
  BY <1>1 DEF Standing, Declares
<1> QED BY <1>5, <1>6, <1>7, <1>8, <1>9 DEF Standing

LEMMA WorkStands ==
  ASSUME Typed, Standing, NEW c \in CRs, WorkStep(c)
  PROVE  Standing'
<1> USE DEF workVars
<1>1. crCache' = crCache
  BY WorkLeavesEnvirons DEF Environs
<1>2. CASE Begin(c)
  BY <1>2, BeginStands
<1>3. CASE List(c)
  BY <1>3, ListStands
<1>4. CASE Collect(c)
  <2>1. Turn(c, Collected(c)) /\ standing' = standing
    BY <1>4, CollectTurn DEF Collect
  <2>2. ASSUME NEW p \in standing[c], p[1].kind = "FacadeService"
        PROVE  p[2] \in DeclaredBy("FacadeService")
    <3>1. p[1] \in CRs
      BY <2>2 DEF Typed
    <3> QED BY <2>2, <3>1 DEF Standing, DeclaredBy
  <2>3. \A call \in Collected(c) : call.do # "list" /\ Spares(c, call)
    BY <2>2 DEF Collected, Spares, Call
  <2> QED BY <1>1, <2>1, <2>3, TurnStands
<1>5. CASE Decide(c)
  <2>1. CASE Ends(c)
    BY <1>1, <2>1, EndStands
  <2>2. CASE Turn(c, Decided(c)) /\ UNCHANGED standing
    <3>1. First(c) \in Pending(c) /\ First(c).do = "decide"
      BY <1>5, FirstIsProper, DecideTurn DEF Decide, Calling
    <3>2. ASSUME NEW p \in standing[c] PROVE p[2] \in Names(c)
      <4>1. p[1] \in CRs /\ p[2] \in Declares(crCache, p[1])
        BY <3>2 DEF Typed, Standing
      <4>2. CASE p[1].kind = "FacadeService"
        BY <3>1, <3>2, <4>2 DEF Standing, Spares, Names
      <4>3. CASE p[1].kind = "Gateway"
        BY <4>1, <4>3 DEF DeclaredBy, Names
      <4> QED BY <4>1, <4>2, <4>3, KindsAssumption
    <3>3. \A call \in Deletes(First(c).kind, First(c).names \ Names(c)) :
            call.do # "list" /\ Spares(c, call)
      BY <3>2 DEF Deletes, Call, Spares
    <3>4. \A call \in Sweeps(First(c).kind, Names(c)) :
            call.do # "list" /\ Spares(c, call)
      BY DEF Sweeps, Call, Spares
    <3>5. \A call \in Decided(c) : call.do # "list" /\ Spares(c, call)
      BY <3>3, <3>4 DEF Decided
    <3> QED BY <1>1, <2>2, <3>5, TurnStands
  <2> QED BY <1>5, <2>1, <2>2, DecideTurn
<1>6. CASE TryDelete(c)
  <2>1. Turn(c, {}) /\ standing' = standing
    BY <1>6, ContinueTurn DEF TryDelete, Calling
  <2> QED BY <1>1, <2>1, TurnStands
<1>7. CASE DoSweep(c)
  <2>1. First(c).kind \in PolicyKinds /\ Turn(c, Swept(c)) /\ standing' = standing
    BY <1>7, SweepTurn DEF DoSweep
  <2>2. First(c).kind \notin RouteKinds
    BY <2>1 DEF RouteKinds, PolicyKinds
  <2>3. \A call \in Swept(c) : call.do # "list" /\ Spares(c, call)
    BY <2>2 DEF Swept, Deletes, Call, Spares
  <2> QED BY <1>1, <2>1, <2>3, TurnStands
<1>8. CASE DoApply(c)
  <2>1. \A n : \A call \in Policies(First(c).kind, n) :
          call.do # "list" /\ Spares(c, call)
    BY DEF Policies, Apply, Call, Spares
  <2> QED BY <1>1, <1>8, <2>1, ApplyTurn, EndStands, TurnStands
<1>9. CASE Finish(c)
  BY <1>1, <1>9, FinishEnds, EndStands
<1>10. CASE CallFails(c)
  BY <1>1, <1>10, FailTurn, EndStands, TurnStands
<1>11. ASSUME NEW n \in IngressNames \cup {Unnamed}, DoDelete(c, n) PROVE Standing'
  <2>1. /\ First(c).do = "delete" /\ Turn(c, Deleted(c, n)) /\ standing' = standing
        /\ First(c) \in Pending(c)
    BY <1>11, DeleteTurn, FirstIsProper DEF DoDelete, Calling
  <2>2. \A call \in TryDeletes(First(c).kind, n) : call.do # "list" /\ Spares(c, call)
    BY DEF TryDeletes, Call, Spares
  <2>3. Spares(c, First(c))
    BY <2>1 DEF Standing
  <2>4. \A call \in Deletes(First(c).kind, First(c).names \ {n}) :
          call.do # "list" /\ Spares(c, call)
    BY <2>1, <2>3 DEF Deletes, Call, Spares
  <2>5. \A call \in Deleted(c, n) : call.do # "list" /\ Spares(c, call)
    BY <2>2, <2>4 DEF Deleted
  <2> QED BY <1>1, <2>1, <2>5, TurnStands
<1>12. ASSUME NEW n \in IngressNames \cup {Unnamed}, NextSpec(c, n) PROVE Standing'
  <2>1. Turn(c, Specified(c, n)) /\ standing' = standing
    BY <1>12, SpecTurn DEF NextSpec
  <2>2. \A call \in Specified(c, n) : call.do # "list" /\ Spares(c, call)
    BY DEF Specified, Specs, Apply, Call, Spares
  <2> QED BY <1>1, <2>1, <2>2, TurnStands
<1>13. CASE LockName(c)
  BY <1>1, <1>13, LockTurn, TurnStands
<1> QED BY <1>2, <1>3, <1>4, <1>5, <1>6, <1>7, <1>8, <1>9, <1>10, <1>11, <1>12, <1>13
        DEF WorkStep

LEMMA SyncStands ==
  ASSUME Typed, Standing, NEW c \in CRs, SyncCR(c)
  PROVE  Standing'
<1>1. /\ \A d \in CRs : standing'[d] = {p \in standing[d] :
                                          p[1] = c => p[2] \in Declares(crs, c)}
      /\ crCache' = [crCache EXCEPT ![c] = crs[c]] /\ todo' = todo
  BY DEF SyncCR
<1>2. Declares(crCache, c)' = Declares(crs, c)
  BY <1>1 DEF Declares, Typed, TypeOK
<1>3. \A d \in CRs \ {c} : Declares(crCache, d)' = Declares(crCache, d)
  BY <1>1 DEF Declares, Typed, TypeOK
<1>4. ASSUME NEW d \in CRs, NEW p \in standing'[d] PROVE p[2] \in Declares(crCache, p[1])'
  <2>1. p \in standing[d] /\ p[1] \in CRs /\ (p[1] = c => p[2] \in Declares(crs, c))
    BY <1>1 DEF Typed
  <2> QED BY <1>2, <1>3, <2>1 DEF Standing
<1>5. \A d \in CRs : Pending(d)' = Pending(d)
  BY <1>1 DEF Pending
<1>6. \A d \in CRs : \A call : Spares(d, call) => Spares(d, call)'
  BY <1>1 DEF Spares
<1> QED BY <1>1, <1>4, <1>5, <1>6 DEF Standing

LEMMA SameStands ==
  ASSUME Standing, UNCHANGED <<todo, standing, crCache>>
  PROVE  Standing'
BY DEF Standing, Spares, Pending, Declares

LEMMA StandingNext == Typed /\ Standing /\ [Next]_vars => Standing'
<1> SUFFICES ASSUME Typed, Standing, [Next]_vars PROVE Standing'
  OBVIOUS
<1>1. ASSUME NEW c \in CRs, WriteCR(c) \/ DeleteCR(c) PROVE Standing'
  BY <1>1, SameStands DEF WriteCR, DeleteCR, Change
<1>2. ASSUME NEW o \in Resources, SyncResource(o) \/ CollectGarbage(o) PROVE Standing'
  BY <1>2, SameStands DEF SyncResource, CollectGarbage
<1>3. CASE Restart
  <2>1. \A c \in CRs : todo'[c] = <<>> /\ standing'[c] = {} /\ Pending(c)' = {}
    BY <1>3, ElementsOfNone DEF Restart, Pending
  <2> QED BY <2>1 DEF Standing, ListsFirst
<1>4. CASE UNCHANGED vars
  BY <1>4, SameStands DEF vars
<1> QED BY <1>1, <1>2, <1>3, <1>4, Steps, WorkStands, SyncStands

\* A reconcile deletes no ingress or route of a CR that has declared it ever
\* since that reconcile listed what there is, whatever happens between.
THEOREM StandingIsKept == Spec => StandingKept
<1> DEFINE Kept == \A c \in CRs : \A n \in IngressNames :
                     DoDelete(c, n) /\ Head(todo[c]).kind \in RouteKinds
                       => \A d \in CRs : <<d, n>> \notin standing[c]
<1>1. Init => Standing
  <2> SUFFICES ASSUME Init PROVE Standing
    OBVIOUS
  <2>1. \A c \in CRs : todo[c] = <<>> /\ standing[c] = {} /\ Pending(c) = {}
    BY ElementsOfNone DEF Init, Pending
  <2> QED BY <2>1 DEF Standing, ListsFirst
<1>2. Typed /\ Standing /\ [Next]_vars => [Kept]_vars
  <2> SUFFICES ASSUME Typed, Standing, NEW c \in CRs, NEW n \in IngressNames,
                      DoDelete(c, n), Head(todo[c]).kind \in RouteKinds,
                      NEW d \in CRs, <<d, n>> \in standing[c]
               PROVE  FALSE
    OBVIOUS
  <2>1. First(c) \in Pending(c) /\ First(c).do = "delete" /\ n \in First(c).names
    BY FirstIsProper, DeleteTurn DEF DoDelete, Calling
  <2>2. Spares(c, First(c)) /\ First(c).kind \in RouteKinds
    BY <2>1 DEF Standing, First
  <2>3. <<d, n>>[2] \notin First(c).names
    BY <2>1, <2>2 DEF Spares
  <2> QED BY <2>1, <2>3
<1>3. Spec => [][Kept]_vars
  <2> HIDE DEF Kept
  <2> QED BY <1>1, <1>2, InitTyped, TypedNext, StandingNext, PTL DEF Spec
<1> QED BY <1>3 DEF StandingKept

-----------------------------------------------------------------------------
(* Orphans                                                                 *)

LEMMA WorkKinds ==
  ASSUME Typed, NEW c \in CRs, WorkStep(c)
  PROVE  \/ Begin(c)
         \/ Ends(c) /\ queue' = queue \cup {c}
         \/ Finish(c) /\ Ends(c) /\ queue' = queue
         \/ \E new : Turn(c, new) /\ UNCHANGED workVars
<1>1. CASE List(c)
  BY <1>1, ListTurn DEF List
<1>2. CASE Collect(c)
  BY <1>2, CollectTurn DEF Collect
<1>3. CASE Decide(c)
  BY <1>3, DecideTurn
<1>4. CASE TryDelete(c)
  <2>1. UNCHANGED workVars /\ Turn(c, {})
    BY <1>4, ContinueTurn DEF TryDelete, Calling, Continue
  <2> QED BY <2>1
<1>5. CASE DoSweep(c)
  BY <1>5, SweepTurn DEF DoSweep
<1>6. CASE DoApply(c)
  BY <1>6, ApplyTurn
<1>7. CASE Finish(c)
  BY <1>7, FinishEnds DEF Finish
<1>8. CASE CallFails(c)
  BY <1>8, FailTurn
<1>9. ASSUME NEW n \in IngressNames \cup {Unnamed}, DoDelete(c, n)
      PROVE  \E new : Turn(c, new) /\ UNCHANGED workVars
  BY <1>9, DeleteTurn DEF DoDelete
<1>10. ASSUME NEW n \in IngressNames \cup {Unnamed}, NextSpec(c, n)
       PROVE  \E new : Turn(c, new) /\ UNCHANGED workVars
  BY <1>10, SpecTurn DEF NextSpec
<1>11. CASE LockName(c)
  BY <1>11, LockTurn
<1> QED BY <1>1, <1>2, <1>3, <1>4, <1>5, <1>6, <1>7, <1>8, <1>9, <1>10, <1>11
        DEF WorkStep

LEMMA FreshNext == Typed /\ Fresh /\ [Next]_vars => Fresh'
<1> SUFFICES ASSUME Typed, Fresh, [Next]_vars PROVE Fresh'
  OBVIOUS
<1>1. ASSUME NEW c \in CRs, WorkStep(c) PROVE Fresh'
  <2>1. crCache' = crCache
    BY <1>1, WorkLeavesEnvirons DEF Environs
  <2>2. CASE Begin(c)
    BY <2>2 DEF Begin, Fresh, Typed
  <2>3. CASE Ends(c) /\ (queue' = queue \/ queue' = queue \cup {c})
    <3>1. \A d \in busy' : d \in busy /\ d \in CRs \ {c} /\ obj'[d] = obj[d]
      BY <2>3 DEF Ends, Typed, TypeOK
    <3> QED BY <2>1, <2>3, <3>1 DEF Fresh
  <2>4. CASE UNCHANGED workVars
    BY <2>1, <2>4 DEF Fresh, workVars
  <2> QED BY <1>1, <2>2, <2>3, <2>4, WorkKinds
<1>2. ASSUME NEW c \in CRs, SyncCR(c) PROVE Fresh'
  BY <1>2 DEF SyncCR, Fresh, Typed, TypeOK
<1>3. ASSUME NEW c \in CRs, WriteCR(c) \/ DeleteCR(c) PROVE Fresh'
  BY <1>3 DEF WriteCR, DeleteCR, Change, workVars, Fresh
<1>4. ASSUME NEW o \in Resources, SyncResource(o) \/ CollectGarbage(o) PROVE Fresh'
  BY <1>4 DEF SyncResource, CollectGarbage, workVars, Fresh
<1>5. CASE Restart
  BY <1>5 DEF Restart, Fresh
<1>6. CASE UNCHANGED vars
  BY <1>6 DEF vars, workVars, Fresh
<1> QED BY <1>1, <1>2, <1>3, <1>4, <1>5, <1>6, Steps

\* What a reconcile creates, its object in hand declares.
Creates(c, o) ==
  /\ c \in busy /\ UNCHANGED workVars
  /\ First(c).do = "apply" /\ First(c) = Apply(o.kind, o.name)
  /\ o.kind \in Deployed \cup PolicyKinds
  /\ obj[c] \in Objects /\ o.name \in obj[c].declares
  /\ \E new : Turn(c, new)
  /\ Writes(c, o)

LEMMA ApplyCreates ==
  ASSUME Typed, NEW c \in CRs, DoApply(c)
  PROVE  res' = res \/ \E o \in Resources : Creates(c, o)
<1>1. PICK n \in IngressNames \cup {Unnamed} :
        /\ First(c) = Apply(First(c).kind, n)
        /\ \/ Ends(c) /\ queue' = queue \cup {c} /\ res' = res
           \/ /\ n \in IngressNames
              /\ Turn(c, Policies(First(c).kind, n))
              /\ UNCHANGED <<workVars, standing>>
              /\ Writes(c, Of(First(c).kind, n))
  BY ApplyTurn
<1>2. First(c).do = "apply" /\ First(c).names = {n}
  BY <1>1 DEF Apply, Call
<1>3. /\ obj[c] \in Objects /\ n \in obj[c].declares /\ c \in busy
      /\ First(c).kind \in Deployed \cup PolicyKinds
  BY <1>2, FirstIsProper DEF DoApply, Calling, Proper
<1>4. CASE /\ Turn(c, Policies(First(c).kind, n))
           /\ UNCHANGED <<workVars, standing>>
           /\ Writes(c, Of(First(c).kind, n))
  <2> DEFINE o == Of(First(c).kind, n)
  <2>1. o \in Resources /\ o.kind = First(c).kind /\ o.name = n
    BY <1>4 DEF Writes, Of
  <2> HIDE DEF o
  <2>2. Writes(c, o)
    BY <1>4 DEF o
  <2> QED BY <1>1, <1>2, <1>3, <1>4, <2>1, <2>2 DEF Creates
<1> QED BY <1>1, <1>4

LEMMA WorkCreates ==
  ASSUME Typed, NEW c \in CRs, WorkStep(c), NEW o \in Resources, Exists(o)'
  PROVE  Exists(o) \/ Creates(c, o)
<1>1. ASSUME NEW d, res' = Gone(d) PROVE Exists(o)
  BY <1>1 DEF Gone, Exists, Typed, TypeOK
<1>2. CASE TryDelete(c)
  BY <1>1, <1>2 DEF TryDelete
<1>3. ASSUME NEW n \in IngressNames \cup {Unnamed}, DoDelete(c, n) PROVE Exists(o)
  BY <1>1, <1>3 DEF DoDelete
<1>4. CASE DoApply(c)
  <2>1. CASE res' = res
    BY <2>1 DEF Exists
  <2>2. ASSUME NEW d \in Resources, Creates(c, d) PROVE Exists(o) \/ Creates(c, o)
    <3>1. CASE d = o
      BY <2>2, <3>1
    <3>2. CASE d # o
      BY <2>2, <3>2 DEF Creates, Writes, Exists, Typed, TypeOK
    <3> QED BY <3>1, <3>2
  <2> QED BY <1>4, <2>1, <2>2, ApplyCreates
<1>5. CASE res' = res
  BY <1>5 DEF Exists
<1> QED BY <1>2, <1>3, <1>4, <1>5 DEF WorkStep, Begin, LockName, List, Collect, Decide,
        DoSweep, NextSpec, Finish, CallFails

LEMMA OfSystemNext == Typed /\ OfSystem /\ [Next]_vars => OfSystem'
<1> SUFFICES ASSUME Typed, OfSystem, [Next]_vars, NEW o \in Cached, Exists(o)'
             PROVE  o.kind \in Deployed'
  BY DEF OfSystem
<1>1. o \in Resources /\ o.kind \in RouteKinds
  BY DEF Resources, Cached
<1>2. ASSUME NEW c \in CRs, WorkStep(c) PROVE o.kind \in Deployed'
  <2>1. Deployed' = Deployed
    BY <1>2, WorkLeavesEnvirons DEF Environs, Deployed
  <2>2. CASE Creates(c, o)
    BY <1>1, <2>1, <2>2 DEF Creates, RouteKinds, PolicyKinds
  <2> QED BY <1>1, <1>2, <2>1, <2>2, WorkCreates DEF OfSystem
<1>3. ASSUME NEW c \in CRs, WriteCR(c) \/ DeleteCR(c) \/ SyncCR(c)
      PROVE  o.kind \in Deployed'
  BY <1>3 DEF WriteCR, DeleteCR, SyncCR, Change, OfSystem, Exists, Deployed
<1>4. ASSUME NEW d \in Resources, SyncResource(d) \/ CollectGarbage(d)
      PROVE  o.kind \in Deployed'
  <2>1. Deployed' = Deployed
    BY <1>4 DEF SyncResource, CollectGarbage, Deployed
  <2>2. Exists(o)
    BY <1>1, <1>4 DEF SyncResource, CollectGarbage, Exists, Typed, TypeOK
  <2> QED BY <2>1, <2>2 DEF OfSystem
<1>5. CASE Restart
  BY <1>5 DEF Restart, OfSystem, Exists, Deployed
<1>6. CASE UNCHANGED vars
  BY <1>6 DEF vars, OfSystem, Exists, Deployed
<1> QED BY <1>2, <1>3, <1>4, <1>5, <1>6, Steps

LEMMA TurnInHand ==
  ASSUME Typed, NEW c \in CRs, NEW new, Turn(c, new), UNCHANGED <<queue, seen>>,
         NEW o \in Cached, InHand(o),
         First(c) = DeleteOrphaned(o.kind)
           => seen[o] # None /\ \E call \in new : Marks(call, o),
         seen[o] # None /\ Marks(First(c), o) => \E call \in new : Marks(call, o)
  PROVE  InHand(o)'
<1>1. CASE queue # {}
  BY <1>1 DEF InHand
<1>2. ASSUME NEW d \in CRs, DeleteOrphaned(o.kind) \in Pending(d)
      PROVE  \/ DeleteOrphaned(o.kind) \in Pending(d)'
             \/ seen[o] # None /\ \E call \in Pending(d)' : Marks(call, o)
  BY <1>2 DEF Turn
<1>3. ASSUME NEW d \in CRs, NEW call \in Pending(d), seen[o] # None, Marks(call, o)
      PROVE  \E other \in Pending(d)' : Marks(other, o)
  BY <1>3 DEF Turn
<1> HIDE DEF DeleteOrphaned, Marks, Pending
<1>4. ASSUME NEW d \in CRs, DeleteOrphaned(o.kind) \in Pending(d) PROVE InHand(o)'
  BY <1>2, <1>4 DEF InHand, DeleteOrphaned
<1>5. ASSUME seen[o] # None, NEW d \in CRs, NEW call \in Pending(d), Marks(call, o)
      PROVE  InHand(o)'
  BY <1>3, <1>5 DEF InHand
<1> QED BY <1>1, <1>4, <1>5 DEF InHand

\* Other calls delete no ingress and no route.
LEMMA OtherTurnInHand ==
  ASSUME Typed, NEW c \in CRs, NEW new, Turn(c, new), UNCHANGED <<queue, seen>>,
         NEW o \in Cached, InHand(o),
         First(c).do \notin {"list", "collect", "decide", "delete"}
  PROVE  InHand(o)'
<1>1. First(c) # DeleteOrphaned(o.kind) /\ ~Marks(First(c), o)
  BY DEF DeleteOrphaned, Phases, Call, Marks
<1> QED BY <1>1, TurnInHand

LEMMA WorkInHand ==
  ASSUME Typed, OfSystem, NEW c \in CRs, WorkStep(c),
         NEW o \in Cached, Exists(o), Exists(o)', o.name \notin Known, InHand(o),
         List(c) /\ First(c).kind = o.kind => seen[o] # None
  PROVE  InHand(o)'
<1>1. seen' = seen
  BY WorkLeavesEnvirons DEF Environs
<1>2. \A kind : DeleteOrphaned(kind).do = "list" /\ DeleteOrphaned(kind).kind = kind
  BY DEF DeleteOrphaned, Phases, Call
<1>3. o = Of(o.kind, o.name) /\ o.name \in IngressNames
  BY DEF Cached, Of
<1>4. DeclaredBy("FacadeService") \cup DeclaredBy("Gateway") \subseteq Known
  BY DEF DeclaredBy, Known
<1>5. CASE Begin(c)
  <2>1. DeleteOrphaned(o.kind) \in Started(c)
    BY DEF OfSystem, Started, Orphaning
  <2> QED BY <1>5, <2>1, BeginCalls DEF InHand, DeleteOrphaned
<1>6. CASE List(c)
  <2>1. /\ Turn(c, Listed(c)) /\ First(c).do = "list" /\ UNCHANGED queue
    BY <1>6, ListTurn DEF List, workVars
  <2>2. ASSUME First(c).kind = o.kind
        PROVE  seen[o] # None /\ \E call \in Listed(c) : Marks(call, o)
    <3> DEFINE found == {n \in IngressNames : seen[Of(First(c).kind, n)] # None}
               call == Call("collect", First(c).kind, found, First(c).keep)
    <3>1. seen[o] # None /\ o.name \in found
      BY <1>3, <1>6, <2>2
    <3>2. call \in Listed(c)
      BY <3>1 DEF Listed
    <3>3. Marks(call, o)
      BY <2>2, <3>1 DEF Marks, Call
    <3> QED BY <3>1, <3>2, <3>3
  <2>3. ~Marks(First(c), o)
    BY <2>1 DEF Marks
  <2> QED BY <1>1, <1>2, <2>1, <2>2, <2>3, TurnInHand
<1>7. CASE Collect(c)
  <2>1. /\ Turn(c, Collected(c)) /\ First(c).do = "collect" /\ UNCHANGED queue
    BY <1>7, CollectTurn DEF Collect, workVars
  <2>2. Marks(First(c), o) => \E call \in Collected(c) : Marks(call, o)
    BY <1>4 DEF Marks, Collected, Call
  <2> QED BY <1>1, <1>2, <2>1, <2>2, TurnInHand
<1>8. CASE Decide(c)
  <2>1. CASE queue' = queue \cup {c}
    BY <2>1 DEF InHand
  <2>2. CASE Turn(c, Decided(c)) /\ UNCHANGED <<workVars, standing>>
    <3>1. First(c).do = "decide"
      BY <1>8, DecideTurn
    <3>2. ASSUME Marks(First(c), o) PROVE \E call \in Decided(c) : Marks(call, o)
      <4> DEFINE names == First(c).names \ Names(c)
                 call == Call("delete", First(c).kind, names, {})
      <4>1. o.name \in names
        BY <1>4, <3>1, <3>2 DEF Marks, Names
      <4>2. call \in Decided(c)
        BY <4>1 DEF Decided, Deletes
      <4>3. Marks(call, o)
        BY <3>2, <4>1 DEF Marks, Call
      <4> QED BY <4>2, <4>3
    <3> QED BY <1>1, <1>2, <2>2, <3>1, <3>2, TurnInHand DEF workVars
  <2> QED BY <1>8, <2>1, <2>2, DecideTurn
<1>9. ASSUME NEW n \in IngressNames \cup {Unnamed}, DoDelete(c, n) PROVE InHand(o)'
  <2>1. /\ First(c).do = "delete" /\ Turn(c, Deleted(c, n)) /\ UNCHANGED queue
        /\ res' = Gone(Of(First(c).kind, n))
    BY <1>9, DeleteTurn DEF DoDelete, First, workVars
  <2>2. ASSUME seen[o] # None, Marks(First(c), o)
        PROVE  \E call \in Deleted(c, n) : Marks(call, o)
    <3>1. o.name # n
      <4>1. Of(First(c).kind, n) = o => res'[o] = None
        BY <2>1, <2>2 DEF Gone, Found, Typed, TypeOK, Resources
      <4> QED BY <1>3, <2>2, <4>1 DEF Marks, Exists
    <3> DEFINE call == Call("delete", First(c).kind, First(c).names \ {n}, {})
    <3>2. call \in Deleted(c, n)
      BY <2>2, <3>1 DEF Deleted, Deletes, Marks
    <3>3. Marks(call, o)
      BY <2>2, <3>1 DEF Marks, Call
    <3> QED BY <3>2, <3>3
  <2> QED BY <1>1, <1>2, <2>1, <2>2, TurnInHand
<1>10. CASE TryDelete(c)
  <2>1. Turn(c, {}) /\ First(c).do = "tryDelete" /\ UNCHANGED queue
    BY <1>10, ContinueTurn DEF TryDelete, Calling, Continue, First, workVars
  <2> QED BY <1>1, <2>1, OtherTurnInHand
<1>11. CASE DoSweep(c)
  BY <1>1, <1>11, SweepTurn, OtherTurnInHand DEF DoSweep, workVars
<1>12. ASSUME NEW n \in IngressNames \cup {Unnamed}, NextSpec(c, n) PROVE InHand(o)'
  BY <1>1, <1>12, SpecTurn, OtherTurnInHand DEF NextSpec, workVars
<1>13. CASE DoApply(c)
  <2>1. First(c).do = "apply"
    BY <1>13, ApplyTurn
  <2>2. \/ queue' = queue \cup {c}
        \/ queue' = queue /\ \E new : Turn(c, new)
    BY <1>13, ApplyTurn DEF workVars
  <2> QED BY <1>1, <2>1, <2>2, OtherTurnInHand DEF InHand
<1>14. CASE Finish(c)
  <2>1. /\ queue' = queue /\ Pending(c) = {}
        /\ \A d \in CRs \ {c} : Pending(d)' = Pending(d)
    BY <1>14, FinishEnds DEF Finish, Ends
  <2> QED BY <1>1, <2>1 DEF InHand, DeleteOrphaned, Marks
<1>15. CASE CallFails(c)
  <2>1. \/ queue' = queue \cup {c}
        \/ First(c).do = "tryDelete" /\ Turn(c, {}) /\ queue' = queue
    BY <1>15, FailTurn DEF workVars
  <2> QED BY <1>1, <2>1, OtherTurnInHand DEF InHand
<1>16. CASE LockName(c)
  BY <1>1, <1>16, LockTurn, OtherTurnInHand DEF workVars
<1> QED BY <1>5, <1>6, <1>7, <1>8, <1>9, <1>10, <1>11, <1>12, <1>13, <1>14, <1>15,
        <1>16 DEF WorkStep

-----------------------------------------------------------------------------
(* Recovery                                                                *)

LEMMA KnownIsDeclared ==
  ASSUME Recovering
  PROVE  /\ Known = Declared
         /\ DeclaredBy("FacadeService") \cup DeclaredBy("Gateway") = Declared
         /\ \A c \in CRs : Declares(crCache, c) = Declares(crs, c)
<1>1. \A c \in CRs : Declares(crCache, c) = Declares(crs, c)
  BY DEF Recovering, Declares
<1> QED BY <1>1, KindsAssumption DEF Known, Declared, DeclaredBy

\* While users change nothing, the names of the CRs are constant.
SameCRs == UNCHANGED <<crs, crCache, system>>

LEMMA SameNames ==
  ASSUME SameCRs
  PROVE  /\ Declared' = Declared /\ Known' = Known /\ Deployed' = Deployed
         /\ \A kind : DeclaredBy(kind)' = DeclaredBy(kind)
         /\ \A c \in CRs : Declares(crs, c)' = Declares(crs, c)
         /\ \A call : Current(call)' <=> Current(call)
BY DEF SameCRs, Declared, Known, Deployed, DeclaredBy, Declares, Current

LEMMA TurnCurrent ==
  ASSUME Typed, Recovering, SameCRs, NEW c \in CRs, NEW new, Turn(c, new),
         \A call \in new : Current(call)
  PROVE  \A d \in CRs : \A call \in Pending(d)' : Current(call)'
<1>1. \A d \in CRs : \A call \in Pending(d)' : call \in Pending(d) \/ call \in new
  BY DEF Turn
<1> QED BY <1>1, SameNames DEF Recovering

LEMMA WorkCurrent ==
  ASSUME Typed, Recovering, NEW c \in CRs, WorkStep(c), SameCRs
  PROVE  \A d \in CRs : \A call \in Pending(d)' : Current(call)'
<1> DEFINE Goal == \A d \in CRs : \A call \in Pending(d)' : Current(call)'
<1>1. /\ Known = Declared
      /\ DeclaredBy("FacadeService") \cup DeclaredBy("Gateway") = Declared
  BY KnownIsDeclared
<1>2. CASE Begin(c)
  <2>1. \A call \in Started(c) : Current(call)
    BY DEF Started, Orphaning, LockCall, DeleteOrphaned, Phases, Specs, Call, Current
  <2>2. \A d \in CRs : \A call \in Pending(d)' : call \in Pending(d) \/ call \in Started(c)
    BY <1>2, BeginCalls
  <2> QED BY <2>1, <2>2, SameNames DEF Recovering
<1>3. CASE Ends(c)
  <2>1. \A d \in CRs : \A call \in Pending(d)' : call \in Pending(d)
    BY <1>3 DEF Ends
  <2> QED BY <2>1, SameNames DEF Recovering
<1>4. ASSUME c \in busy, todo[c] # <<>> PROVE Current(First(c))
  BY <1>4, FirstIsProper DEF Recovering
<1>5. CASE List(c)
  <2>1. \A call \in Listed(c) : Current(call)
    BY DEF Listed, Call, Current
  <2> QED BY <1>5, <2>1, ListTurn, TurnCurrent
<1>6. CASE Collect(c)
  <2>1. \A call \in Collected(c) : Current(call)
    BY DEF Collected, Call, Current
  <2> QED BY <1>6, <2>1, CollectTurn, TurnCurrent
<1>7. CASE Decide(c) /\ Turn(c, Decided(c))
  <2>1. First(c).do = "decide" /\ Current(First(c))
    BY <1>4, <1>7, DecideTurn DEF Decide, Calling
  <2>2. Names(c) = Declared
    BY <1>1, <2>1 DEF Names, Current
  <2>3. \A call \in Deletes(First(c).kind, First(c).names \ Names(c)) : Current(call)
    BY <2>2 DEF Deletes, Call, Current
  <2>4. \A call \in Sweeps(First(c).kind, Names(c)) : Current(call)
    BY <2>2 DEF Sweeps, Call, Current
  <2>5. \A call \in Decided(c) : Current(call)
    BY <2>3, <2>4 DEF Decided
  <2> QED BY <1>7, <2>5, TurnCurrent
<1>8. ASSUME Turn(c, {}) PROVE Goal
  BY <1>8, TurnCurrent
<1>9. CASE TryDelete(c)
  BY <1>8, <1>9, ContinueTurn DEF TryDelete, Calling
<1>10. CASE DoSweep(c)
  <2>1. First(c).do = "sweep" /\ Turn(c, Swept(c)) /\ Current(First(c))
    BY <1>4, <1>10, SweepTurn DEF DoSweep, Calling
  <2>2. \A call \in Swept(c) : Current(call)
    BY <2>1 DEF Swept, Deletes, Call, Current
  <2> QED BY <2>1, <2>2, TurnCurrent
<1>11. CASE DoApply(c)
  <2>1. \A n : \A call \in Policies(First(c).kind, n) : Current(call)
    BY DEF Policies, Apply, Call, Current
  <2> QED BY <1>3, <1>11, <2>1, ApplyTurn, TurnCurrent
<1>12. CASE CallFails(c)
  BY <1>3, <1>8, <1>12, FailTurn
<1>13. ASSUME NEW n \in IngressNames \cup {Unnamed}, DoDelete(c, n) PROVE Goal
  <2>1. /\ First(c).do = "delete" /\ n \in First(c).names /\ Turn(c, Deleted(c, n))
        /\ Current(First(c))
    BY <1>4, <1>13, DeleteTurn DEF DoDelete, Calling
  <2>2. First(c).names \cap Declared = {}
    BY <2>1 DEF Current
  <2>3. \A call \in TryDeletes(First(c).kind, n) : Current(call)
    BY <2>1, <2>2 DEF TryDeletes, Call, Current
  <2>4. \A call \in Deletes(First(c).kind, First(c).names \ {n}) : Current(call)
    BY <2>2 DEF Deletes, Call, Current
  <2>5. \A call \in Deleted(c, n) : Current(call)
    BY <2>3, <2>4 DEF Deleted
  <2> QED BY <2>1, <2>5, TurnCurrent
<1>14. ASSUME NEW n \in IngressNames \cup {Unnamed}, NextSpec(c, n) PROVE Goal
  <2>1. \A call \in Specified(c, n) : Current(call)
    BY DEF Specified, Specs, Apply, Call, Current
  <2> QED BY <1>14, <2>1, SpecTurn, TurnCurrent
<1>15. CASE LockName(c)
  BY <1>8, <1>15, LockTurn
<1> QED BY <1>2, <1>3, <1>5, <1>6, <1>7, <1>9, <1>10, <1>11, <1>12, <1>13, <1>14,
        <1>15, DecideTurn, FinishEnds DEF WorkStep

\* A reconcile deletes nothing that is declared.
LEMMA WorkKeepsDeclared ==
  ASSUME Typed, Recovering, NEW c \in CRs, WorkStep(c),
         NEW o \in Resources, Exists(o), o.name \in Declared
  PROVE  Exists(o)'
<1>1. ASSUME todo[c] # <<>>, First(c).do \in {"delete", "tryDelete"},
             NEW n \in First(c).names, res' = Gone(Of(First(c).kind, n))
      PROVE  Exists(o)'
  <2>1. n \notin Declared
    BY <1>1, FirstIsProper DEF Recovering, Current
  <2>2. Of(First(c).kind, n) # o
    BY <2>1 DEF Of
  <2> QED BY <1>1, <2>2 DEF Gone, Exists, Typed, TypeOK
<1>2. ASSUME NEW n \in IngressNames \cup {Unnamed}, DoDelete(c, n) PROVE Exists(o)'
  BY <1>1, <1>2 DEF DoDelete, Calling, First
<1>3. CASE TryDelete(c)
  BY <1>1, <1>3 DEF TryDelete, Calling, First
<1>4. CASE DoApply(c)
  <2>1. CASE res' = res
    BY <2>1 DEF Exists
  <2>2. ASSUME NEW d \in Resources, Writes(c, d) PROVE Exists(o)'
    BY <2>2, NoneAssumption DEF Writes, Exists, Typed, TypeOK
  <2> QED BY <1>4, <2>1, <2>2, ApplyCreates DEF Creates
<1>5. CASE res' = res
  BY <1>5 DEF Exists
<1> QED BY <1>2, <1>3, <1>4, <1>5 DEF WorkStep, Begin, LockName, List, Collect, Decide,
        DoSweep, NextSpec, Finish, CallFails

LEMMA WorkNotCollectable ==
  ASSUME Typed, Recovering, NEW c \in CRs, WorkStep(c), SameCRs,
         NEW o \in Resources
  PROVE  ~Collectable(o)'
<1>1. ~Collectable(o)
  BY DEF Recovering
<1>2. \A uid : Alive(uid)' <=> Alive(uid)
  BY DEF Alive, SameCRs
<1>3. ASSUME NEW d, res' = Gone(d) PROVE ~Collectable(o)'
  BY <1>1, <1>2, <1>3 DEF Gone, Collectable, Typed, TypeOK
<1>4. CASE res' = res
  BY <1>1, <1>2, <1>4 DEF Collectable
<1>5. ASSUME NEW d \in Resources, Creates(c, d) PROVE ~Collectable(o)'
  <2>1. obj[c] = crs[c] /\ obj[c] \in Objects
    BY <1>5 DEF Creates, Recovering
  <2>2. Alive(Owner(c))
    BY <2>1, NoneAssumption DEF Alive, Owner
  <2>3. PICK v \in Versions :
          /\ Owner(c) \in v.owners
          /\ res' = res \/ res' = [res EXCEPT ![d] = v]
    BY <1>5 DEF Creates, Writes, Typed, TypeOK
  <2>4. CASE res' # res /\ d = o
    BY <1>2, <2>2, <2>3, <2>4 DEF Collectable, Typed, TypeOK
  <2>5. CASE res' # res /\ d # o
    BY <1>1, <1>2, <2>3, <2>5 DEF Collectable, Typed, TypeOK
  <2> QED BY <1>4, <2>4, <2>5
<1>6. CASE DoApply(c)
  BY <1>4, <1>5, <1>6, ApplyCreates
<1>7. CASE TryDelete(c)
  BY <1>3, <1>7 DEF TryDelete
<1>8. ASSUME NEW n \in IngressNames \cup {Unnamed}, DoDelete(c, n)
      PROVE  ~Collectable(o)'
  BY <1>3, <1>8 DEF DoDelete
<1> QED BY <1>4, <1>6, <1>7, <1>8 DEF WorkStep, Begin, LockName, List, Collect, Decide,
        DoSweep, NextSpec, Finish, CallFails

\* What is to be applied still is, or is there with its policies to follow.
Carried(d, n) ==
  \A kind \in AnyKind :
    Apply(kind, n) \in Pending(d) =>
      \/ Apply(kind, n) \in Pending(d)'
      \/ /\ n \in IngressNames /\ Exists(Of(kind, n))'
         /\ Policies(kind, n) \subseteq Pending(d)'

LEMMA ServedKept ==
  ASSUME Typed, Recovering, SameCRs, NEW c \in CRs, WorkStep(c), NEW d \in CRs,
         NEW kind \in Deployed, NEW n \in Declared, Served(d, kind, n), Carried(d, n)
  PROVE  Served(d, kind, n)'
<1>1. kind \in RouteKinds /\ kind \in AnyKind
  BY DEF Typed, Deployed, AnyKind
<1>2. \A k : Of(k, n).name = n
  BY DEF Of
<1>3. \A k \in AnyKind : n \in IngressNames => Of(k, n) \in Resources
  BY DEF AnyKind, Of, Resources, Cached
<1>4. \A k \in AnyKind : n \in IngressNames /\ Exists(Of(k, n)) => Exists(Of(k, n))'
  BY <1>2, <1>3, WorkKeepsDeclared
<1>5. n \in IngressNames => PoliciesOf[n] \subseteq AnyKind
  BY PoliciesAssumption DEF AnyKind
<1>6. \A p \in PoliciesOf[n] : kind = "HTTPRoute" => Apply(p, n) \in Policies(kind, n)
  BY DEF Policies
<1> HIDE DEF Apply, Exists, Pending, Of
<1>7. CASE Apply(kind, n) \in Pending(d)
  <2>1. CASE Apply(kind, n) \in Pending(d)'
    BY <2>1 DEF Served, Apply
  <2>2. CASE /\ n \in IngressNames /\ Exists(Of(kind, n))'
             /\ Policies(kind, n) \subseteq Pending(d)'
    <3>1. \A p \in PoliciesOf[n] : kind = "HTTPRoute" => Apply(p, n) \in Pending(d)'
      BY <1>6, <2>2
    <3> QED BY <2>2, <3>1 DEF Served, Apply, Of
  <2> QED BY <1>1, <1>7, <2>1, <2>2 DEF Carried
<1>8. CASE /\ n \in IngressNames /\ Exists(Of(kind, n))
           /\ kind = "HTTPRoute" =>
                \A policy \in PoliciesOf[n] :
                  Apply(policy, n) \in Pending(d) \/ Exists(Of(policy, n))
  <2>1. Exists(Of(kind, n))'
    BY <1>1, <1>4, <1>8
  <2>2. ASSUME kind = "HTTPRoute", NEW p \in PoliciesOf[n]
        PROVE  Apply(p, n) \in Pending(d)' \/ Exists(Of(p, n))'
    <3>1. p \in AnyKind
      BY <1>5, <1>8
    <3>2. CASE Exists(Of(p, n))
      BY <1>4, <1>8, <3>1, <3>2
    <3>3. CASE Apply(p, n) \in Pending(d)
      BY <3>1, <3>3 DEF Carried
    <3> QED BY <1>8, <2>2, <3>2, <3>3
  <2> QED BY <1>8, <2>1, <2>2 DEF Served, Apply, Of
<1> QED BY <1>7, <1>8 DEF Served

\* The CR's own reconcile.
LEMMA TurnServes ==
  ASSUME Typed, Recovering, SameCRs, NEW c \in CRs, WorkStep(c), CRServed(c),
         NEW new, Turn(c, new), UNCHANGED queue,
         \A n \in Declared : Carried(c, n),
         First(c).do = "specs" =>
           \E n : new = Specified(c, n)
  PROVE  CRServed(c)'
<1> SUFFICES ASSUME NEW n \in Declares(crs, c), c \notin queue
             PROVE  Specifies(c, n)' \/ \A kind \in Deployed : Served(c, kind, n)'
  BY SameNames DEF CRServed
<1>1. n \in Declared
  BY DEF Declared
<1>2. CASE \A kind \in Deployed : Served(c, kind, n)
  BY <1>1, <1>2, ServedKept
<1>3. CASE Specifies(c, n)
  <2>1. PICK call \in Pending(c) : call.do = "specs" /\ n \in call.names
    BY <1>3 DEF Specifies
  <2>2. CASE call \in Others(c)
    <3>1. call \in Pending(c)'
      BY <2>2 DEF Turn
    <3> QED BY <2>1, <3>1 DEF Specifies
  <2>3. CASE call = First(c)
    <3>1. PICK m : new = Specified(c, m)
      BY <2>1, <2>3
    <3>2. CASE m = n
      <4>1. \A kind \in Deployed : Apply(kind, n) \in Pending(c)'
        BY <3>1, <3>2 DEF Turn, Specified
      <4> QED BY <4>1 DEF Served, Apply
    <3>3. CASE m # n
      <4> DEFINE next == Call("specs", None, First(c).names \ {m}, {})
      <4>1. n \in First(c).names \ {m}
        BY <2>1, <2>3, <3>3
      <4>2. next \in Pending(c)'
        BY <3>1, <4>1 DEF Turn, Specified, Specs
      <4>3. next.do = "specs" /\ n \in next.names
        BY <4>1 DEF Call
      <4> QED BY <4>2, <4>3 DEF Specifies
    <3> QED BY <3>2, <3>3
  <2> QED BY <2>1, <2>2, <2>3 DEF Turn
<1> QED BY <1>2, <1>3 DEF CRServed

LEMMA TurnCarries ==
  ASSUME NEW c \in CRs, NEW new, Turn(c, new), NEW n, First(c).do # "apply"
  PROVE  Carried(c, n)
<1>1. \A kind : Apply(kind, n) \in Pending(c) => Apply(kind, n) \in Pending(c)'
  BY DEF Turn, Apply, Call
<1> QED BY <1>1 DEF Carried

LEMMA ApplyCarries ==
  ASSUME Typed, NEW c \in CRs, DoApply(c), NEW n,
         NEW m \in IngressNames, First(c) = Apply(First(c).kind, m),
         Turn(c, Policies(First(c).kind, m)), Writes(c, Of(First(c).kind, m))
  PROVE  Carried(c, n)
<1>1. ASSUME NEW kind \in AnyKind, Apply(kind, n) = First(c)
      PROVE  /\ n \in IngressNames /\ Exists(Of(kind, n))'
             /\ Policies(kind, n) \subseteq Pending(c)'
  <2>1. \A k, l : Apply(k, l).kind = k /\ Apply(k, l).names = {l}
    BY DEF Apply, Call
  <2>2. kind = First(c).kind /\ n = m
    <3>1. Apply(kind, n).kind = kind /\ Apply(kind, n).names = {n}
      BY <2>1
    <3>2. Apply(First(c).kind, m).names = {m}
      BY <2>1
    <3> HIDE DEF Apply, First
    <3> QED BY <1>1, <3>1, <3>2
  <2>3. Exists(Of(kind, n))'
    BY <2>2, NoneAssumption DEF Writes, Exists, Typed, TypeOK
  <2> QED BY <2>2, <2>3 DEF Turn
<1>2. \A kind : Apply(kind, n) \in Others(c) => Apply(kind, n) \in Pending(c)'
  BY DEF Turn
<1>3. \A kind : Apply(kind, n) \in Pending(c)
                  => Apply(kind, n) = First(c) \/ Apply(kind, n) \in Others(c)
  BY DEF Turn
<1> HIDE DEF Apply, Pending, Exists, Of, First, Others
<1>4. ASSUME NEW kind \in AnyKind, Apply(kind, n) \in Pending(c)
      PROVE  \/ Apply(kind, n) \in Pending(c)'
             \/ /\ n \in IngressNames /\ Exists(Of(kind, n))'
                /\ Policies(kind, n) \subseteq Pending(c)'
  <2>1. CASE Apply(kind, n) = First(c)
    BY <1>1, <2>1
  <2>2. CASE Apply(kind, n) \in Others(c)
    BY <1>2, <2>2
  <2> QED BY <1>3, <1>4, <2>1, <2>2
<1> QED BY <1>4 DEF Carried, Apply, Of

\* Every CR's ingresses stay there or to be applied.
LEMMA WorkServes ==
  ASSUME Typed, Recovering, SameCRs, NEW c \in CRs, WorkStep(c), NEW d \in CRs
  PROVE  CRServed(d)'
<1>1. CRServed(d) /\ CRServed(c)
  BY DEF Recovering
<1>2. ASSUME d # c, Pending(d)' = Pending(d), d \in queue => d \in queue'
      PROVE  CRServed(d)'
  <2>1. \A n : Carried(d, n)
    BY <1>2 DEF Carried
  <2>2. ASSUME NEW n \in Declares(crs, d)
        PROVE  \/ d \in queue' \/ Specifies(d, n)'
               \/ \A kind \in Deployed : Served(d, kind, n)'
    <3>1. n \in Declared
      BY DEF Declared
    <3>2. CASE \A kind \in Deployed : Served(d, kind, n)
      BY <2>1, <3>1, <3>2, ServedKept
    <3>3. CASE Specifies(d, n)
      BY <1>2, <3>3 DEF Specifies
    <3> QED BY <1>1, <1>2, <3>2, <3>3 DEF CRServed
  <2> QED BY <2>2, SameNames DEF CRServed
<1>3. ASSUME NEW new, Turn(c, new), queue' = queue, \A n \in Declared : Carried(c, n),
             First(c).do = "specs" => \E n : new = Specified(c, n)
      PROVE  CRServed(d)'
  <2>1. CASE d = c
    BY <1>1, <1>3, <2>1, TurnServes
  <2>2. CASE d # c
    BY <1>2, <1>3, <2>2 DEF Turn
  <2> QED BY <2>1, <2>2
<1>4. ASSUME NEW new, Turn(c, new), queue' = queue,
             First(c).do \notin {"specs", "apply"}
      PROVE  CRServed(d)'
  BY <1>3, <1>4, TurnCarries
<1>5. CASE Ends(c) /\ queue' = queue \cup {c}
  <2>1. CASE d = c
    BY <1>5, <2>1 DEF CRServed
  <2>2. CASE d # c
    BY <1>2, <1>5, <2>2 DEF Ends
  <2> QED BY <2>1, <2>2
<1>6. CASE Begin(c)
  <2>1. CASE d = c
    <3>1. ASSUME NEW n \in Declares(crs, c) PROVE Specifies(c, n)'
      <4> DEFINE call == Call("specs", None, Declares(crCache, c), {})
      <4>1. n \in Declares(crCache, c)
        BY KnownIsDeclared
      <4>2. call \in Started(c)
        BY <4>1 DEF Started, Specs
      <4>3. call \in Pending(c)' /\ call.do = "specs" /\ n \in call.names
        BY <1>6, <4>1, <4>2, BeginCalls DEF Call
      <4> QED BY <4>3 DEF Specifies
    <3> QED BY <2>1, <3>1, SameNames DEF CRServed
  <2>2. CASE d # c
    BY <1>2, <1>6, <2>2, BeginCalls DEF Begin
  <2> QED BY <2>1, <2>2
<1>7. CASE List(c)
  BY <1>4, <1>7, ListTurn DEF List, workVars
<1>8. CASE Collect(c)
  BY <1>4, <1>8, CollectTurn DEF Collect, workVars
<1>9. CASE Decide(c)
  BY <1>4, <1>5, <1>9, DecideTurn DEF workVars
<1>10. CASE TryDelete(c)
  <2>1. Turn(c, {}) /\ First(c).do = "tryDelete" /\ queue' = queue
    BY <1>10, ContinueTurn DEF TryDelete, Calling, Continue, First, workVars
  <2> QED BY <1>4, <2>1
<1>11. CASE DoSweep(c)
  BY <1>4, <1>11, SweepTurn DEF DoSweep, workVars
<1>12. CASE DoApply(c)
  <2>1. First(c).do = "apply"
    BY <1>12, ApplyTurn
  <2>2. ASSUME NEW m \in IngressNames, First(c) = Apply(First(c).kind, m),
               Turn(c, Policies(First(c).kind, m)), UNCHANGED <<workVars, standing>>,
               Writes(c, Of(First(c).kind, m))
        PROVE  CRServed(d)'
    BY <1>3, <1>12, <2>1, <2>2, ApplyCarries DEF workVars
  <2> QED BY <1>5, <1>12, <2>2, ApplyTurn
<1>13. CASE Finish(c)
  <2>1. /\ queue' = queue /\ Pending(c) = {}
        /\ \A e \in CRs \ {c} : Pending(e)' = Pending(e)
    BY <1>13, FinishEnds DEF Finish, Ends
  <2>2. CASE d = c
    <3>1. \A n : Carried(c, n) /\ ~Specifies(c, n)
      BY <2>1 DEF Carried, Specifies
    <3>2. \A n \in Declares(crs, c) : n \in Declared
      BY DEF Declared
    <3>3. ASSUME NEW n \in Declares(crs, c)
          PROVE  c \in queue' \/ \A kind \in Deployed : Served(c, kind, n)'
      BY <1>1, <2>1, <3>1, <3>2, ServedKept DEF CRServed
    <3> QED BY <2>2, <3>3, SameNames DEF CRServed
  <2>3. CASE d # c
    BY <1>2, <2>1, <2>3
  <2> QED BY <2>2, <2>3
<1>14. CASE CallFails(c)
  BY <1>4, <1>5, <1>14, FailTurn DEF workVars
<1>15. ASSUME NEW n \in IngressNames \cup {Unnamed}, DoDelete(c, n) PROVE CRServed(d)'
  BY <1>4, <1>15, DeleteTurn DEF DoDelete, workVars
<1>16. ASSUME NEW n \in IngressNames \cup {Unnamed}, NextSpec(c, n) PROVE CRServed(d)'
  <2>1. First(c).do = "specs" /\ Turn(c, Specified(c, n)) /\ queue' = queue
    BY <1>16, SpecTurn DEF NextSpec, workVars
  <2> QED BY <1>3, <2>1, TurnCarries
<1>17. CASE LockName(c)
  BY <1>4, <1>17, LockTurn DEF workVars
<1> QED BY <1>6, <1>7, <1>8, <1>9, <1>10, <1>11, <1>12, <1>13, <1>14, <1>15, <1>16,
        <1>17 DEF WorkStep

LEMMA WorkRecovers ==
  ASSUME Typed, Recovering, NEW c \in CRs, WorkStep(c)
  PROVE  Recovering'
<1>1. SameCRs /\ UNCHANGED seen
  BY WorkLeavesEnvirons DEF Environs, crVars, SameCRs
<1>2. ASSUME NEW o \in Cached, Exists(o)' PROVE o.name \in Declared' \/ seen'[o] # None
  <2>1. o \in Resources
    BY DEF Resources
  <2>2. CASE Exists(o)
    BY <1>1, <2>2, SameNames DEF Recovering
  <2>3. CASE Creates(c, o)
    <3>1. obj[c] = crs[c] /\ obj[c] # None /\ o.name \in crs[c].declares
      BY <2>3, NoneAssumption DEF Creates, Recovering
    <3> QED BY <1>1, <3>1, SameNames DEF Declared, Declares
  <2> QED BY <1>2, <2>1, <2>2, <2>3, WorkCreates
<1>3. ASSUME NEW d \in busy' PROVE obj'[d] = crs'[d]
  <2>1. CASE Begin(c)
    BY <1>1, <2>1 DEF Begin, Recovering, SameCRs, Typed, TypeOK
  <2>2. CASE Ends(c)
    BY <1>1, <1>3, <2>2 DEF Ends, Recovering, SameCRs, Typed, TypeOK
  <2>3. CASE UNCHANGED workVars
    BY <1>1, <1>3, <2>3 DEF workVars, Recovering, SameCRs, Typed, TypeOK
  <2> QED BY <2>1, <2>2, <2>3, WorkKinds
<1>4. crCache' = crs'
  BY <1>1 DEF SameCRs, Recovering
<1>5. \A o \in Resources : ~Collectable(o)'
  BY <1>1, WorkNotCollectable
<1>6. \A d \in CRs : \A call \in Pending(d)' : Current(call)'
  BY <1>1, WorkCurrent
<1>7. \A d \in CRs : CRServed(d)'
  BY <1>1, WorkServes
<1> QED BY <1>2, <1>3, <1>4, <1>5, <1>6, <1>7 DEF Recovering

\* Nothing but the informers' caches of the objects changes.
LEMMA StillRecovering ==
  ASSUME Typed, Recovering, UNCHANGED <<crVars, crCache, res, system, workVars, todo>>,
         \A o \in Cached : res[o] # None /\ seen[o] # None => seen'[o] # None
  PROVE  Recovering'
<1>1. SameCRs
  BY DEF SameCRs, crVars
<1>2. \A d \in CRs : Pending(d)' = Pending(d)
  BY DEF Pending
<1>3. \A o : Exists(o)' <=> Exists(o)
  BY DEF Exists
<1>4. \A o : Collectable(o)' <=> Collectable(o)
  BY DEF Collectable, Alive, crVars
<1>5. \A d \in CRs : \A n :
        /\ Specifies(d, n)' <=> Specifies(d, n)
        /\ \A kind : Served(d, kind, n)' <=> Served(d, kind, n)
  BY <1>2, <1>3 DEF Specifies, Served, Apply, Of
<1>6. \A d \in CRs : CRServed(d)'
  BY <1>1, <1>5, SameNames DEF CRServed, Recovering, workVars
<1>7. \A d \in CRs : \A call \in Pending(d)' : Current(call)'
  BY <1>1, <1>2, SameNames DEF Recovering
<1>8. \A o \in Cached : Exists(o)' => o.name \in Declared' \/ seen'[o] # None
  BY <1>1, <1>3, SameNames DEF Recovering, Exists
<1> QED BY <1>4, <1>6, <1>7, <1>8 DEF Recovering, workVars, crVars

LEMMA RestartRecovers ==
  ASSUME Typed, Restart, recovered'
  PROVE  Recovering'
<1>1. crCache' = crs' /\ crs' = crs /\ res' = res /\ busy' = {}
  BY DEF Restart, crVars
<1>2. \A d \in CRs : Pending(d)' = {}
  BY ElementsOfNone DEF Restart, Pending
<1>3. \A o \in Resources : ~Collectable(o)'
  BY <1>1 DEF Restart, Collectable, Alive
<1>4. \A d \in CRs : CRServed(d)'
  BY <1>1 DEF Restart, CRServed, Declares
<1>5. \A o \in Cached : Exists(o)' => seen'[o] # None
  BY <1>1 DEF Restart, Exists, Resources
<1> QED BY <1>1, <1>2, <1>3, <1>4, <1>5 DEF Recovering

LEMMA InitRecovering == Init => Recovering
<1> SUFFICES ASSUME Init PROVE Recovering
  OBVIOUS
<1>1. \A d \in CRs : Pending(d) = {}
  BY ElementsOfNone DEF Init, Pending
<1>2. \A o \in Resources : ~Collectable(o) /\ ~Exists(o)
  BY DEF Init, Collectable, Exists
<1>3. \A d \in CRs : CRServed(d)
  BY DEF Init, CRServed, Declares
<1> QED BY <1>1, <1>2, <1>3 DEF Init, Recovering, Resources

LEMMA RecoveringNext ==
  Typed /\ (recovered => Recovering) /\ [Next]_vars => (recovered => Recovering)'
<1> SUFFICES ASSUME Typed, recovered => Recovering, [Next]_vars, recovered'
             PROVE  Recovering'
  OBVIOUS
<1>1. ASSUME NEW c \in CRs, WorkStep(c) PROVE Recovering'
  BY <1>1, WorkLeavesEnvirons, WorkRecovers DEF Environs, startVars
<1>2. ASSUME NEW c \in CRs, WriteCR(c) \/ DeleteCR(c) PROVE FALSE
  BY <1>2 DEF WriteCR, DeleteCR, Change
<1>3. ASSUME NEW c \in CRs, SyncCR(c) PROVE FALSE
  BY <1>3 DEF SyncCR, Recovering, startVars
<1>4. ASSUME NEW o \in Resources, CollectGarbage(o) PROVE FALSE
  BY <1>4 DEF CollectGarbage, Recovering, startVars
<1>5. ASSUME NEW o \in Resources, SyncResource(o) PROVE Recovering'
  <2>1. \A d \in Cached : res[d] # None /\ seen[d] # None => seen'[d] # None
    BY <1>5 DEF SyncResource, Typed, TypeOK, Resources
  <2> QED BY <1>5, <2>1, StillRecovering DEF SyncResource, startVars
<1>6. CASE Restart
  BY <1>6, RestartRecovers
<1>7. CASE UNCHANGED vars
  BY <1>7, StillRecovering DEF vars, startVars
<1> QED BY <1>1, <1>2, <1>3, <1>4, <1>5, <1>6, <1>7, Steps

-----------------------------------------------------------------------------
(* What is to be deleted                                                   *)

LEMMA FaultsCounted ==
  ASSUME faults \in Nat, [Next]_vars
  PROVE  /\ faults' \in Nat
         /\ faults' = 0 => faults = 0 /\ ~Restart
         /\ lagged => lagged'
<1>1. faults' = faults \/ faults' = faults + 1
  BY DEF Next, vars, Rest, Begin, LockName, List, Collect, Decide, TryDelete, DoSweep,
         DoApply, Finish, CallFails, DoDelete, NextSpec, Calling, WriteCR, DeleteCR, Change,
         SyncCR, SyncResource, CollectGarbage, Restart
<1>2. Restart => faults' = faults + 1
  BY DEF Restart
<1>3. lagged => lagged'
  BY DEF Next, vars, Rest, Begin, LockName, List, Collect, Decide, TryDelete, DoSweep,
         DoApply, Finish, CallFails, DoDelete, NextSpec, WriteCR, DeleteCR, Change,
         SyncCR, SyncResource, CollectGarbage, Restart
<1> QED BY <1>1, <1>2, <1>3

LEMMA InHandKept ==
  ASSUME UNCHANGED <<workVars, todo>>, NEW o, InHand(o), seen[o] # None => seen'[o] # None
  PROVE  InHand(o)'
<1>1. \A c \in CRs : Pending(c)' = Pending(c)
  BY DEF Pending
<1> QED BY <1>1 DEF InHand, workVars, DeleteOrphaned, Marks

LEMMA WorkFollowed ==
  ASSUME Typed, recovered => Recovering, Fresh, OfSystem, Followed,
         NEW c \in CRs, WorkStep(c), Watched, Watched',
         NEW o \in Cached, Exists(o)'
  PROVE  o.name \in Known' \/ InHand(o)'
<1>1. Known' = Known
  BY WorkLeavesEnvirons DEF Environs, Known, Declares
<1>2. o \in Resources
  BY DEF Resources
<1>3. CASE Exists(o) /\ o.name \notin Known
  <2>1. InHand(o)
    BY <1>3 DEF Followed
  <2>2. ASSUME List(c), First(c).kind = o.kind PROVE seen[o] # None
    <3>1. CASE recovered
      BY <1>3, <3>1, KnownIsDeclared DEF Recovering
    <3>2. CASE ~recovered
      <4>1. ~lagged'
        BY <3>2, WorkLeavesEnvirons DEF Watched, Environs, startVars
      <4>2. o = Of(First(c).kind, o.name) /\ o.name \in IngressNames
        BY <2>2 DEF Cached, Of
      <4>3. ~Conflict(o)
        BY <2>2, <4>1, <4>2 DEF List, First
      <4> QED BY <1>3, <4>3 DEF Conflict, Found, Exists
    <3> QED BY <3>1, <3>2
  <2> QED BY <1>3, <2>1, <2>2, WorkInHand
<1>4. CASE Creates(c, o)
  <2>1. CASE obj[c] = crCache[c]
    <3>1. o.name \in Declares(crCache, c)
      BY <1>4, <2>1, NoneAssumption DEF Creates, Declares
    <3> QED BY <1>1, <3>1 DEF Known
  <2>2. CASE obj[c] # crCache[c]
    BY <1>4, <2>2 DEF Creates, Fresh, workVars, InHand
  <2> QED BY <2>1, <2>2
<1> QED BY <1>1, <1>2, <1>3, <1>4, WorkCreates

LEMMA RestartFollowed ==
  ASSUME Typed, Restart, recovered', NEW o \in Cached, Exists(o)'
  PROVE  InHand(o)'
<1>1. o \in Resources /\ res[o] # None
  BY DEF Restart, Exists, Resources
<1>2. PICK uid \in res[o].owners : Alive(uid)
  BY <1>1 DEF Restart, Collectable
<1>3. uid.cr \in CRs
  BY <1>1, <1>2 DEF Typed, TypeOK, Versions, Owners
<1>4. uid.cr \in queue'
  BY <1>2, <1>3 DEF Restart, Alive
<1> QED BY <1>4 DEF InHand

LEMMA FollowedNext ==
  /\ Typed /\ (recovered => Recovering) /\ Fresh /\ OfSystem /\ faults \in Nat
  /\ Followed /\ [Next]_vars
  => Followed'
<1> SUFFICES ASSUME Typed, recovered => Recovering, Fresh, OfSystem, faults \in Nat,
                    Followed, [Next]_vars, Watched', NEW o \in Cached, Exists(o)'
             PROVE  o.name \in Known' \/ InHand(o)'
  BY DEF Followed
<1>1. o \in Resources
  BY DEF Resources
<1>2. ASSUME recovered' => recovered PROVE Watched
  BY <1>2, FaultsCounted DEF Watched
<1>3. ASSUME UNCHANGED <<workVars, todo, crCache>>, recovered' => recovered, Exists(o),
             seen[o] # None => seen'[o] # None
      PROVE  o.name \in Known' \/ InHand(o)'
  <2>1. Known' = Known
    BY <1>3 DEF Known, Declares
  <2> QED BY <1>2, <1>3, <2>1, InHandKept DEF Followed
<1>4. ASSUME NEW c \in CRs, WorkStep(c) PROVE o.name \in Known' \/ InHand(o)'
  <2>1. Watched
    BY <1>2, <1>4, WorkLeavesEnvirons DEF Environs, startVars
  <2> QED BY <1>4, <2>1, WorkFollowed
<1>5. ASSUME NEW c \in CRs, WriteCR(c) \/ DeleteCR(c)
      PROVE  o.name \in Known' \/ InHand(o)'
  <2>1. Exists(o)
    BY <1>5 DEF WriteCR, DeleteCR, Change, Exists
  <2> QED BY <1>3, <1>5, <2>1 DEF WriteCR, DeleteCR, Change
<1>6. ASSUME NEW c \in CRs, SyncCR(c) PROVE InHand(o)'
  BY <1>6 DEF SyncCR, InHand
<1>7. ASSUME NEW d \in Resources, SyncResource(d)
      PROVE  o.name \in Known' \/ InHand(o)'
  <2>1. Exists(o) /\ (seen[o] # None => seen'[o] # None)
    BY <1>1, <1>7 DEF SyncResource, Exists, Typed, TypeOK
  <2> QED BY <1>3, <1>7, <2>1 DEF SyncResource, startVars
<1>8. ASSUME NEW d \in Resources, CollectGarbage(d)
      PROVE  o.name \in Known' \/ InHand(o)'
  <2>1. Exists(o)
    BY <1>1, <1>8 DEF CollectGarbage, Exists, Typed, TypeOK
  <2> QED BY <1>3, <1>8, <2>1 DEF CollectGarbage, startVars
<1>9. CASE Restart
  <2>1. recovered'
    BY <1>9, FaultsCounted DEF Watched
  <2> QED BY <1>9, <2>1, RestartFollowed
<1>10. CASE UNCHANGED vars
  <2>1. Exists(o)
    BY <1>10 DEF vars, Exists
  <2> QED BY <1>3, <1>10, <2>1 DEF vars, startVars
<1> QED BY <1>4, <1>5, <1>6, <1>7, <1>8, <1>9, <1>10, Steps

-----------------------------------------------------------------------------
(* Policies                                                                *)

LEMMA RouteIsCached ==
  ASSUME NEW n \in IngressNames
  PROVE  Route(n) \in Cached /\ Route(n).kind = "HTTPRoute" /\ Route(n).name = n
BY DEF Route, Of, Cached, RouteKinds

LEMMA PolicyHasKind ==
  ASSUME NEW o \in Resources \ Cached
  PROVE  o.kind \in PolicyKinds /\ o.name \in IngressNames /\ o = Of(o.kind, o.name)
BY DEF Resources, Cached, Of

LEMMA TurnRemoves ==
  ASSUME Typed, NEW c \in CRs, NEW new, Turn(c, new), queue' = queue,
         NEW o, PolicyInHand(o),
         Removes(First(c), o) => \E call \in new : Removes(call, o)
  PROVE  PolicyInHand(o)'
<1>1. CASE queue # {}
  BY <1>1 DEF PolicyInHand
<1>2. ASSUME NEW d \in CRs, NEW call \in Pending(d), Removes(call, o)
      PROVE  \E other \in Pending(d)' : Removes(other, o)
  BY <1>2 DEF Turn
<1> HIDE DEF Removes, Pending
<1> QED BY <1>1, <1>2 DEF PolicyInHand, Removes

\* Other calls look for no policy.
LEMMA OtherTurnRemoves ==
  ASSUME Typed, NEW c \in CRs, NEW new, Turn(c, new), queue' = queue,
         NEW o, PolicyInHand(o),
         First(c).do \notin {"list", "collect", "decide", "sweep", "delete"}
  PROVE  PolicyInHand(o)'
<1>1. ~Removes(First(c), o)
  BY DEF Removes
<1> QED BY <1>1, TurnRemoves

LEMMA WorkPolicyInHand ==
  ASSUME Typed, Recovering, OfSystem, RouteStays, NEW c \in CRs, WorkStep(c),
         NEW o \in Resources \ Cached, Exists(o), Exists(o)', o.name \notin Declared,
         PolicyInHand(o)
  PROVE  PolicyInHand(o)'
<1>1. o.kind \in PolicyKinds /\ o.name \in IngressNames /\ o = Of(o.kind, o.name)
  BY PolicyHasKind
<1>2. PICK n \in IngressNames \cap Declared : Exists(Route(n)) /\ seen[Route(n)] # None
  BY DEF RouteStays
<1>3. CASE Begin(c)
  <2>1. "HTTPRoute" \in Deployed
    BY <1>2, RouteIsCached DEF OfSystem
  <2>2. DeleteOrphaned("HTTPRoute") \in Pending(c)'
    BY <1>3, <2>1, BeginCalls DEF Started, Orphaning
  <2>3. Removes(DeleteOrphaned("HTTPRoute"), o)
    BY DEF Removes, DeleteOrphaned, Phases, Call
  <2> QED BY <2>2, <2>3 DEF PolicyInHand
<1>4. CASE LockName(c)
  BY <1>4, LockTurn, OtherTurnRemoves DEF workVars
<1>5. CASE List(c)
  <2> DEFINE found == {m \in IngressNames : seen[Of(First(c).kind, m)] # None}
             call == Call("collect", First(c).kind, found, First(c).keep)
  <2>1. Turn(c, Listed(c)) /\ First(c).do = "list" /\ UNCHANGED queue
    BY <1>5, ListTurn DEF List, workVars
  <2>2. ASSUME First(c).kind = "HTTPRoute" PROVE \E other \in Listed(c) : Removes(other, o)
    <3>1. n \in found
      BY <1>2, <2>2 DEF Route
    <3>2. call \in Listed(c)
      BY <3>1 DEF Listed
    <3>3. Removes(call, o)
      BY <2>2 DEF Removes, Call
    <3> QED BY <3>2, <3>3
  <2>3. Removes(First(c), o) => First(c).kind = "HTTPRoute"
    BY <2>1 DEF Removes
  <2> QED BY <2>1, <2>2, <2>3, TurnRemoves
<1>6. CASE Collect(c)
  <2>1. Turn(c, Collected(c)) /\ First(c).do = "collect" /\ UNCHANGED queue
    BY <1>6, CollectTurn DEF Collect, workVars
  <2>2. Removes(First(c), o) => \E call \in Collected(c) : Removes(call, o)
    BY <2>1 DEF Removes, Collected, Call
  <2> QED BY <2>1, <2>2, TurnRemoves
<1>7. CASE Decide(c)
  <2>1. CASE queue' = queue \cup {c}
    BY <2>1 DEF PolicyInHand
  <2>2. CASE Turn(c, Decided(c)) /\ UNCHANGED <<workVars, standing>>
    <3> DEFINE call == Call("sweep", o.kind, {}, Names(c))
    <3>1. First(c).do = "decide"
      BY <1>7, DecideTurn
    <3>2. ASSUME Removes(First(c), o) PROVE \E other \in Decided(c) : Removes(other, o)
      <4>1. First(c).kind = "HTTPRoute"
        BY <3>1, <3>2 DEF Removes
      <4>2. call \in Decided(c)
        BY <1>1, <4>1 DEF Decided, Sweeps
      <4>3. Removes(call, o)
        BY DEF Removes, Call
      <4> QED BY <4>2, <4>3
    <3> QED BY <2>2, <3>2, TurnRemoves DEF workVars
  <2> QED BY <1>7, <2>1, <2>2, DecideTurn
<1>8. CASE DoSweep(c)
  <2> DEFINE names == {m \in IngressNames \ First(c).keep :
                         res[Of(First(c).kind, m)] # None}
             call == Call("delete", First(c).kind, names, {})
  <2>1. First(c).do = "sweep" /\ Turn(c, Swept(c)) /\ UNCHANGED queue
    BY <1>8, SweepTurn DEF DoSweep, workVars
  <2>2. First(c).keep = Declared
    BY <1>8, <2>1, FirstIsProper DEF DoSweep, Calling, Recovering, Current
  <2>3. ASSUME First(c).kind = o.kind PROVE \E other \in Swept(c) : Removes(other, o)
    <3>1. o.name \in names
      BY <1>1, <2>2, <2>3 DEF Exists
    <3>2. call \in Swept(c)
      BY <3>1 DEF Swept, Deletes
    <3>3. Removes(call, o)
      BY <2>3, <3>1 DEF Removes, Call
    <3> QED BY <3>2, <3>3
  <2>4. Removes(First(c), o) => First(c).kind = o.kind
    BY <2>1 DEF Removes
  <2> QED BY <2>1, <2>3, <2>4, TurnRemoves
<1>9. ASSUME NEW m \in IngressNames \cup {Unnamed}, DoDelete(c, m) PROVE PolicyInHand(o)'
  <2> DEFINE call == Call("delete", First(c).kind, First(c).names \ {m}, {})
  <2>1. /\ First(c).do = "delete" /\ Turn(c, Deleted(c, m)) /\ UNCHANGED queue
        /\ res' = Gone(Of(First(c).kind, m))
    BY <1>9, DeleteTurn DEF DoDelete, First, workVars
  <2>2. ASSUME Removes(First(c), o) PROVE \E other \in Deleted(c, m) : Removes(other, o)
    <3>1. First(c).kind = o.kind /\ o.name \in First(c).names
      BY <2>1, <2>2 DEF Removes
    <3>2. o.name # m
      <4>1. Of(First(c).kind, m) = o => res'[o] = None
        BY <2>1 DEF Gone, Found, Exists, Typed, TypeOK
      <4> QED BY <1>1, <3>1, <4>1 DEF Exists
    <3>3. call \in Deleted(c, m)
      BY <3>1, <3>2 DEF Deleted, Deletes
    <3>4. Removes(call, o)
      BY <3>1, <3>2 DEF Removes, Call
    <3> QED BY <3>3, <3>4
  <2> QED BY <2>1, <2>2, TurnRemoves
<1>10. CASE TryDelete(c)
  <2>1. Turn(c, {}) /\ First(c).do = "tryDelete" /\ UNCHANGED queue
    BY <1>10, ContinueTurn DEF TryDelete, Calling, Continue, First, workVars
  <2> QED BY <2>1, OtherTurnRemoves
<1>11. ASSUME NEW m \in IngressNames \cup {Unnamed}, NextSpec(c, m) PROVE PolicyInHand(o)'
  BY <1>11, SpecTurn, OtherTurnRemoves DEF NextSpec, workVars
<1>12. CASE DoApply(c)
  <2>1. First(c).do = "apply"
    BY <1>12, ApplyTurn
  <2>2. \/ queue' = queue \cup {c}
        \/ queue' = queue /\ \E new : Turn(c, new)
    BY <1>12, ApplyTurn DEF workVars
  <2> QED BY <2>1, <2>2, OtherTurnRemoves DEF PolicyInHand
<1>13. CASE Finish(c)
  <2>1. /\ queue' = queue /\ Pending(c) = {}
        /\ \A d \in CRs \ {c} : Pending(d)' = Pending(d)
    BY <1>13, FinishEnds DEF Finish, Ends
  <2> QED BY <2>1 DEF PolicyInHand, Removes
<1>14. CASE CallFails(c)
  <2>1. \/ queue' = queue \cup {c}
        \/ First(c).do = "tryDelete" /\ Turn(c, {}) /\ queue' = queue
    BY <1>14, FailTurn DEF workVars
  <2> QED BY <2>1, OtherTurnRemoves DEF PolicyInHand
<1> QED BY <1>3, <1>4, <1>5, <1>6, <1>7, <1>8, <1>9, <1>10, <1>11, <1>12, <1>13, <1>14
        DEF WorkStep

LEMMA WorkFollowsPolicies ==
  ASSUME Typed, Recovering, OfSystem, PoliciesFollowed, NEW c \in CRs, WorkStep(c)
  PROVE  PoliciesFollowed'
<1>1. SameCRs /\ seen' = seen
  BY WorkLeavesEnvirons DEF Environs, crVars, SameCRs
<1>2. RouteStays'
  <2>1. PICK n \in IngressNames \cap Declared : Exists(Route(n)) /\ seen[Route(n)] # None
    BY DEF PoliciesFollowed, RouteStays
  <2>2. Route(n) \in Resources /\ Route(n).name \in Declared
    BY RouteIsCached DEF Resources
  <2>3. Exists(Route(n))'
    BY <2>1, <2>2, WorkKeepsDeclared
  <2>4. n \in Declared' /\ seen'[Route(n)] # None
    BY <1>1, <2>1, SameNames
  <2> QED BY <2>3, <2>4 DEF RouteStays, Route, Of
<1>3. ASSUME NEW o \in Resources \ Cached, Exists(o)', o.name \notin Declared
      PROVE  PolicyInHand(o)'
  <2>1. CASE Exists(o)
    BY <1>3, <2>1, WorkPolicyInHand DEF PoliciesFollowed
  <2>2. CASE Creates(c, o)
    <3>1. obj[c] = crs[c] /\ obj[c] # None /\ o.name \in crs[c].declares
      BY <2>2, NoneAssumption DEF Creates, Recovering
    <3> QED BY <1>3, <3>1 DEF Declared, Declares
  <2> QED BY <1>3, <2>1, <2>2, WorkCreates
<1> QED BY <1>1, <1>2, <1>3, SameNames DEF PoliciesFollowed

LEMMA RestartFollowsPolicies ==
  ASSUME Typed, Restart, recovered', routed'
  PROVE  PoliciesFollowed'
<1>1. Declared' = Declared /\ res' = res
  BY DEF Restart, crVars, Declared, Declares
<1>2. RouteStays'
  <2>1. PICK n \in IngressNames \cap Declared : res[Of("HTTPRoute", n)] # None
    BY DEF Restart
  <2>2. Route(n) \in Resources
    BY RouteIsCached DEF Resources
  <2>3. seen'[Route(n)] = res[Route(n)]
    BY <2>2 DEF Restart
  <2> QED BY <1>1, <2>1, <2>3 DEF RouteStays, Exists, Route, Of
<1>3. ASSUME NEW o \in Resources, Exists(o)' PROVE PolicyInHand(o)'
  <2>1. PICK uid \in res[o].owners : Alive(uid)
    BY <1>1, <1>3 DEF Restart, Collectable, Exists
  <2>2. uid.cr \in CRs
    BY <1>1, <1>3, <2>1 DEF Typed, TypeOK, Versions, Owners, Exists
  <2>3. uid.cr \in queue'
    BY <2>1, <2>2 DEF Restart, Alive
  <2> QED BY <2>3 DEF PolicyInHand
<1> QED BY <1>2, <1>3 DEF PoliciesFollowed

LEMMA StillFollowsPolicies ==
  ASSUME PoliciesFollowed, UNCHANGED <<crs, res, queue, todo>>,
         \A n \in IngressNames : Exists(Route(n)) /\ seen[Route(n)] # None
                                   => seen'[Route(n)] # None
  PROVE  PoliciesFollowed'
<1>1. Declared' = Declared /\ \A d \in CRs : Pending(d)' = Pending(d)
  BY DEF Declared, Declares, Pending
<1>2. \A o : Exists(o)' <=> Exists(o)
  BY DEF Exists
<1>3. RouteStays'
  BY <1>1, <1>2 DEF PoliciesFollowed, RouteStays, Exists, Route, Of
<1>4. \A o : PolicyInHand(o) => PolicyInHand(o)'
  BY <1>1 DEF PolicyInHand, Removes
<1> QED BY <1>1, <1>2, <1>3, <1>4 DEF PoliciesFollowed

LEMMA PoliciesNext ==
  /\ Typed /\ (recovered => Recovering) /\ OfSystem
  /\ (recovered /\ routed => PoliciesFollowed) /\ [Next]_vars
  => (recovered /\ routed => PoliciesFollowed)'
<1> SUFFICES ASSUME Typed, recovered => Recovering, OfSystem,
                    recovered /\ routed => PoliciesFollowed, [Next]_vars,
                    recovered', routed'
             PROVE  PoliciesFollowed'
  OBVIOUS
<1>1. ASSUME NEW c \in CRs, WorkStep(c) PROVE PoliciesFollowed'
  BY <1>1, WorkLeavesEnvirons, WorkFollowsPolicies DEF Environs, startVars
<1>2. ASSUME NEW c \in CRs, WriteCR(c) \/ DeleteCR(c) PROVE FALSE
  BY <1>2 DEF WriteCR, DeleteCR, Change
<1>3. ASSUME NEW c \in CRs, SyncCR(c) PROVE FALSE
  BY <1>3 DEF SyncCR, Recovering, startVars
<1>4. ASSUME NEW o \in Resources, CollectGarbage(o) PROVE FALSE
  BY <1>4 DEF CollectGarbage, Recovering, startVars
<1>5. ASSUME NEW o \in Resources, SyncResource(o) PROVE PoliciesFollowed'
  <2>1. \A n \in IngressNames : Exists(Route(n)) /\ seen[Route(n)] # None
                                  => seen'[Route(n)] # None
    BY <1>5, RouteIsCached DEF SyncResource, Typed, TypeOK, Resources, Exists
  <2> QED BY <1>5, <2>1, StillFollowsPolicies
          DEF SyncResource, crVars, workVars, startVars
<1>6. CASE Restart
  BY <1>6, RestartFollowsPolicies
<1>7. CASE UNCHANGED vars
  BY <1>7, StillFollowsPolicies DEF vars, crVars, workVars, startVars
<1> QED BY <1>1, <1>2, <1>3, <1>4, <1>5, <1>6, <1>7, Steps

-----------------------------------------------------------------------------
(* A restart, and operators at rest                                        *)

LEMMA InitTended == Init => Tended
<1> SUFFICES ASSUME Init PROVE Tended
  OBVIOUS
<1>1. \A o \in Resources : ~Exists(o)
  BY DEF Init, Exists
<1>2. Fresh /\ OfSystem /\ Followed /\ faults \in Nat
  BY <1>1 DEF Init, Fresh, OfSystem, Followed, Resources
<1>3. ~routed
  BY DEF Init
<1> QED BY <1>2, <1>3, InitTyped, InitRecovering DEF Tended

LEMMA TendedNext == Tended /\ [Next]_vars => Tended'
BY TypedNext, RecoveringNext, PoliciesNext, FreshNext, OfSystemNext, FaultsCounted,
   FollowedNext DEF Tended

LEMMA AtRest ==
  ASSUME Tended, Quiescent
  PROVE  queue = {} /\ Known = Declared /\ \A c \in CRs : Pending(c) = {}
<1>1. \A c \in CRs : todo[c] = <<>>
  BY DEF Tended, Typed, TypeOK, Quiescent
<1>2. \A c \in CRs : Declares(crCache, c) = Declares(crs, c)
  BY DEF Quiescent, Declares
<1> QED BY <1>1, <1>2, ElementsOfNone DEF Quiescent, Pending, Known, Declared

\* Whatever a restart finds, once the operator is at rest every ingress declared
\* is there in each kind deployed, with its policies, though each reconcile
\* deletes orphans while the others apply.
THEOREM RestartsServe == Spec => []RestartServes
<1>1. Tended => RestartServes
  <2> SUFFICES ASSUME Tended, Quiescent, recovered,
                      NEW c \in CRs, NEW n \in Declares(crs, c), NEW kind \in Deployed
               PROVE  /\ res[Of(kind, n)] # None
                      /\ kind = "HTTPRoute" =>
                           \A p \in PoliciesOf[n] : res[Of(p, n)] # None
    BY DEF RestartServes, Declared
  <2>1. Pending(c) = {} /\ c \notin queue
    BY AtRest
  <2>2. CRServed(c)
    BY DEF Tended, Recovering
  <2>3. Served(c, kind, n)
    BY <2>1, <2>2 DEF CRServed, Specifies
  <2> QED BY <2>1, <2>3 DEF Served, Exists
<1> QED BY <1>1, InitTended, TendedNext, PTL DEF Spec

LEMMA RestLeavesNoOrphan ==
  ASSUME Tended, Quiescent, Watched, NEW o \in Cached, res[o] # None
  PROVE  o.name \in Declared
<1>1. o.name \in Known \/ InHand(o)
  BY DEF Tended, Followed, Exists
<1>2. ~InHand(o)
  BY AtRest DEF InHand
<1> QED BY <1>1, <1>2, AtRest

\* Nor is an ingress or a route left then that no CR declares, nor, if the
\* restart has found a route that stays, a traffic policy without its route.
THEOREM RestartsClean == Spec => []RestartCleans
<1>1. Tended => RestartCleans
  <2> SUFFICES ASSUME Tended, Quiescent, recovered,
                      NEW o \in IF routed THEN Resources ELSE Cached, res[o] # None
               PROVE  o.name \in Declared
    BY DEF RestartCleans
  <2>1. CASE o \in Cached
    BY <2>1, RestLeavesNoOrphan DEF Watched
  <2>2. CASE o \in Resources \ Cached /\ routed
    <3>1. o.name \in Declared \/ PolicyInHand(o)
      BY <2>2 DEF Tended, PoliciesFollowed, Exists
    <3>2. ~PolicyInHand(o)
      BY AtRest DEF PolicyInHand
    <3> QED BY <3>1, <3>2
  <2> QED BY <2>1, <2>2
<1> QED BY <1>1, InitTended, TendedNext, PTL DEF Spec

\* If no listing has found its cache behind and no call has failed, the same
\* holds of an operator at rest whatever users have changed meanwhile.
THEOREM NothingIsOrphaned == Spec => []NothingOrphaned
<1>1. Tended => NothingOrphaned
  BY RestLeavesNoOrphan DEF NothingOrphaned, Watched
<1> QED BY <1>1, InitTended, TendedNext, PTL DEF Spec
=============================================================================
