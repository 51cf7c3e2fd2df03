------------------------ MODULE ComposeEditor_proofs ------------------------
(***************************************************************************)
(* Proofs about ComposeEditor, for any services, pods and offered ports.   *)
(***************************************************************************)
EXTENDS ComposeEditor, FiniteSetTheorems, TLAPS

(* Rank grows along the list of requests, and with each one that needs a   *)
(* port (editor.go:198-206).                                               *)
LEMMA RankGrows ==
  ASSUME taken \in Nat, NEW requests \in Seq(PortRequests),
         NEW j \in 0..Len(requests), NEW k \in j..Len(requests)
  PROVE  /\ Rank(requests, j) \in Nat /\ taken <= Rank(requests, j)
         /\ Rank(requests, j) <= Rank(requests, k)
         /\ j < k /\ NeedsPort(requests[k]) => Rank(requests, j) < Rank(requests, k)
<1> DEFINE Needing(i) == {n \in 1..i : NeedsPort(requests[n])}
<1>1. IsFiniteSet(1..j) /\ IsFiniteSet(1..k)
  BY FS_Interval
<1>2. IsFiniteSet(Needing(j)) /\ IsFiniteSet(Needing(k))
  BY <1>1, FS_Subset
<1>3. Cardinality(Needing(j)) \in Nat /\ Cardinality(Needing(k)) \in Nat
  BY <1>2, FS_CardinalityType
<1>4. Needing(j) \subseteq Needing(k)
  OBVIOUS
<1>5. /\ Cardinality(Needing(j)) <= Cardinality(Needing(k))
      /\ Cardinality(Needing(k)) = Cardinality(Needing(j)) => Needing(k) = Needing(j)
  BY <1>2, <1>4, FS_Subset
<1>6. j < k /\ NeedsPort(requests[k]) => k \in Needing(k) /\ k \notin Needing(j)
  OBVIOUS
<1>7. Rank(requests, j) = taken + Cardinality(Needing(j)) /\ Rank(requests, k) = taken + Cardinality(Needing(k))
  BY DEF Rank
<1> HIDE DEF Needing
<1> QED
  BY <1>3, <1>5, <1>6, <1>7

(* When the ports suffice, every request that needs one gets the offered   *)
(* port of its rank, beyond those taken before.                            *)
LEMMA MappedPorts ==
  ASSUME offered \in Seq(STRING), taken \in 0..Len(offered),
         NEW requests \in Seq(PortRequests), ~Short(requests)
  PROVE  /\ Mapped(requests) \in Seq(PortRequests) /\ Len(Mapped(requests)) = Len(requests)
         /\ Rank(requests, Len(requests)) \in taken..Len(offered)
         /\ \A j \in 1..Len(requests) :
              NeedsPort(Mapped(requests)[j]) =>
                /\ NeedsPort(requests[j])
                /\ Rank(requests, j) \in taken + 1..Rank(requests, Len(requests))
                /\ Mapped(requests)[j][1] = offered[Rank(requests, j)]
<1>1. Rank(requests, Len(requests)) \in taken..Len(offered)
  BY RankGrows DEF Short
<1>2. ASSUME NEW j \in 1..Len(requests)
      PROVE  /\ Rank(requests, j) \in taken..Len(offered)
             /\ Rank(requests, j) <= Rank(requests, Len(requests))
             /\ NeedsPort(requests[j]) => taken < Rank(requests, j)
  <2>1. taken <= Rank(requests, 0) /\ Rank(requests, 0) \in Nat
    BY RankGrows
  <2>2. NeedsPort(requests[j]) => Rank(requests, 0) < Rank(requests, j)
    BY RankGrows
  <2>3. Rank(requests, j) \in Nat /\ taken <= Rank(requests, j) /\ Rank(requests, j) <= Rank(requests, Len(requests))
    BY RankGrows
  <2> QED
    BY <1>1, <2>1, <2>2, <2>3
<1>3. ASSUME NEW j \in 1..Len(requests)
      PROVE  /\ Mapped(requests)[j] \in PortRequests
             /\ NeedsPort(requests[j]) => Mapped(requests)[j][1] = offered[Rank(requests, j)]
             /\ ~NeedsPort(requests[j]) => Mapped(requests)[j] = requests[j]
  <2>1. requests[j] \in Seq(STRING)
    BY DEF PortRequests
  <2>2. CASE NeedsPort(requests[j])
    <3>1. Mapped(requests)[j] = <<offered[Rank(requests, j)], requests[j][2]>>
      BY <1>1, <1>2, <2>2 DEF Mapped
    <3>2. offered[Rank(requests, j)] \in STRING /\ requests[j][2] \in STRING
      BY <1>1, <1>2, <2>1, <2>2 DEF NeedsPort
    <3> QED
      BY <2>2, <3>1, <3>2 DEF PortRequests
  <2>3. CASE ~NeedsPort(requests[j])
    BY <2>1, <2>3 DEF Mapped, PortRequests
  <2> QED
    BY <2>2, <2>3
<1>4. Mapped(requests) \in Seq(PortRequests) /\ Len(Mapped(requests)) = Len(requests)
  <2>1. Mapped(requests) = [j \in 1..Len(requests) |-> Mapped(requests)[j]]
    BY DEF Mapped
  <2> QED
    BY <1>3, <2>1
<1>5. ASSUME NEW j \in 1..Len(requests), NeedsPort(Mapped(requests)[j])
      PROVE  NeedsPort(requests[j])
  BY <1>3, <1>5
<1> QED
  BY <1>1, <1>2, <1>3, <1>4, <1>5

(* Concatenation, for CollectPorts.                                        *)
LEMMA Concatenation ==
  ASSUME NEW s \in Seq(PortRequests), NEW r \in Seq(PortRequests)
  PROVE  /\ Len(s \o r) = Len(s) + Len(r)
         /\ DOMAIN (s \o r) = 1..Len(s) + Len(r)
         /\ \A i \in 1..Len(s) : (s \o r)[i] = s[i]
         /\ \A i \in 1..Len(s) + Len(r) : i > Len(s) => (s \o r)[i] = r[i - Len(s)]
  BY SMTT(60)

(* The ports of one more service go to the end of those collected: all are *)
(* offered ones, and none is used twice (editor.go:213-217).               *)
LEMMA CollectedGrows ==
  ASSUME PInv, NEW requests \in Seq(PortRequests), ~Short(requests),
         taken' = Rank(requests, Len(requests)), UNCHANGED offered,
         config' = [config EXCEPT !.ports = CollectPorts(Mapped(requests))]
  PROVE  taken' \in 0..Len(offered) /\ Collected'
<1> DEFINE old == config.ports
           new == Mapped(requests)
           all == config'.ports
<1>1. /\ offered \in Seq(STRING) /\ taken \in 0..Len(offered)
      /\ \A i, j \in DOMAIN offered : offered[i] = offered[j] => i = j
  BY OfferAssumption DEF PInv
<1>2. /\ config \in [ports : Seq(PortRequests), rmInfra : BOOLEAN]
      /\ old \in Seq(PortRequests)
  BY DEF PInv, Collected
<1>3. /\ new \in Seq(PortRequests) /\ Len(new) = Len(requests)
      /\ taken' \in taken..Len(offered)
      /\ \A j \in 1..Len(requests) : NeedsPort(new[j]) =>
           /\ NeedsPort(requests[j])
           /\ Rank(requests, j) \in taken + 1..taken'
           /\ new[j][1] = offered[Rank(requests, j)]
  BY <1>1, MappedPorts
<1>4. all = old \o new /\ config' \in [ports : Seq(PortRequests), rmInfra : BOOLEAN]
  <2>1. CollectPorts(new) = old \o new /\ old \o new \in Seq(PortRequests)
    BY <1>2, <1>3 DEF CollectPorts
  <2>2. config' = [config EXCEPT !.ports = old \o new]
    BY <2>1
  <2> HIDE DEF old, new
  <2> QED
    BY <1>2, <2>1, <2>2
<1>5. /\ \A i \in DOMAIN old : NeedsPort(old[i]) => \E k \in 1..taken : old[i][1] = offered[k]
      /\ \A i, j \in DOMAIN old : i # j /\ NeedsPort(old[i]) /\ NeedsPort(old[j]) => old[i][1] # old[j][1]
  BY DEF PInv, Collected
<1>6. /\ DOMAIN all = 1..Len(old) + Len(new) /\ DOMAIN old = 1..Len(old)
      /\ \A i \in 1..Len(old) : all[i] = old[i]
      /\ \A i \in DOMAIN all : i > Len(old) => i - Len(old) \in 1..Len(requests) /\ all[i] = new[i - Len(old)]
  <2> HIDE DEF old, new, all
  <2>1. Len(old) \in Nat /\ Len(new) \in Nat /\ DOMAIN old = 1..Len(old)
    BY <1>2, <1>3
  <2>2. /\ DOMAIN (old \o new) = 1..Len(old) + Len(new)
        /\ \A i \in 1..Len(old) : (old \o new)[i] = old[i]
        /\ \A i \in 1..Len(old) + Len(new) : i > Len(old) => (old \o new)[i] = new[i - Len(old)]
    <3>1. old \in Seq(PortRequests) /\ new \in Seq(PortRequests)
      BY <1>2, <1>3
    <3> QED
      BY <3>1, Concatenation
  <2>3. \A i \in 1..Len(old) + Len(new) : i > Len(old) => i - Len(old) \in 1..Len(requests)
    BY <1>3, <2>1
  <2> QED
    BY <1>4, <2>1, <2>2, <2>3
<1>7. ASSUME NEW i, NEW j, i \in DOMAIN requests, j \in DOMAIN requests, i < j,
             NeedsPort(new[i]), NeedsPort(new[j])
      PROVE  new[i][1] # new[j][1]
  <2>1. i \in 1..Len(requests) /\ j \in i..Len(requests)
    BY <1>7
  <2>2. Rank(requests, i) < Rank(requests, j)
    <3>1. taken \in Nat /\ i \in 0..Len(requests) /\ NeedsPort(requests[j])
      BY <1>1, <1>3, <1>7, <2>1
    <3> HIDE DEF old, new, all
    <3> QED
      BY <1>7, <2>1, <3>1, RankGrows
  <2>3. Rank(requests, i) \in DOMAIN offered /\ Rank(requests, j) \in DOMAIN offered
    BY <1>1, <1>3, <1>7, <2>1
  <2> QED
    BY <1>1, <1>3, <1>7, <2>1, <2>2, <2>3
<1>8. ASSUME NEW i, NEW j, i \in DOMAIN old, j \in 1..Len(requests), NeedsPort(old[i]), NeedsPort(new[j])
      PROVE  old[i][1] # new[j][1]
  <2>1. PICK k \in 1..taken : old[i][1] = offered[k]
    BY <1>5, <1>8
  <2>2. /\ Rank(requests, j) \in taken + 1..taken' /\ taken' \in taken..Len(offered)
        /\ new[j][1] = offered[Rank(requests, j)]
    BY <1>3, <1>8
  <2>3. k # Rank(requests, j) /\ {k, Rank(requests, j)} \subseteq DOMAIN offered
    BY <1>1, <2>2
  <2> HIDE DEF old, new
  <2> QED
    BY <1>1, <2>1, <2>2, <2>3
<1>9. ASSUME NEW i \in DOMAIN all, NeedsPort(all[i])
      PROVE  \E k \in 1..taken' : all[i][1] = offered[k]
  <2>1. CASE i \in 1..Len(old)
    <3>1. i \in DOMAIN old /\ all[i] = old[i]
      BY <1>6, <2>1
    <3>2. PICK k \in 1..taken : all[i][1] = offered[k]
      BY <1>5, <1>9, <3>1
    <3>3. k \in 1..taken'
      BY <1>1, <1>3
    <3> QED
      BY <3>2, <3>3
  <2>2. CASE i > Len(old)
    <3>1. i - Len(old) \in 1..Len(requests) /\ all[i] = new[i - Len(old)]
      BY <1>6, <1>9, <2>2
    <3>2. PICK j \in 1..Len(requests) : all[i] = new[j]
      BY <3>1
    <3>3. Rank(requests, j) \in 1..taken' /\ all[i][1] = offered[Rank(requests, j)]
      BY <1>1, <1>3, <1>9, <3>2
    <3> QED
      BY <3>3
  <2> QED
    BY <1>2, <1>6, <2>1, <2>2
<1>10. ASSUME NEW i \in DOMAIN all, NEW j \in DOMAIN all, i < j, NeedsPort(all[i]), NeedsPort(all[j])
       PROVE  all[i][1] # all[j][1]
  <2>1. CASE j \in 1..Len(old)
    <3>1. i \in 1..Len(old)
      BY <1>6, <1>10, <2>1
    <3>2. i \in DOMAIN old /\ j \in DOMAIN old /\ all[i] = old[i] /\ all[j] = old[j] /\ i # j
      BY <1>6, <1>10, <2>1, <3>1
    <3> QED
      BY <1>5, <1>10, <3>2
  <2>2. CASE i \in 1..Len(old) /\ j > Len(old)
    BY <1>6, <1>8, <1>10, <2>2
  <2>3. CASE i > Len(old)
    <3>1. /\ i - Len(old) \in DOMAIN requests /\ j - Len(old) \in DOMAIN requests
          /\ i - Len(old) < j - Len(old)
      BY <1>2, <1>6, <1>10, <2>3
    <3>2. all[i] = new[i - Len(old)] /\ all[j] = new[j - Len(old)]
      BY <1>2, <1>6, <1>10, <2>3
    <3> QED
      BY <1>7, <1>10, <3>1, <3>2
  <2> QED
    BY <1>2, <1>3, <1>6, <1>10, <2>1, <2>2, <2>3
<1> HIDE DEF old, new, all
<1>11. \A i, j \in DOMAIN all : i # j /\ NeedsPort(all[i]) /\ NeedsPort(all[j]) => all[i][1] # all[j][1]
  <2>1. DOMAIN all \subseteq Int
    BY <1>6
  <2> QED
    BY <1>10, <2>1
<1> QED
  BY <1>1, <1>3, <1>4, <1>9, <1>11 DEF Collected, all

(* The files as the user gave them satisfy the invariant.                  *)
LEMMA EditorInit == Init => PInv
<1> SUFFICES ASSUME Init PROVE PInv
  OBVIOUS
<1>1. Len(pod) \in Nat /\ DOMAIN pod = 1..Len(pod) /\ offered \in Seq(STRING)
  BY PodAssumption, OfferAssumption DEF Init
<1>2. /\ DOMAIN files = 1..Len(pod) /\ Len(files) = Len(pod)
      /\ \A i \in 1..Len(pod) : files[i] = Given(i)
      /\ files = [i \in 1..Len(pod) + 0 |-> Given(i)]
  BY <1>1 DEF Init
<1>3. \A n \in DOMAIN detail : \E i \in 1..Len(pod) : n = Given(i) /\ detail[n] = pod[i]
  <2>1. detail = [n \in Range(files) |-> pod[n[1]]]
    BY DEF Init
  <2>2. \A n \in Range(files) : \E i \in 1..Len(pod) : n = Given(i)
    BY <1>2 DEF Range
  <2>3. \A i : Given(i)[1] = i
    BY DEF Given, Name
  <2> QED
    BY <2>1, <2>2, <2>3
<1>4. \A i \in 1..Len(files) : files[i] \in DOMAIN detail
  <2>1. \A i \in 1..Len(files) : files[i] \in Range(files)
    BY <1>2 DEF Range
  <2>2. DOMAIN detail = Range(files)
    BY DEF Init
  <2> QED
    BY <2>1, <2>2
<1>5. \A n \in DOMAIN detail : \A s \in DOMAIN detail[n] : detail[n][s] \in Sections
  <2>1. \A i \in 1..Len(pod) : \A s \in DOMAIN pod[i] : pod[i][s] \in Sections
    BY <1>1, PodAssumption DEF Init
  <2> QED
    BY <1>3, <2>1
<1>6. Unedited
  <2>1. at = 1 /\ pc = "create"
    BY DEF Init
  <2>2. files = [i \in 1..(Len(pod) + (IF pc = "create" THEN 0 ELSE 1)) |-> Given(i)]
    BY <1>2, <2>1
  <2> QED
    BY <1>4, <1>5, <2>1, <2>2 DEF Unedited
<1>7. Collected
  BY DEF Init, Collected, PortRequests
<1> QED
  BY <1>1, <1>6, <1>7 DEF Init, PInv

(* What holds of the file that is being edited, and of its services.       *)
LEMMA Current ==
  ASSUME PInv, pc \in {"file", "service"}, at <= Len(files)
  PROVE  /\ Len(pod) \in Nat /\ Len(files) = Len(pod) + 1
         /\ \A i \in 1..Len(files) : files[i] = Given(i)
         /\ at \in 1..Len(files) /\ files[at] \in DOMAIN detail
<1>1. Len(pod) \in Nat
  BY PodAssumption DEF PInv
<1>2. files = [i \in 1..Len(pod) + 1 |-> Given(i)]
  BY DEF PInv, Unedited, Editing
<1>3. Len(files) = Len(pod) + 1 /\ \A i \in 1..Len(files) : files[i] = Given(i)
  BY <1>1, <1>2
<1> QED
  BY <1>1, <1>3 DEF PInv, Unedited, Editing

(* Storing a service leaves every other file and service as it was.        *)
LEMMA StoreKeeps ==
  ASSUME PInv, pc = "service", NEW s \in todo, NEW service \in Sections, Store(s, service),
         UNCHANGED <<given, files, at>>, pc' \in {"service", "failed"}, todo' \subseteq todo
  PROVE  Unedited'
<1>1. at <= Len(files) /\ todo \subseteq DOMAIN detail[files[at]]
  BY DEF PInv, Unedited
<1>2. files[at] \in DOMAIN detail
  BY <1>1, Current
<1>3. DOMAIN detail' = DOMAIN detail /\ \A n \in DOMAIN detail : DOMAIN detail'[n] = DOMAIN detail[n]
  BY <1>2 DEF Store
<1>4. \A n \in DOMAIN detail : \A t \in DOMAIN detail[n] : detail[n][t] \in Sections
  BY DEF PInv, Unedited, Editing
<1>5. \A n \in DOMAIN detail : \A t \in DOMAIN detail[n] : detail'[n][t] \in Sections
  BY <1>2, <1>4 DEF Store
<1> QED
  BY <1>1, <1>2, <1>3, <1>5 DEF PInv, Unedited, Editing, given

(* Editing a service keeps the invariant (editor.go:96-241).               *)
LEMMA UpdateStep ==
  ASSUME PInv, NEW s \in todo, UpdateServiceSessions(s)
  PROVE  PInv'
<1> DEFINE service == detail[files[at]][s]
<1>1. pc = "service" /\ UNCHANGED <<given, files, at>>
  BY DEF UpdateServiceSessions
<1>2. at <= Len(files) /\ s \in DOMAIN detail[files[at]] /\ files[at] \in DOMAIN detail
  BY <1>1, Current DEF PInv, Unedited
<1>3. service \in Sections
  BY <1>1, <1>2 DEF PInv, Unedited, Editing
<1>4. service.ports \in Seq(PortRequests)
  BY <1>3 DEF Sections
<1>5. offered \in Seq(STRING) /\ taken \in 0..Len(offered) /\ config.ports \in Seq(PortRequests)
  BY OfferAssumption DEF PInv, Collected
<1> HIDE DEF service
<1>6. CASE EditUnshared(s)
  <2>1. Store(s, [service EXCEPT !.hosts = {}]) /\ [service EXCEPT !.hosts = {}] \in Sections
    BY <1>3, <1>6 DEF EditUnshared, service, Sections
  <2>2. Unedited'
    BY <1>1, <1>6, <2>1, StoreKeeps DEF EditUnshared
  <2>3. config'.ports = config.ports /\ config' \in [ports : Seq(PortRequests), rmInfra : BOOLEAN]
    BY <1>6 DEF EditUnshared, PInv, Collected
  <2>4. Collected' /\ taken' \in 0..Len(offered')
    BY <1>1, <1>6, <2>3 DEF EditUnshared, PInv, Collected, given
  <2> QED
    BY <1>1, <2>2, <2>4 DEF PInv, given
<1>7. CASE EditInfra(s)
  <2>1. Store(s, [service EXCEPT !.ports = config.ports]) /\ [service EXCEPT !.ports = config.ports] \in Sections
    BY <1>3, <1>5, <1>7 DEF EditInfra, service, Sections
  <2>2. Unedited'
    BY <1>1, <1>7, <2>1, StoreKeeps DEF EditInfra
  <2>3. Collected' /\ taken' \in 0..Len(offered')
    BY <1>1, <1>7 DEF EditInfra, PInv, Collected, given, found
  <2> QED
    BY <1>1, <2>2, <2>3 DEF PInv, given
<1>8. CASE EditShared(s) /\ Short(service.ports)
  <2>1. pc' = "failed" /\ taken' = Len(offered) /\ UNCHANGED <<config, offered>>
    BY <1>1, <1>8 DEF EditShared, Fail, service, given
  <2>2. Unedited'
    BY <1>1, <2>1 DEF PInv, Unedited, Editing
  <2>3. Collected' /\ taken' \in 0..Len(offered')
    BY <1>5, <2>1 DEF PInv, Collected
  <2> QED
    BY <1>1, <2>2, <2>3 DEF PInv, given
<1>9. CASE EditShared(s) /\ ~Short(service.ports)
  <2> DEFINE joined == [service EXCEPT !.mode = "shared", !.hosts = {}]
  <2>1. Store(s, [joined EXCEPT !.ports = <<>>]) /\ [joined EXCEPT !.ports = <<>>] \in Sections
    <3>1. [joined EXCEPT !.ports = <<>>] \in Sections
      <4>1. joined \in Sections
        BY <1>3 DEF Sections
      <4>2. <<>> \in Seq(PortRequests)
        OBVIOUS
      <4> HIDE DEF joined
      <4> QED
        BY <4>1, <4>2 DEF Sections
    <3> QED
      BY <1>9, <3>1 DEF EditShared, service
  <2>2. Unedited'
    BY <1>1, <1>9, <2>1, StoreKeeps DEF EditShared, service
  <2>3. /\ taken' = Rank(service.ports, Len(service.ports)) /\ UNCHANGED offered
        /\ config' = [config EXCEPT !.ports = CollectPorts(Mapped(service.ports))]
    BY <1>1, <1>9 DEF EditShared, service, given
  <2>4. Collected' /\ taken' \in 0..Len(offered')
    BY <1>4, <1>9, <2>3, CollectedGrows
  <2> QED
    BY <1>1, <2>2, <2>4 DEF PInv, given
<1> QED
  BY <1>6, <1>7, <1>8, <1>9 DEF UpdateServiceSessions

(* Opening and closing a file and adding the infra container keep what is  *)
(* still to be edited in ServiceDetail; later steps edit nothing.          *)
LEMMA EditorStep == ASSUME PInv, [Next]_vars PROVE PInv'
<1>1. /\ Len(pod) \in Nat /\ DOMAIN pod = 1..Len(pod)
      /\ at \in Nat \ {0} /\ taken \in 0..Len(offered)
  BY PodAssumption DEF PInv, Unedited
<1>2. ASSUME UNCHANGED <<given, found>>, Unedited' PROVE PInv'
  BY <1>2 DEF PInv, Collected, given, found
<1>3. ASSUME pc' \notin Editing, UNCHANGED <<given, found, at>> PROVE PInv'
  <2>1. Unedited'
    BY <1>1, <1>3 DEF Unedited, Editing
  <2> QED
    BY <1>2, <1>3, <2>1
<1>4. CASE CreateInfraContainer /\ pc' = "file"
  <2>1. /\ files = [i \in 1..Len(pod) + 0 |-> Given(i)] /\ pc = "create"
        /\ files' = Append(files, Given(Len(pod) + 1))
        /\ UNCHANGED <<given, found, at>>
    BY <1>4 DEF CreateInfraContainer, Fail, InfraFile, PInv, Unedited, Editing, loop
  <2>2. Len(files) = Len(pod) /\ files \in Seq({Given(i) : i \in 1..Len(pod)})
    BY <1>1, <2>1
  <2>3. files' = [i \in 1..Len(pod) + 1 |-> Given(i)] /\ Len(files') = Len(pod) + 1
    BY <1>1, <2>1, <2>2
  <2>4. /\ DOMAIN detail' = DOMAIN detail \cup {InfraFile}
        /\ \A n \in DOMAIN detail' : detail'[n] = (IF n = InfraFile THEN [s \in {Infra} |-> InfraService]
                                                                   ELSE detail[n])
    BY <1>4 DEF CreateInfraContainer, Fail
  <2>5. InfraService \in Sections
    BY DEF InfraService, Sections
  <2>6. \A n \in DOMAIN detail' : \A s \in DOMAIN detail'[n] : detail'[n][s] \in Sections
    BY <2>1, <2>4, <2>5 DEF PInv, Unedited, Editing
  <2>7. \A i \in at..Len(files) : Given(i) \in DOMAIN detail
    <3>1. \A i \in at..Len(files) : files[i] \in DOMAIN detail
      BY <2>1 DEF PInv, Unedited, Editing
    <3>2. \A i \in 1..Len(files) : files[i] = Given(i)
      BY <1>1, <2>1, <2>2
    <3>3. at..Len(files) \subseteq 1..Len(files)
      BY <1>1, <2>2
    <3> QED
      BY <3>1, <3>2, <3>3
  <2>8. \A i \in at..Len(files') : files'[i] \in DOMAIN detail'
    BY <1>1, <2>2, <2>3, <2>4, <2>7 DEF InfraFile
  <2>9. files' = [i \in 1..(Len(pod') + (IF pc' = "create" THEN 0 ELSE 1)) |-> Given(i)]
    BY <1>4, <2>1, <2>3 DEF given
  <2>10. Unedited'
    BY <1>1, <1>4, <2>1, <2>6, <2>8, <2>9 DEF Unedited
  <2> QED
    BY <1>2, <2>1, <2>10
<1>5. CASE SkipFile
  <2>1. Len(files) = Len(pod) + 1
    BY <1>5, Current DEF SkipFile
  <2>2. Unedited'
    BY <1>1, <1>5, <2>1 DEF SkipFile, PInv, Unedited, Editing, given
  <2> QED
    BY <1>2, <1>5, <2>2 DEF SkipFile
<1>6. CASE OpenFile
  <2>1. Unedited'
    BY <1>1, <1>6 DEF OpenFile, PInv, Unedited, Editing, given
  <2> QED
    BY <1>2, <1>6, <2>1 DEF OpenFile
<1>7. CASE CloseFile
  <2>1. /\ pc = "service" /\ pc' = "file" /\ at' = at + 1 /\ at <= Len(files)
        /\ UNCHANGED <<given, files, found, todo>>
    BY <1>7 DEF CloseFile, PInv, Unedited
  <2>2. /\ Len(files) = Len(pod) + 1 /\ files[at] = Given(at)
        /\ \A i \in 1..Len(files) : files[i] = Given(i)
        /\ files[at] \in DOMAIN detail
    BY <2>1, Current
  <2> DEFINE new == Generated(files[at])
  <2>3. /\ DOMAIN detail' = (DOMAIN detail \ {files[at]}) \cup {new}
        /\ \A n \in DOMAIN detail' : detail'[n] = (IF n = new THEN detail[files[at]] ELSE detail[n])
    BY <1>7 DEF CloseFile
  <2> HIDE DEF new
  <2>4. \A n \in DOMAIN detail' : \A s \in DOMAIN detail'[n] : detail'[n][s] \in Sections
    BY <2>1, <2>2, <2>3 DEF PInv, Unedited, Editing
  <2>5. \A i, j : Given(i) = Given(j) => i = j
    BY DEF Given, Name
  <2>6. \A i \in at'..Len(files) : files[i] \in DOMAIN detail
    BY <1>1, <2>1, <2>2 DEF PInv, Unedited, Editing
  <2>7. \A i \in at'..Len(files) : files[i] # files[at]
    BY <1>1, <2>1, <2>2, <2>5
  <2>8. files' = [i \in 1..(Len(pod') + (IF pc' = "create" THEN 0 ELSE 1)) |-> Given(i)]
    BY <2>1 DEF PInv, Unedited, Editing, given
  <2>9. Unedited'
    <3>1. \A i \in at'..Len(files') : files'[i] \in DOMAIN detail'
      BY <2>1, <2>3, <2>6, <2>7
    <3> QED
      BY <1>1, <2>1, <2>4, <2>8, <3>1 DEF Unedited
  <2> QED
    BY <1>2, <2>1, <2>9
<1>8. CASE \E s \in todo : UpdateServiceSessions(s)
  BY <1>8, UpdateStep
<1>9. CASE CreateInfraContainer /\ pc' # "file"
  BY <1>3, <1>9 DEF CreateInfraContainer, Fail, Editing, loop
<1>10. CASE DropInfra \/ KeepInfra
  BY <1>3, <1>10 DEF DropInfra, KeepInfra, Fail, Editing, loop
<1>11. CASE Write
  BY <1>3, <1>11 DEF Write, Editing, loop
<1>12. CASE PostLaunchTask
  <2>1. pc' \in {"failed", "running"} /\ UNCHANGED <<given, found, at>>
    BY <1>12 DEF PostLaunchTask, PostEdit, Fail, loop
  <2> QED
    BY <1>3, <2>1 DEF Editing
<1>13. CASE Finished \/ UNCHANGED vars
  BY <1>13 DEF Finished, vars, given, loop, found, PInv, Unedited, Collected
<1> QED
  BY <1>4, <1>5, <1>6, <1>7, <1>8, <1>9, <1>10, <1>11, <1>12, <1>13 DEF Next

(* The invariant holds throughout.                                         *)
THEOREM EditorInvariant == Spec => []PInv
<1>1. Init => PInv
  BY EditorInit
<1>2. PInv /\ [Next]_vars => PInv'
  BY EditorStep
<1> QED
  BY <1>1, <1>2, PTL DEF Spec

(* No host port is used by two mappings of a pod, and none that Mesos did  *)
(* not offer, whatever the pod and the order of its services               *)
(* (editor.go:198-217).                                                    *)
THEOREM HostPortsNeverShared == Spec => []HostPortsDistinct
<1>1. PInv => HostPortsDistinct
  <2> SUFFICES ASSUME PInv PROVE HostPortsDistinct
    OBVIOUS
  <2>1. offered \in Seq(STRING) /\ taken \in 0..Len(offered)
    BY OfferAssumption DEF PInv
  <2>2. \A k \in 1..taken : offered[k] \in Range(offered)
    BY <2>1 DEF Range
  <2> QED
    BY <2>2 DEF PInv, Collected, HostPortsDistinct, NeedsPort
<1> QED
  BY <1>1, EditorInvariant, PTL

-----------------------------------------------------------------------------
(* The inductive invariant behind the others: which services have been     *)
(* edited,                                                                 *)
Edited(p) == p[1] < at \/ (p[1] = at /\ pc = "service" /\ p[2] \notin todo)

(* under which name a file is to be found,                                 *)
HasContent(i) == i = Len(pod) + 1 \/ DOMAIN pod[i] # {}
NameNow(i) == IF i < at /\ HasContent(i) THEN Generated(Given(i)) ELSE Given(i)

(* what has become of each service,                                        *)
Made(p) ==
  IF ~Edited(p) THEN Asked(p)
  ELSE IF OnOwnNetwork(p) THEN [Asked(p) EXCEPT !.hosts = {}]
  ELSE [Asked(p) EXCEPT !.mode = "shared", !.hosts = {}, !.ports = <<>>]
ServicesMade ==
  \A i \in 1..Len(pod) : /\ NameNow(i) \in DOMAIN detail
                         /\ DOMAIN detail[NameNow(i)] = DOMAIN pod[i]
                         /\ \A s \in DOMAIN pod[i] : detail[NameNow(i)][s] = Made(<<i, s>>)

(* of the infra container,                                                 *)
InfraMade ==
  /\ pc \in {"file", "service"} =>
       LET infra == NameNow(Len(pod) + 1)
       IN /\ infra \in DOMAIN detail /\ DOMAIN detail[infra] = {Infra}
          /\ Edited(<<Len(pod) + 1, Infra>>) => detail[infra][Infra].ports = config.ports
  /\ Done /\ ~config.rmInfra =>
       /\ Generated(InfraFile) \in DOMAIN detail /\ DOMAIN detail[Generated(InfraFile)] = {Infra}
       /\ DOMAIN detail[Generated(InfraFile)][Infra] = {"mode", "ports", "hosts"}
       /\ detail[Generated(InfraFile)][Infra].hosts = extraHosts
       /\ pc # "running" => InfraPorts = config.ports
       /\ DOMAIN InfraPorts = DOMAIN config.ports
       /\ \A j \in DOMAIN InfraPorts :
            InfraPorts[j] \in {config.ports[j]} \cup Published(config.ports[j])
       /\ pc = "running" => \A j \in DOMAIN InfraPorts : NeedsPort(InfraPorts[j])

(* and of the list of files, which keeps their order;                      *)
EditedFiles ==
  /\ Len(edited) < at
  /\ \A k \in DOMAIN edited :
       \E i \in k..at - 1 : HasContent(i) /\ edited[k] = Generated(Given(i))
  /\ \A k, l \in DOMAIN edited : k # l => edited[k] # edited[l]
  /\ \A i \in 1..at - 1 : HasContent(i) => Generated(Given(i)) \in Range(edited)
ListedFiles ==
  /\ pc \in {"create", "file", "service"} => EditedFiles
  /\ pc = "create" => at = 1
  /\ pc = "service" => HasContent(at)
  /\ Done => /\ at = Len(pod) + 2
             /\ Range(files) = {NameNow(i) : i \in {j \in 1..Len(pod) : HasContent(j)}}
                                 \cup (IF config.rmInfra THEN {} ELSE {Generated(InfraFile)})

(* what the loops have collected comes from the services edited so far.    *)
Needing == {r \in Requests : Edited(r[1]) /\ NeedsPort(Request(r))}
Moved(port) == {r \in Requests : Edited(r[1]) /\ Last(Request(r)) = port}
Arrived(port) == {i \in DOMAIN config.ports : Last(config.ports[i]) = port}
Counted ==
  /\ taken = Cardinality(Needing)
  /\ extraHosts = UNION {Asked(p).hosts : p \in {q \in Places : Edited(q)}}
  /\ config.rmInfra <=> \E p \in Places : Edited(p) /\ OnOwnNetwork(p)
  /\ ~singlePort => \A i \in DOMAIN config.ports : NeedsPort(config.ports[i])
  /\ (\A r \in Requests : Len(Request(r)) < 3) =>
       /\ \A i \in DOMAIN config.ports : \E r \in Requests : Last(Request(r)) = Last(config.ports[i])
       /\ \A port \in {Last(Request(r)) : r \in Requests} :
            Cardinality(Moved(port)) = Cardinality(Arrived(port))

WrittenLast == pc \in {"launched", "running"} /\ error = "none" => written = detail

PortsRefused == error = "ports" =>
                  Cardinality({r \in Requests : Len(Request(r)) > 1}) > Len(offered)

TInv == PInv /\ TypeOK /\ edited \in Seq({Generated(Given(i)) : i \in 1..Len(pod) + 1})

EInv == /\ TInv /\ PortsRefused /\ WrittenLast
        /\ pc # "failed" => ServicesMade /\ InfraMade /\ ListedFiles /\ Counted

-----------------------------------------------------------------------------
(* Counting                                                                *)

(* A function that is one to one carries the size of its domain over.      *)
LEMMA SameSize ==
  ASSUME NEW S, IsFiniteSet(S), NEW T, NEW f \in [S -> T],
         \A x, y \in S : f[x] = f[y] => x = y, \A t \in T : \E x \in S : f[x] = t
  PROVE  IsFiniteSet(T) /\ Cardinality(T) = Cardinality(S)
<1>1. f \in Bijection(S, T)
  BY DEF Bijection, Injection, Surjection, IsInjective
<1>2. ExistsBijection(S, T)
  BY <1>1 DEF ExistsBijection
<1> QED
  BY <1>2, FS_Bijection

(* The image of a finite set is finite.                                    *)
LEMMA ImageFinite ==
  ASSUME NEW S, IsFiniteSet(S), NEW f, DOMAIN f = S
  PROVE  IsFiniteSet({f[x] : x \in S})
<1> DEFINE T == {f[x] : x \in S}
           g == [x \in S |-> f[x]]
<1>1. g \in Surjection(S, T)
  BY DEF Surjection
<1> HIDE DEF T, g
<1>2. IsFiniteSet(T)
  BY <1>1, FS_Surjection
<1> QED
  BY <1>2 DEF T

(* Sets with nothing in common add up.                                     *)
LEMMA DisjointSum ==
  ASSUME NEW S, IsFiniteSet(S), NEW T, IsFiniteSet(T), \A x \in S : x \notin T
  PROVE  IsFiniteSet(S \cup T) /\ Cardinality(S \cup T) = Cardinality(S) + Cardinality(T)
<1>1. S \cap T = {}
  OBVIOUS
<1>2. Cardinality(S \cap T) = 0 /\ Cardinality(S) \in Nat /\ Cardinality(T) \in Nat
  BY <1>1, FS_EmptySet, FS_CardinalityType
<1>3. IsFiniteSet(S \cup T) /\ Cardinality(S \cup T) = Cardinality(S) + Cardinality(T) - Cardinality(S \cap T)
  BY FS_Union
<1> QED
  BY <1>2, <1>3

-----------------------------------------------------------------------------
(* Files, places and requests                                              *)

LEMMA PodFacts ==
  ASSUME pod \in Pods
  PROVE  /\ Len(pod) \in Nat /\ DOMAIN pod = 1..Len(pod)
         /\ \A i \in 1..Len(pod) : /\ IsFiniteSet(DOMAIN pod[i]) /\ DOMAIN pod[i] \subseteq Services
                                   /\ \A s \in DOMAIN pod[i] : pod[i][s] \in Sections
  BY PodAssumption

LEMMA Names ==
  /\ \A i, j : Given(i) = Given(j) => i = j
  /\ \A i, j : Generated(Given(i)) = Generated(Given(j)) => i = j
  /\ \A i, j : Given(i) # Generated(Given(j))
  /\ \A i : Given(i)[1] = i /\ Generated(Given(i))[1] = i
  /\ InfraFile = Given(Len(pod) + 1)
  BY DEF Given, Generated, Name, InfraFile

LEMMA PlaceFacts ==
  ASSUME pod \in Pods, NEW p \in Places
  PROVE  /\ p[1] \in 1..Len(pod) /\ p[2] \in DOMAIN pod[p[1]] /\ p = <<p[1], p[2]>>
         /\ p[2] # Infra /\ Asked(p) \in Sections
<1>1. p[1] \in 1..Len(pod) /\ p[2] \in Services /\ p[2] \in DOMAIN pod[p[1]] /\ p = <<p[1], p[2]>>
  BY DEF Places
<1>2. p[2] # Infra
  BY <1>1, InfraAssumption
<1>3. Asked(p) \in Sections
  BY <1>1, PodFacts DEF Asked
<1> QED
  BY <1>1, <1>2, <1>3

(* A request names a place that is not on a network of its own, and one of *)
(* the ports asked for there.                                              *)
LEMMA RequestFacts ==
  ASSUME pod \in Pods
  PROVE  /\ \A r \in Requests : /\ r[1] \in Places /\ ~OnOwnNetwork(r[1]) /\ r = <<r[1], r[2]>>
                                /\ r[2] \in 1..Len(Asked(r[1]).ports)
                                /\ Request(r) \in PortRequests
         /\ \A p \in Places : ~OnOwnNetwork(p) =>
              \A j \in 1..Len(Asked(p).ports) : <<p, j>> \in Requests
<1>1. \A p \in Places : /\ Asked(p).ports \in Seq(PortRequests)
                        /\ DOMAIN Asked(p).ports = 1..Len(Asked(p).ports)
  BY PlaceFacts DEF Sections
<1>2. ASSUME NEW r \in Requests
      PROVE  /\ r[1] \in Places /\ ~OnOwnNetwork(r[1]) /\ r = <<r[1], r[2]>>
             /\ r[2] \in 1..Len(Asked(r[1]).ports)
             /\ Request(r) \in PortRequests
  <2>1. PICK p \in Places : ~OnOwnNetwork(p) /\ r \in {p} \X DOMAIN Asked(p).ports
    BY DEF Requests
  <2>2. r[1] = p /\ r = <<r[1], r[2]>> /\ r[2] \in DOMAIN Asked(p).ports
    BY <2>1
  <2> QED
    BY <1>1, <2>1, <2>2 DEF Request
<1>3. ASSUME NEW p \in Places, ~OnOwnNetwork(p), NEW j \in 1..Len(Asked(p).ports)
      PROVE  <<p, j>> \in Requests
  BY <1>1, <1>3 DEF Requests
<1> QED
  BY <1>2, <1>3

LEMMA PlacesFinite == ASSUME pod \in Pods PROVE IsFiniteSet(Places)
<1> DEFINE f == [i \in 1..Len(pod) |-> {i} \X DOMAIN pod[i]]
           T == {f[i] : i \in 1..Len(pod)}
<1>1. Len(pod) \in Nat /\ \A i \in 1..Len(pod) : IsFiniteSet(DOMAIN pod[i]) /\ DOMAIN pod[i] \subseteq Services
  BY PodFacts
<1>2. IsFiniteSet(1..Len(pod))
  BY <1>1, FS_Interval
<1>3. \A t \in T : IsFiniteSet(t)
  <2> SUFFICES ASSUME NEW i \in 1..Len(pod) PROVE IsFiniteSet({i} \X DOMAIN pod[i])
    OBVIOUS
  <2>1. IsFiniteSet({i}) /\ IsFiniteSet(DOMAIN pod[i])
    BY <1>1, FS_Singleton
  <2> QED
    BY <2>1, FS_Product
<1>4. Places = UNION T
  BY <1>1 DEF Places
<1>5. DOMAIN f = 1..Len(pod)
  OBVIOUS
<1> HIDE DEF f
<1>6. IsFiniteSet(T)
  BY <1>2, <1>5, ImageFinite
<1> HIDE DEF T
<1> QED
  BY <1>3, <1>4, <1>6, FS_UNION

LEMMA RequestsFinite == ASSUME pod \in Pods PROVE IsFiniteSet(Requests)
<1> DEFINE S == {q \in Places : ~OnOwnNetwork(q)}
           f == [p \in S |-> {p} \X DOMAIN Asked(p).ports]
           T == {f[p] : p \in S}
<1>1. IsFiniteSet(S)
  BY PlacesFinite, FS_Subset
<1>2. \A p \in S : IsFiniteSet(DOMAIN Asked(p).ports)
  <2> SUFFICES ASSUME NEW p \in S PROVE IsFiniteSet(DOMAIN Asked(p).ports)
    OBVIOUS
  <2>1. Asked(p).ports \in Seq(PortRequests)
    BY PlaceFacts DEF Sections
  <2>2. DOMAIN Asked(p).ports = 1..Len(Asked(p).ports) /\ Len(Asked(p).ports) \in Nat
    BY <2>1
  <2> QED
    BY <2>2, FS_Interval
<1>3. \A t \in T : IsFiniteSet(t)
  <2> SUFFICES ASSUME NEW p \in S PROVE IsFiniteSet({p} \X DOMAIN Asked(p).ports)
    OBVIOUS
  <2>1. IsFiniteSet({p}) /\ IsFiniteSet(DOMAIN Asked(p).ports)
    BY <1>2, FS_Singleton
  <2> QED
    BY <2>1, FS_Product
<1>4. Requests = UNION T
  BY DEF Requests
<1>5. DOMAIN f = S
  OBVIOUS
<1> HIDE DEF f
<1>6. IsFiniteSet(T)
  BY <1>1, <1>5, ImageFinite
<1> HIDE DEF T
<1> QED
  BY <1>3, <1>4, <1>6, FS_UNION

-----------------------------------------------------------------------------
(* Types                                                                   *)

(* The element taken out of a sequence leaves the others as they were.     *)
LEMMA Removed ==
  ASSUME NEW S, NEW q \in Seq(S), NEW i \in 1..Len(q)
  PROVE  /\ RemoveAt(q, i) \in Seq(S)
         /\ Len(RemoveAt(q, i)) = Len(q) - 1
         /\ \A k \in 1..i - 1 : RemoveAt(q, i)[k] = q[k]
         /\ \A k \in i..Len(q) - 1 : RemoveAt(q, i)[k] = q[k + 1]
<1> DEFINE a == SubSeq(q, 1, i - 1)
           b == SubSeq(q, i + 1, Len(q))
<1>1. /\ a \in Seq(S) /\ Len(a) = i - 1 /\ \A k \in 1..i - 1 : a[k] = q[k]
  OBVIOUS
<1>2. /\ b \in Seq(S) /\ Len(b) = Len(q) - i /\ \A k \in 1..Len(q) - i : b[k] = q[i + k]
  OBVIOUS
<1>3. RemoveAt(q, i) = a \o b
  BY DEF RemoveAt
<1> HIDE DEF a, b
<1>4. /\ a \o b \in Seq(S) /\ Len(a \o b) = Len(q) - 1
      /\ \A k \in 1..i - 1 : (a \o b)[k] = a[k]
      /\ \A k \in i..Len(q) - 1 : (a \o b)[k] = b[k - (i - 1)]
  <2>1. a \o b \in Seq(S) /\ Len(a \o b) = Len(a) + Len(b)
    <3>1. a \in Seq(S) /\ b \in Seq(S)
      BY <1>1, <1>2
    <3> QED
      BY <3>1
  <2>2. \A k \in 1..Len(a) : (a \o b)[k] = a[k]
    BY <1>1, <1>2
  <2>3. \A k \in Len(a) + 1..Len(a) + Len(b) : (a \o b)[k] = b[k - Len(a)]
    BY <1>1, <1>2
  <2>4. /\ Len(a) = i - 1 /\ Len(b) = Len(q) - i /\ i \in Int /\ Len(q) \in Int
    BY <1>1, <1>2
  <2>5. Len(a \o b) = Len(q) - 1
    BY <2>1, <2>4
  <2>6. \A k \in 1..i - 1 : (a \o b)[k] = a[k]
    BY <2>2, <2>4
  <2>7. \A k \in i..Len(q) - 1 : (a \o b)[k] = b[k - (i - 1)]
    BY <2>3, <2>4
  <2> QED
    BY <2>1, <2>5, <2>6, <2>7
<1>5. \A k \in i..Len(q) - 1 : b[k - (i - 1)] = q[k + 1]
  BY <1>2
<1> QED
  BY <1>1, <1>3, <1>4, <1>5

LEMMA TypesInit == Init => TInv
<1> SUFFICES ASSUME Init PROVE TInv
  OBVIOUS
<1>1. PInv
  BY EditorInit
<1>2. Len(pod) \in Nat /\ DOMAIN pod = 1..Len(pod) /\ \A i \in 1..Len(pod) : DOMAIN pod[i] \subseteq Services
  BY PodFacts DEF Init
<1>3. DOMAIN files = 1..Len(pod) /\ \A i \in 1..Len(pod) : files[i] = Given(i)
  BY <1>2 DEF Init
<1>4. \A n \in Range(files) : n[1] \in 1..Len(pod)
  BY <1>3, Names DEF Range
<1>5. DOMAIN detail = Range(files) /\ \A n \in DOMAIN detail : detail[n] = pod[n[1]]
  BY DEF Init
<1>6. edited = <<>> /\ Range(edited) = {}
  BY DEF Init, Range
<1>7. /\ at = 1 /\ todo = {} /\ singlePort = FALSE /\ pc = "create" /\ error = "none"
      /\ config.rmInfra = FALSE /\ pod \in Pods /\ offered \in Offers /\ taken \in 0..Len(offered)
  BY <1>1 DEF Init, PInv
<1>8. \A n \in Range(files) \cup Range(edited) : n[1] \in 1..Len(pod) + 1
  BY <1>2, <1>4, <1>6
<1>9. \A n \in DOMAIN detail : DOMAIN detail[n] \subseteq Services \cup {Infra}
  BY <1>2, <1>4, <1>5
<1>10. singlePort \in BOOLEAN /\ config.rmInfra \in BOOLEAN
  BY <1>7
<1>11. at \in 1..Len(pod) + 2 /\ todo \subseteq Services \cup {Infra}
  BY <1>2, <1>7
<1>12. TypeOK
  BY <1>7, <1>8, <1>9, <1>10, <1>11 DEF TypeOK, Errors
<1> QED
  BY <1>1, <1>6, <1>12 DEF TInv

(* Storing a service the file has leaves the services of every file.       *)
LEMMA StoreKeepsTypes ==
  ASSUME PInv, pc = "service", NEW s \in todo, NEW service, Store(s, service)
  PROVE  /\ s \in DOMAIN detail[files[at]] /\ files[at] \in DOMAIN detail
         /\ DOMAIN detail' = DOMAIN detail
         /\ \A n \in DOMAIN detail : DOMAIN detail'[n] = DOMAIN detail[n]
         /\ detail'[files[at]][s] = service
         /\ \A t \in DOMAIN detail[files[at]] \ {s} : detail'[files[at]][t] = detail[files[at]][t]
         /\ \A n \in DOMAIN detail \ {files[at]} : detail'[n] = detail[n]
<1>1. at <= Len(files) /\ todo \subseteq DOMAIN detail[files[at]]
  BY DEF PInv, Unedited
<1>2. files[at] \in DOMAIN detail
  BY <1>1, Current
<1> QED
  BY <1>1, <1>2 DEF Store

LEMMA TypesStep == ASSUME TInv, [Next]_vars PROVE TInv'
<1> DEFINE Good == {Generated(Given(i)) : i \in 1..Len(pod) + 1}
<1>1. PInv' /\ PInv
  BY EditorStep DEF TInv
<1>2. Len(pod) \in Nat /\ \A i \in 1..Len(pod) : DOMAIN pod[i] \subseteq Services
  BY <1>1, PodFacts DEF PInv
<1>3. \A q : q \in Seq(Good) => \A n \in Range(q) : n[1] \in 1..Len(pod) + 1
  <2>1. \A n \in Good : n[1] \in 1..Len(pod) + 1
    BY Names
  <2> HIDE DEF Good
  <2>2. ASSUME NEW q \in Seq(Good) PROVE Range(q) \subseteq Good
    BY DEF Range
  <2> QED
    BY <2>1, <2>2
<1>4. edited \in Seq(Good) /\ pod \in Pods
  BY <1>1 DEF TInv, PInv
<1>5. /\ config'.rmInfra \in BOOLEAN /\ pod' \in Pods /\ offered' \in Offers
      /\ taken' \in 0..Len(offered')
  BY <1>1 DEF PInv, Collected
<1>6. ASSUME UNCHANGED <<pod, edited, at, singlePort>>, todo' \subseteq todo,
             \A n \in Range(files') : n[1] \in 1..Len(pod) + 1,
             \A n \in DOMAIN detail' : DOMAIN detail'[n] \subseteq Services \cup {Infra},
             pc' \in {"create", "file", "service", "edited", "launched", "running", "failed"},
             error' \in Errors
      PROVE  TInv'
  BY <1>1, <1>4, <1>5, <1>6 DEF TInv, TypeOK, Given, Generated, Name
<1>7. CASE CreateInfraContainer
  <2>1. CASE UNCHANGED <<files, detail>>
    BY <1>6, <1>7, <2>1 DEF CreateInfraContainer, Fail, TInv, TypeOK, given, loop, found, Errors
  <2>2. CASE pc' = "file"
    <3>1. /\ files' = Append(files, InfraFile) /\ files = [i \in 1..Len(pod) + 0 |-> Given(i)]
          /\ UNCHANGED <<given, loop, found, error>>
      BY <1>1, <1>7, <2>2 DEF CreateInfraContainer, Fail, PInv, Unedited, Editing
    <3>2. files \in Seq({Given(i) : i \in 1..Len(pod)}) /\ Len(files) = Len(pod)
      BY <1>2, <3>1
    <3>3. files' = [i \in 1..Len(pod) + 1 |-> Given(i)]
      BY <1>2, <3>1, <3>2 DEF InfraFile
    <3>4. \A n \in Range(files') : n[1] \in 1..Len(pod) + 1
      BY <3>3, Names DEF Range
    <3>5. \A n \in DOMAIN detail' : DOMAIN detail'[n] \subseteq Services \cup {Infra}
      <4>1. \A n \in DOMAIN detail' : detail'[n] = (IF n = InfraFile THEN [s \in {Infra} |-> InfraService] ELSE detail[n])
                                      /\ n \in DOMAIN detail \cup {InfraFile}
        BY <1>7, <2>2 DEF CreateInfraContainer, Fail
      <4> QED
        BY <4>1 DEF TInv, TypeOK
    <3> QED
      BY <1>6, <2>2, <3>1, <3>4, <3>5 DEF TInv, TypeOK, given, loop, found
  <2> QED
    BY <1>7, <2>1, <2>2 DEF CreateInfraContainer, Fail
<1>8. CASE SkipFile
  <2>1. at' \in 1..Len(pod) + 2 /\ at' = at + 1
    <3>1. Len(files) = Len(pod) + 1 /\ at <= Len(files)
      BY <1>1, <1>8, Current DEF SkipFile
    <3> QED
      BY <1>2, <1>8, <3>1 DEF SkipFile, TInv, TypeOK
  <2>2. UNCHANGED <<pod, offered, files, detail, edited, todo, singlePort, pc, error>>
    BY <1>8 DEF SkipFile, given, found
  <2> QED
    BY <1>1, <1>4, <1>5, <2>1, <2>2 DEF TInv, TypeOK, Given, Generated, Name
<1>9. CASE OpenFile
  <2>1. todo' \subseteq Services \cup {Infra}
    <3>1. files[at] \in DOMAIN detail
      BY <1>1, <1>9, Current DEF OpenFile
    <3> QED
      BY <1>9, <3>1 DEF OpenFile, TInv, TypeOK
  <2>2. UNCHANGED <<pod, offered, files, detail, edited, at, singlePort, error>> /\ pc' = "service"
    BY <1>9 DEF OpenFile, given, found
  <2> QED
    BY <1>1, <1>4, <1>5, <2>1, <2>2 DEF TInv, TypeOK, Given, Generated, Name
<1>10. CASE CloseFile
  <2>1. /\ UNCHANGED <<pod, offered, files, todo, singlePort, error>> /\ pc' = "file"
        /\ at' = at + 1 /\ edited' = Append(edited, Generated(files[at]))
        /\ pc = "service" /\ at <= Len(files)
    BY <1>1, <1>10 DEF CloseFile, given, found, PInv, Unedited
  <2>2. Len(files) = Len(pod) + 1 /\ files[at] = Given(at) /\ at \in 1..Len(pod) + 1 /\ files[at] \in DOMAIN detail
    BY <1>1, <2>1, Current
  <2>3. edited' \in Seq(Good)
    <3>1. Generated(files[at]) \in Good
      BY <2>2
    <3> HIDE DEF Good
    <3> QED
      BY <1>4, <2>1, <3>1
  <2>4. \A n \in Range(edited') : n[1] \in 1..Len(pod) + 1
    BY <1>3, <2>3
  <2>5. \A n \in DOMAIN detail' : \E m \in DOMAIN detail : detail'[n] = detail[m]
    BY <1>10, <2>2 DEF CloseFile
  <2>6. \A n \in DOMAIN detail' : DOMAIN detail'[n] \subseteq Services \cup {Infra}
    BY <2>5 DEF TInv, TypeOK
  <2>7. TypeOK'
    BY <1>2, <1>5, <2>1, <2>2, <2>4, <2>6 DEF TInv, TypeOK
  <2> QED
    BY <1>1, <2>1, <2>3, <2>7 DEF TInv, Given, Generated, Name
<1>11. CASE \E s \in todo : UpdateServiceSessions(s)
  <2>1. PICK s \in todo : UpdateServiceSessions(s)
    BY <1>11
  <2>2. pc = "service" /\ UNCHANGED <<pod, offered, files, edited, at>>
    BY <2>1 DEF UpdateServiceSessions, given
  <2>3. PICK service : Store(s, service)
    BY <2>1 DEF UpdateServiceSessions, EditUnshared, EditShared, EditInfra
  <2>4. \A n \in DOMAIN detail' : DOMAIN detail'[n] \subseteq Services \cup {Infra}
    BY <1>1, <2>2, <2>3, StoreKeepsTypes DEF TInv, TypeOK
  <2>5. todo' \subseteq todo /\ singlePort' \in BOOLEAN /\ error' \in Errors /\ pc' \in {"service", "failed"}
    <3>1. singlePort \in BOOLEAN /\ error \in Errors
      BY DEF TInv, TypeOK
    <3>2. CASE EditUnshared(s)
      BY <2>2, <3>1, <3>2 DEF EditUnshared
    <3>3. CASE EditShared(s)
      <4>1. singlePort' = (singlePort \/ SawSingle(detail[files[at]][s].ports))
        BY <3>3 DEF EditShared
      <4>2. /\ todo' \subseteq todo
            /\ (pc' = pc /\ error' = error) \/ (pc' = "failed" /\ error' = "ports")
        BY <3>3 DEF EditShared, Fail
      <4> QED
        BY <2>2, <3>1, <4>1, <4>2 DEF Errors
    <3>4. CASE EditInfra(s)
      BY <2>2, <3>1, <3>4 DEF EditInfra, found
    <3> QED
      BY <2>1, <3>2, <3>3, <3>4 DEF UpdateServiceSessions
  <2> QED
    BY <1>1, <1>4, <1>5, <2>2, <2>4, <2>5 DEF TInv, TypeOK, Given, Generated, Name
<1>12. CASE DropInfra
  <2>1. UNCHANGED <<pod, offered, edited, at, todo, singlePort>>
    BY <1>12 DEF DropInfra, given, loop, found
  <2>2. CASE IndexInfra \in DOMAIN edited
    <3>1. files' = RemoveAt(edited, IndexInfra) /\ pc' = "edited" /\ UNCHANGED error
      BY <1>12, <2>2 DEF DropInfra
    <3>2. files' \in Seq(Good)
      <4> HIDE DEF Good
      <4>1. IndexInfra \in 1..Len(edited)
        BY <1>4, <2>2
      <4> QED
        BY <1>4, <3>1, <4>1, Removed
    <3>3. \A n \in DOMAIN detail' : n \in DOMAIN detail /\ detail'[n] = detail[n]
      BY <1>12, <2>2 DEF DropInfra
    <3> QED
      BY <1>3, <1>6, <2>1, <3>1, <3>2, <3>3 DEF TInv, TypeOK
  <2>3. CASE IndexInfra \notin DOMAIN edited
    <3>1. UNCHANGED <<files, detail>> /\ pc' = "failed" /\ error' = "index"
      BY <1>12, <2>3 DEF DropInfra, Fail
    <3> QED
      BY <1>6, <2>1, <3>1 DEF TInv, TypeOK, Errors
  <2> QED
    BY <2>2, <2>3
<1>13. CASE KeepInfra
  <2>1. /\ UNCHANGED <<pod, offered, edited, at, todo, singlePort, error>>
        /\ files' = edited /\ pc' = "edited"
    BY <1>13 DEF KeepInfra, given, loop, found
  <2>2. \A n \in DOMAIN detail' : n \in DOMAIN detail /\ DOMAIN detail'[n] = DOMAIN detail[n]
    BY <1>13 DEF KeepInfra
  <2> QED
    BY <1>3, <1>4, <1>6, <2>1, <2>2 DEF TInv, TypeOK
<1>14. CASE Write
  BY <1>6, <1>14 DEF Write, TInv, TypeOK, Errors, given, loop, found
<1>15. CASE PostLaunchTask
  <2>1. /\ UNCHANGED <<pod, offered, edited, at, todo, singlePort, files>>
        /\ pc' \in {"running", "failed"} /\ error' \in {error, "ids", "write"}
    BY <1>15 DEF PostLaunchTask, PostEdit, Fail, given, loop, found
  <2>2. \A n \in DOMAIN detail' : n \in DOMAIN detail /\ DOMAIN detail'[n] = DOMAIN detail[n]
    BY <1>15 DEF PostLaunchTask, PostEdit
  <2> QED
    BY <1>6, <2>1, <2>2 DEF TInv, TypeOK, Errors
<1>16. CASE Finished \/ UNCHANGED vars
  BY <1>1, <1>16 DEF Finished, vars, given, loop, found, TInv, TypeOK, Given, Generated, Name
<1> QED
  BY <1>7, <1>8, <1>9, <1>10, <1>11, <1>12, <1>13, <1>14, <1>15, <1>16 DEF Next

(* The variables keep their types, and only files of the list are edited   *)
(* (editor.go:96-241, impl.go:62-160).                                     *)
THEOREM EditorTypeCorrect == Spec => []TypeOK
<1>1. Init => TInv
  BY TypesInit
<1>2. TInv /\ [Next]_vars => TInv'
  BY TypesStep
<1>3. TInv => TypeOK
  BY DEF TInv
<1> QED
  BY <1>1, <1>2, <1>3, PTL DEF Spec

-----------------------------------------------------------------------------
(* Bookkeeping: what the invariant says of the services and of what was    *)
(* collected stays true while no service is edited                         *)

LEMMA PodKept ==
  ASSUME UNCHANGED pod
  PROVE  /\ Places' = Places /\ Requests' = Requests
         /\ \A p : (Asked(p)' = Asked(p)) /\ (OnOwnNetwork(p)' = OnOwnNetwork(p))
         /\ \A r : Request(r)' = Request(r)
         /\ \A i : HasContent(i)' = HasContent(i)
         /\ InfraFile' = InfraFile /\ \A i : Given(i)' = Given(i) /\ Generated(Given(i))' = Generated(Given(i))
  BY DEF Places, Requests, Asked, OnOwnNetwork, Request, HasContent, InfraFile, Given, Generated, Name

LEMMA CountedKept ==
  ASSUME Counted, UNCHANGED <<pod, found>>, \A p \in Places : Edited(p)' <=> Edited(p), pod \in Pods
  PROVE  Counted'
<1>1. /\ Places' = Places /\ Requests' = Requests
      /\ \A p : (Asked(p)' = Asked(p)) /\ (OnOwnNetwork(p)' = OnOwnNetwork(p))
      /\ \A r : Request(r)' = Request(r)
  BY PodKept
<1>2. \A r \in Requests : Edited(r[1])' <=> Edited(r[1])
  BY RequestFacts
<1>3. Needing' = Needing
  BY <1>1, <1>2 DEF Needing, NeedsPort
<1>4. \A port : (Moved(port)' = Moved(port)) /\ (Arrived(port)' = Arrived(port))
  BY <1>1, <1>2 DEF Moved, Arrived, found, Last
<1>5. UNION {Asked(p)'.hosts : p \in {q \in Places' : Edited(q)'}} = UNION {Asked(p).hosts : p \in {q \in Places : Edited(q)}}
  BY <1>1
<1>6. UNCHANGED <<taken, extraHosts, config, singlePort>>
  BY DEF found
<1> HIDE DEF Needing, Moved, Arrived, Places, Requests, Edited, Asked, Request
<1>7. \A r : Last(Request(r))' = Last(Request(r)) /\ Len(Request(r))' = Len(Request(r))
  BY <1>1 DEF Last
<1>8. \A i \in DOMAIN config.ports : Last(config.ports[i])' = Last(config.ports[i])
  BY <1>6 DEF Last
<1>9. taken' = Cardinality(Needing')
  BY <1>3, <1>6 DEF Counted
<1>10. extraHosts' = (UNION {Asked(p).hosts : p \in {q \in Places : Edited(q)}})'
  BY <1>5, <1>6 DEF Counted
<1>11. config'.rmInfra <=> \E p \in Places' : Edited(p)' /\ OnOwnNetwork(p)'
  BY <1>1, <1>6 DEF Counted
<1>12. ~singlePort' => \A i \in DOMAIN config'.ports : NeedsPort(config'.ports[i])
  BY <1>6 DEF Counted
<1>13. ASSUME \A r \in Requests : Len(Request(r)) < 3
       PROVE  /\ \A i \in DOMAIN config.ports : \E r \in Requests : Last(Request(r)) = Last(config.ports[i])
              /\ \A port \in {Last(Request(r)) : r \in Requests} :
                   Cardinality(Moved(port)') = Cardinality(Arrived(port)')
  BY <1>4, <1>13 DEF Counted
<1>14. {Last(Request(r)) : r \in Requests}' = {Last(Request(r)) : r \in Requests}
  BY <1>1, <1>7
<1> QED
  BY <1>1, <1>6, <1>7, <1>8, <1>9, <1>10, <1>11, <1>12, <1>13, <1>14 DEF Counted

(* Each file stays under a name it is found by, with the services it has.  *)
LEMMA ServicesKept ==
  ASSUME ServicesMade, pod \in Pods, UNCHANGED pod, \A p \in Places : Edited(p)' <=> Edited(p),
         \A i \in 1..Len(pod) : /\ NameNow(i)' \in DOMAIN detail'
                                /\ detail'[NameNow(i)'] = detail[NameNow(i)]
  PROVE  ServicesMade'
<1>1. \A p : (Asked(p)' = Asked(p)) /\ (OnOwnNetwork(p)' = OnOwnNetwork(p))
  BY PodKept
<1>2. ASSUME NEW i \in 1..Len(pod), NEW s \in DOMAIN pod[i]
      PROVE  Made(<<i, s>>)' = Made(<<i, s>>)
  <2>1. <<i, s>> \in Places
    BY PodFacts DEF Places
  <2> QED
    BY <1>1, <2>1 DEF Made
<1> HIDE DEF Made
<1> QED
  BY <1>2 DEF ServicesMade

(* A place of the file being edited.                                       *)
LEMMA CurrentPlace ==
  ASSUME EInv, pc = "service", NEW s \in todo
  PROVE  /\ Len(pod) \in Nat /\ at \in 1..Len(pod) + 1 /\ files[at] = Given(at)
         /\ NameNow(at) = Given(at)
         /\ (s # Infra) => /\ at \in 1..Len(pod) /\ <<at, s>> \in Places /\ ~Edited(<<at, s>>)
                           /\ detail[files[at]][s] = Asked(<<at, s>>)
         /\ (s = Infra) => at = Len(pod) + 1
<1>1. ServicesMade /\ InfraMade /\ PInv /\ pod \in Pods
  BY DEF EInv, TInv, PInv
<1>2. at <= Len(files) /\ todo \subseteq DOMAIN detail[files[at]]
  BY <1>1 DEF PInv, Unedited
<1>3. Len(pod) \in Nat /\ at \in 1..Len(pod) + 1 /\ files[at] = Given(at)
  BY <1>1, <1>2, Current
<1>4. NameNow(at) = Given(at)
  BY <1>3 DEF NameNow
<1>5. CASE at \in 1..Len(pod)
  <2>1. s \in DOMAIN pod[at] /\ detail[files[at]][s] = Made(<<at, s>>)
    BY <1>1, <1>2, <1>3, <1>4, <1>5 DEF ServicesMade
  <2>2. s \in Services /\ <<at, s>> \in Places
    BY <1>1, <1>5, <2>1, PodFacts DEF Places
  <2>3. ~Edited(<<at, s>>)
    BY <1>3 DEF Edited
  <2> QED
    BY <1>3, <1>4, <1>5, <2>1, <2>2, <2>3, InfraAssumption DEF Made
<1>6. CASE at = Len(pod) + 1
  <2>1. DOMAIN detail[files[at]] = {Infra}
    BY <1>1, <1>3, <1>4, <1>6 DEF InfraMade
  <2> QED
    BY <1>2, <1>3, <1>4, <1>6, <2>1
<1> QED
  BY <1>3, <1>5, <1>6

(* Editing a service adds it to those edited, and no other.                *)
LEMMA UpdateEdits ==
  ASSUME pc = "service", pc' = "service", at \in Nat, NEW s \in todo, todo' = todo \ {s}, UNCHANGED at
  PROVE  \A i, t : Edited(<<i, t>>)' <=> Edited(<<i, t>>) \/ (i = at /\ t = s)
  BY DEF Edited

(* A service stored as it is to be made leaves every other one as it was.  *)
LEMMA StoreMakes ==
  ASSUME EInv, pc = "service", pc' = "service", NEW s \in todo, NEW service, Store(s, service), s # Infra,
         UNCHANGED <<given, files, edited, at, error>>, todo' = todo \ {s},
         service = IF OnOwnNetwork(<<at, s>>) THEN [Asked(<<at, s>>) EXCEPT !.hosts = {}]
                   ELSE [Asked(<<at, s>>) EXCEPT !.mode = "shared", !.hosts = {}, !.ports = <<>>]
  PROVE  ServicesMade' /\ InfraMade' /\ ListedFiles'
<1>1. ServicesMade /\ InfraMade /\ ListedFiles /\ PInv /\ pod \in Pods
  BY DEF EInv, TInv, PInv
<1>2. /\ Len(pod) \in Nat /\ at \in 1..Len(pod) /\ files[at] = Given(at) /\ NameNow(at) = Given(at)
      /\ <<at, s>> \in Places /\ ~Edited(<<at, s>>)
  BY CurrentPlace
<1>3. /\ s \in DOMAIN detail[files[at]] /\ files[at] \in DOMAIN detail
      /\ DOMAIN detail' = DOMAIN detail
      /\ \A n \in DOMAIN detail : DOMAIN detail'[n] = DOMAIN detail[n]
      /\ detail'[files[at]][s] = service
      /\ \A t \in DOMAIN detail[files[at]] \ {s} : detail'[files[at]][t] = detail[files[at]][t]
      /\ \A n \in DOMAIN detail \ {files[at]} : detail'[n] = detail[n]
  BY <1>1, StoreKeepsTypes
<1>4. UNCHANGED <<pod, at>> /\ \A i : NameNow(i)' = NameNow(i)
  BY PodKept DEF given, NameNow
<1>5. \A p : (Asked(p)' = Asked(p)) /\ (OnOwnNetwork(p)' = OnOwnNetwork(p))
  BY <1>4, PodKept
<1>6. \A i, t : Edited(<<i, t>>)' <=> Edited(<<i, t>>) \/ (i = at /\ t = s)
  <2>1. at \in Nat /\ UNCHANGED at
    BY <1>2, <1>4
  <2> QED
    BY <2>1, UpdateEdits
<1>7. \A i \in 1..Len(pod) + 1 : i # at => NameNow(i) # files[at]
  BY <1>2, Names DEF NameNow
<1>8. ServicesMade'
  <2> SUFFICES ASSUME NEW i \in 1..Len(pod)
               PROVE  /\ NameNow(i) \in DOMAIN detail'
                      /\ DOMAIN detail'[NameNow(i)] = DOMAIN pod[i]
                      /\ \A t \in DOMAIN pod[i] : detail'[NameNow(i)][t] = Made(<<i, t>>)'
    BY <1>4 DEF ServicesMade
  <2>1. NameNow(i) \in DOMAIN detail /\ DOMAIN detail[NameNow(i)] = DOMAIN pod[i]
        /\ \A t \in DOMAIN pod[i] : detail[NameNow(i)][t] = Made(<<i, t>>)
    BY <1>1 DEF ServicesMade
  <2>2. NameNow(i) \in DOMAIN detail' /\ DOMAIN detail'[NameNow(i)] = DOMAIN pod[i]
    BY <1>3, <2>1
  <2>3. ASSUME NEW t \in DOMAIN pod[i], i # at \/ t # s
        PROVE  detail'[NameNow(i)][t] = Made(<<i, t>>)'
    <3>1. detail'[NameNow(i)][t] = detail[NameNow(i)][t]
      BY <1>2, <1>3, <1>7, <2>1, <2>3
    <3>2. Edited(<<i, t>>)' <=> Edited(<<i, t>>)
      BY <1>6, <2>3
    <3>3. Made(<<i, t>>)' = Made(<<i, t>>)
      BY <1>5, <3>2 DEF Made
    <3> QED
      BY <2>1, <3>1, <3>3
  <2>4. ASSUME i = at PROVE detail'[NameNow(i)][s] = Made(<<i, s>>)'
    <3>1. Edited(<<at, s>>)'
      BY <1>6
    <3>2. Made(<<at, s>>)' = service
      BY <1>5, <3>1 DEF Made
    <3> QED
      BY <1>2, <1>3, <2>4, <3>2
  <2> QED
    BY <2>2, <2>3, <2>4
<1>9. InfraMade'
  <2> DEFINE infra == NameNow(Len(pod) + 1)
  <2>1. infra \in DOMAIN detail /\ DOMAIN detail[infra] = {Infra}
    BY <1>1 DEF InfraMade
  <2>2. infra \in DOMAIN detail' /\ DOMAIN detail'[infra] = {Infra}
    BY <1>3, <2>1
  <2>3. ~Edited(<<Len(pod) + 1, Infra>>)'
    BY <1>2, <1>4 DEF Edited
  <2>4. NameNow(Len(pod) + 1)' = infra
    BY <1>4 DEF NameNow
  <2> HIDE DEF infra
  <2> QED
    BY <1>4, <2>2, <2>3, <2>4 DEF InfraMade, Done
<1>10. ListedFiles'
  BY <1>1, <1>4, PodKept DEF ListedFiles, EditedFiles, Done
<1> QED
  BY <1>8, <1>9, <1>10

-----------------------------------------------------------------------------
(* What a step collects                                                    *)

(* What holds of the service a step edits, whichever network it is on.     *)
LEMMA EditedOne ==
  ASSUME EInv, NEW s \in todo, s # Infra, UpdateServiceSessions(s), todo' = todo \ {s}, pc' = pc
  PROVE  /\ <<at, s>> \in Places /\ ~Edited(<<at, s>>) /\ detail[files[at]][s] = Asked(<<at, s>>)
         /\ \A q \in Places : Edited(q)' <=> Edited(q) \/ q = <<at, s>>
         /\ extraHosts' = extraHosts \cup Asked(<<at, s>>).hosts =>
              extraHosts' = (UNION {Asked(p).hosts : p \in {q \in Places : Edited(q)}})'
<1>1. /\ pc = "service" /\ pc' = "service" /\ UNCHANGED <<pod, at>> /\ pod \in Pods /\ Counted
      /\ at \in Nat
  BY DEF UpdateServiceSessions, given, EInv, TInv, PInv, Unedited
<1>2. <<at, s>> \in Places /\ ~Edited(<<at, s>>) /\ detail[files[at]][s] = Asked(<<at, s>>)
  BY <1>1, CurrentPlace
<1>3. \A q \in Places : Edited(q)' <=> Edited(q) \/ q = <<at, s>>
  <2>1. \A i, t : Edited(<<i, t>>)' <=> Edited(<<i, t>>) \/ (i = at /\ t = s)
    BY <1>1, UpdateEdits
  <2>2. \A q \in Places : q = <<q[1], q[2]>>
    BY <1>1, PlaceFacts
  <2>3. \A i, t : <<i, t>> = <<at, s>> <=> i = at /\ t = s
    OBVIOUS
  <2> HIDE DEF Edited
  <2> QED
    BY <2>1, <2>2, <2>3
<1>4. ASSUME extraHosts' = extraHosts \cup Asked(<<at, s>>).hosts
      PROVE  extraHosts' = (UNION {Asked(p).hosts : p \in {q \in Places : Edited(q)}})'
  <2>1. Places' = Places /\ \A p : Asked(p)' = Asked(p)
    BY <1>1, PodKept
  <2>2. extraHosts = UNION {Asked(p).hosts : p \in {q \in Places : Edited(q)}}
    BY <1>1 DEF Counted
  <2>3. {q \in Places : Edited(q)'} = {q \in Places : Edited(q)} \cup {<<at, s>>}
    BY <1>2, <1>3
  <2>4. (UNION {Asked(p).hosts : p \in {q \in Places : Edited(q)}})'
          = UNION {Asked(p).hosts : p \in {q \in Places : Edited(q)'}}
    BY <2>1
  <2>5. UNION {Asked(p).hosts : p \in {q \in Places : Edited(q)} \cup {<<at, s>>}}
          = (UNION {Asked(p).hosts : p \in {q \in Places : Edited(q)}}) \cup Asked(<<at, s>>).hosts
    OBVIOUS
  <2> QED
    BY <1>4, <2>2, <2>3, <2>4, <2>5
<1> QED
  BY <1>2, <1>3, <1>4

(* A service on a network of its own gives up its extra hosts and is       *)
(* noticed, and keeps its ports (editor.go:130-150).                       *)
LEMMA UnsharedCounted ==
  ASSUME EInv, NEW s \in todo, UpdateServiceSessions(s), EditUnshared(s)
  PROVE  Counted' /\ OnOwnNetwork(<<at, s>>)
<1> DEFINE p == <<at, s>>
<1>1. /\ p \in Places /\ ~Edited(p) /\ detail[files[at]][s] = Asked(p)
      /\ \A q \in Places : Edited(q)' <=> Edited(q) \/ q = p
      /\ extraHosts' = extraHosts \cup Asked(p).hosts =>
              extraHosts' = (UNION {Asked(q).hosts : q \in {z \in Places : Edited(z)}})'
  BY EditedOne DEF EditUnshared
<1>2. /\ s # Infra /\ Asked(p).mode \in {"host", "none"} /\ config' = [config EXCEPT !.rmInfra = TRUE]
      /\ extraHosts' = extraHosts \cup Asked(p).hosts /\ UNCHANGED <<taken, singlePort>>
  BY <1>1 DEF EditUnshared, Unshared, ScanForExtraHosts
<1>3. OnOwnNetwork(p)
  BY <1>2 DEF OnOwnNetwork
<1>4. pod \in Pods /\ pod' = pod /\ Counted /\ config \in [ports : Seq(PortRequests), rmInfra : BOOLEAN]
  BY <1>2 DEF UpdateServiceSessions, given, EInv, TInv, PInv, Collected, EditUnshared
<1>5. /\ Places' = Places /\ Requests' = Requests
      /\ \A q : (Asked(q)' = Asked(q)) /\ (OnOwnNetwork(q)' = OnOwnNetwork(q))
      /\ \A r : Request(r)' = Request(r)
  BY <1>4, PodKept
<1>6. \A r \in Requests : Edited(r[1])' <=> Edited(r[1])
  BY <1>1, <1>3, <1>4, RequestFacts
<1>7. config'.ports = config.ports /\ config'.rmInfra
  BY <1>2, <1>4
<1> HIDE DEF p
<1>8. Needing' = Needing /\ \A port : Moved(port)' = Moved(port)
  BY <1>5, <1>6 DEF Needing, Moved, NeedsPort, Last
<1>9. \A port : Arrived(port)' = Arrived(port)
  BY <1>7 DEF Arrived, Last
<1> HIDE DEF Needing, Moved, Arrived, Places, Requests, Edited, Asked, Request, OnOwnNetwork
<1>10. \E q \in Places' : Edited(q)' /\ OnOwnNetwork(q)'
  BY <1>1, <1>3, <1>5
<1>11. taken' = Cardinality(Needing')
  BY <1>2, <1>4, <1>8 DEF Counted
<1>12. ~singlePort' => \A i \in DOMAIN config'.ports : NeedsPort(config'.ports[i])
  BY <1>2, <1>4, <1>7 DEF Counted
<1>13. \A r : Last(Request(r))' = Last(Request(r)) /\ Len(Request(r))' = Len(Request(r))
  BY <1>5 DEF Last
<1>14. {Last(Request(r)) : r \in Requests}' = {Last(Request(r)) : r \in Requests}
  BY <1>5, <1>13
<1>15. \A i \in DOMAIN config.ports : Last(config.ports[i])' = Last(config.ports[i])
  BY <1>7 DEF Last
<1>16. ASSUME \A r \in Requests : Len(Request(r)) < 3
       PROVE  /\ \A i \in DOMAIN config.ports : \E r \in Requests : Last(Request(r)) = Last(config.ports[i])
              /\ \A port \in {Last(Request(r)) : r \in Requests} :
                   Cardinality(Moved(port)') = Cardinality(Arrived(port)')
  BY <1>4, <1>8, <1>9, <1>16 DEF Counted
<1>17. ASSUME \A r \in Requests' : Len(Request(r)') < 3
       PROVE  \A i \in DOMAIN config'.ports : \E r \in Requests' : Last(Request(r))' = Last(config'.ports[i])
  <2>1. \A r \in Requests : Len(Request(r)) < 3
    BY <1>5, <1>17
  <2>2. \A i \in DOMAIN config.ports : \E r \in Requests : Last(Request(r)) = Last(config.ports[i])
    BY <1>16, <2>1
  <2> QED
    BY <1>5, <1>7, <1>13, <2>2
<1>18. ASSUME \A r \in Requests' : Len(Request(r)') < 3
       PROVE  \A port \in {Last(Request(r)) : r \in Requests} : Cardinality(Moved(port)') = Cardinality(Arrived(port)')
  BY <1>5, <1>16, <1>18
<1> QED
  BY <1>1, <1>2, <1>3, <1>7, <1>10, <1>11, <1>12, <1>14, <1>17, <1>18 DEF Counted, p

(* The requests of one more service join those of the services before.     *)
LEMMA NeedingGrows ==
  ASSUME pod \in Pods, NEW p \in Places, ~OnOwnNetwork(p), ~Edited(p)
  PROVE  LET J == {j \in 1..Len(Asked(p).ports) : NeedsPort(Asked(p).ports[j])}
         IN /\ IsFiniteSet(Needing \cup {<<p, j>> : j \in J})
            /\ Cardinality(Needing \cup {<<p, j>> : j \in J}) = Cardinality(Needing) + Cardinality(J)
            /\ {<<p, j>> : j \in J} \subseteq {r \in Requests : NeedsPort(Request(r))}
            /\ Needing \subseteq Requests
<1> DEFINE J == {j \in 1..Len(Asked(p).ports) : NeedsPort(Asked(p).ports[j])}
<1>1. IsFiniteSet(Needing) /\ \A r \in Needing : r[1] # p
  <2>1. \A r \in Needing : r \in Requests /\ Edited(r[1])
    BY DEF Needing
  <2>2. IsFiniteSet(Requests) /\ Needing \subseteq Requests
    BY <2>1, RequestsFinite
  <2> QED
    BY <2>1, <2>2, FS_Subset
<1>2. Len(Asked(p).ports) \in Nat /\ J \in SUBSET (1..Len(Asked(p).ports))
  <2>1. Asked(p).ports \in Seq(PortRequests)
    BY PlaceFacts DEF Sections
  <2> QED
    BY <2>1
<1>3. {<<p, j>> : j \in J} \subseteq {r \in Requests : NeedsPort(Request(r))}
  <2>1. \A j \in J : <<p, j>> \in Requests
    BY RequestFacts
  <2>2. \A j \in J : NeedsPort(Request(<<p, j>>))
    BY DEF Request
  <2> QED
    BY <2>1, <2>2
<1>4. Needing \subseteq Requests
  BY DEF Needing
<1>5. /\ IsFiniteSet(Needing \cup {<<p, j>> : j \in J})
      /\ Cardinality(Needing \cup {<<p, j>> : j \in J}) = Cardinality(Needing) + Cardinality(J)
  <2> DEFINE T == {<<p, j>> : j \in J}
             f == [j \in J |-> <<p, j>>]
  <2>1. f \in [J -> T] /\ (\A t \in T : \E j \in J : f[j] = t) /\ \A i, j \in J : f[i] = f[j] => i = j
    OBVIOUS
  <2>2. IsFiniteSet(J)
    <3>1. IsFiniteSet(1..Len(Asked(p).ports))
      BY <1>2, FS_Interval
    <3> QED
      BY <1>2, <3>1, FS_Subset
  <2>3. \A r \in Needing : r \notin T
    BY <1>1
  <2> HIDE DEF J, T, f
  <2>4. IsFiniteSet(T) /\ Cardinality(T) = Cardinality(J)
    BY <2>1, <2>2, SameSize
  <2>5. IsFiniteSet(Needing \cup T) /\ Cardinality(Needing \cup T) = Cardinality(Needing) + Cardinality(T)
    BY <1>1, <2>3, <2>4, DisjointSum
  <2> QED
    BY <2>4, <2>5 DEF T
<1> QED
  BY <1>3, <1>4, <1>5

(* A launch fails for want of ports when the pod needs more than there are *)
(* (editor.go:198-202).                                                    *)
LEMMA ShortRefused ==
  ASSUME pod \in Pods, offered \in Offers, Counted,
         NEW p \in Places, ~OnOwnNetwork(p), ~Edited(p), Short(Asked(p).ports)
  PROVE  Cardinality({r \in Requests : Len(Request(r)) > 1}) > Len(offered)
<1> DEFINE J == {j \in 1..Len(Asked(p).ports) : NeedsPort(Asked(p).ports[j])}
           N == Needing \cup {<<p, j>> : j \in J}
           All == {r \in Requests : Len(Request(r)) > 1}
<1>1. taken = Cardinality(Needing) /\ taken + Cardinality(J) > Len(offered)
  BY DEF Counted, Short, Rank
<1>2. /\ IsFiniteSet(N) /\ Cardinality(N) = Cardinality(Needing) + Cardinality(J)
      /\ {<<p, j>> : j \in J} \subseteq {r \in Requests : NeedsPort(Request(r))}
  BY NeedingGrows
<1>3. N \subseteq All
  <2>1. Needing \subseteq All
    BY DEF Needing, NeedsPort
  <2>2. {<<p, j>> : j \in J} \subseteq All
    BY <1>2 DEF NeedsPort
  <2> QED
    BY <2>1, <2>2
<1>4. IsFiniteSet(All)
  BY RequestsFinite, FS_Subset
<1> HIDE DEF J, N, All
<1>5. Cardinality(N) <= Cardinality(All) /\ Cardinality(N) \in Nat /\ Cardinality(All) \in Nat
  BY <1>2, <1>3, <1>4, FS_Subset, FS_CardinalityType
<1>6. Len(offered) \in Nat
  BY OfferAssumption
<1> QED
  BY <1>1, <1>2, <1>5, <1>6 DEF All

(* The ports of one more service, each under the port the container        *)
(* listens on, go to the end of those collected (editor.go:198-217).       *)
LEMMA ArrivedGrows ==
  ASSUME EInv, NEW requests \in Seq(PortRequests), ~Short(requests),
         \A j \in 1..Len(requests) : Len(requests[j]) < 3,
         config' = [config EXCEPT !.ports = CollectPorts(Mapped(requests))]
  PROVE  /\ \A i \in DOMAIN config'.ports :
              \/ i \in DOMAIN config.ports /\ config'.ports[i] = config.ports[i]
              \/ \E j \in 1..Len(requests) : Last(config'.ports[i]) = Last(requests[j])
         /\ \A port : Cardinality(Arrived(port)') =
              Cardinality(Arrived(port)) + Cardinality({j \in 1..Len(requests) : Last(requests[j]) = port})
<1> DEFINE old == config.ports
           new == Mapped(requests)
<1>1. /\ offered \in Seq(STRING) /\ taken \in 0..Len(offered) /\ old \in Seq(PortRequests)
      /\ config \in [ports : Seq(PortRequests), rmInfra : BOOLEAN]
  BY OfferAssumption DEF EInv, TInv, PInv, Collected
<1>2. new \in Seq(PortRequests) /\ Len(new) = Len(requests) /\ config'.ports = old \o new
  <2>1. new \in Seq(PortRequests) /\ Len(new) = Len(requests)
    BY <1>1, MappedPorts
  <2>2. config'.ports = CollectPorts(new)
    BY <1>1
  <2> QED
    BY <2>1, <2>2 DEF CollectPorts
<1>3. \A j \in 1..Len(requests) : Last(new[j]) = Last(requests[j])
  <2> SUFFICES ASSUME NEW j \in 1..Len(requests) PROVE Last(new[j]) = Last(requests[j])
    OBVIOUS
  <2>1. CASE new[j] = requests[j]
    BY <2>1
  <2>2. CASE NeedsPort(requests[j]) /\ new[j] = <<offered[Rank(requests, j)], requests[j][2]>>
    <3>1. Len(requests[j]) = 2
      <4> DEFINE l == Len(requests[j])
      <4>1. l \in Nat /\ l < 3
        BY DEF PortRequests
      <4>2. l > 1
        BY <2>2 DEF NeedsPort
      <4> HIDE DEF l
      <4>3. l = 2
        BY <4>1, <4>2
      <4> QED
        BY <4>3 DEF l
    <3> HIDE DEF new
    <3> QED
      BY <2>2, <3>1 DEF Last
  <2> QED
    BY <2>1, <2>2 DEF Mapped
<1> HIDE DEF old, new
<1>4. /\ Len(old) \in Nat /\ Len(requests) \in Nat /\ DOMAIN old = 1..Len(old)
      /\ DOMAIN config'.ports = 1..Len(old) + Len(requests)
      /\ \A i \in 1..Len(old) : config'.ports[i] = old[i]
      /\ \A i \in 1..Len(old) + Len(requests) : i > Len(old) => config'.ports[i] = new[i - Len(old)]
  <2>1. /\ Len(old \o new) = Len(old) + Len(new)
        /\ DOMAIN (old \o new) = 1..Len(old) + Len(new)
        /\ \A i \in 1..Len(old) : (old \o new)[i] = old[i]
        /\ \A i \in 1..Len(old) + Len(new) : i > Len(old) => (old \o new)[i] = new[i - Len(old)]
    BY <1>1, <1>2, Concatenation
  <2>2. Len(old) \in Nat /\ Len(requests) \in Nat /\ DOMAIN old = 1..Len(old)
    BY <1>1
  <2> QED
    BY <1>2, <2>1, <2>2
<1>5. \A i \in DOMAIN config'.ports :
        \/ i \in DOMAIN config.ports /\ config'.ports[i] = config.ports[i]
        \/ \E j \in 1..Len(requests) : Last(config'.ports[i]) = Last(requests[j])
  <2> SUFFICES ASSUME NEW i \in 1..Len(old) + Len(requests), i > Len(old)
               PROVE  \E j \in 1..Len(requests) : Last(config'.ports[i]) = Last(requests[j])
    BY <1>4 DEF old
  <2>1. i - Len(old) \in 1..Len(requests) /\ config'.ports[i] = new[i - Len(old)]
    BY <1>4
  <2> QED
    BY <1>3, <2>1
<1>6. ASSUME NEW port
      PROVE  Cardinality(Arrived(port)') =
               Cardinality(Arrived(port)) + Cardinality({j \in 1..Len(requests) : Last(requests[j]) = port})
  <2> DEFINE J == {j \in 1..Len(requests) : Last(requests[j]) = port}
             A == {i \in 1..Len(old) : Last(old[i]) = port}
             B == {Len(old) + j : j \in J}
  <2>1. Arrived(port) = A
    BY <1>4 DEF Arrived, old
  <2>2. Arrived(port)' = {i \in 1..Len(old) + Len(requests) : Last(config'.ports[i]) = port}
    BY <1>4 DEF Arrived, Last
  <2>3. \A i \in 1..Len(old) : i \in Arrived(port)' <=> i \in A
    BY <1>4, <2>2
  <2>4. \A j \in 1..Len(requests) : Len(old) + j \in Arrived(port)' <=> j \in J
    <3>1. \A j \in 1..Len(requests) : Len(old) + j \in 1..Len(old) + Len(requests)
                                       /\ config'.ports[Len(old) + j] = new[j]
      BY <1>4
    <3> QED
      BY <1>3, <2>2, <3>1
  <2>5. \A i \in 1..Len(old) + Len(requests) : i \in 1..Len(old) \/ \E j \in 1..Len(requests) : i = Len(old) + j
    <3> SUFFICES ASSUME NEW i \in 1..Len(old) + Len(requests), i \notin 1..Len(old)
                 PROVE  \E j \in 1..Len(requests) : i = Len(old) + j
      OBVIOUS
    <3>1. i - Len(old) \in 1..Len(requests) /\ i = Len(old) + (i - Len(old))
      BY <1>4
    <3> QED
      BY <3>1
  <2>6. Arrived(port)' = A \cup B
    <3>1. Arrived(port)' \subseteq 1..Len(old) + Len(requests)
      BY <2>2
    <3>2. A \subseteq 1..Len(old) /\ J \subseteq 1..Len(requests)
      OBVIOUS
    <3> HIDE DEF A, J
    <3>3. \A i \in Arrived(port)' : i \in A \/ \E j \in J : i = Len(old) + j
      BY <2>3, <2>4, <2>5, <3>1
    <3>4. \A i \in A : i \in Arrived(port)'
      BY <2>3, <3>2
    <3>5. \A j \in J : Len(old) + j \in Arrived(port)'
      BY <2>4, <3>2
    <3> QED
      BY <3>3, <3>4, <3>5
  <2> DEFINE f == [j \in J |-> Len(old) + j]
  <2>7. f \in [J -> B] /\ (\A t \in B : \E j \in J : f[j] = t) /\ \A i, j \in J : f[i] = f[j] => i = j
    BY <1>4
  <2>8. IsFiniteSet(J) /\ IsFiniteSet(A)
    <3>1. IsFiniteSet(1..Len(old)) /\ IsFiniteSet(1..Len(requests))
      <4>1. Len(old) \in Int /\ Len(requests) \in Int
        BY <1>4
      <4> QED
        BY <4>1, FS_Interval
    <3>2. A \subseteq 1..Len(old) /\ J \subseteq 1..Len(requests)
      OBVIOUS
    <3> HIDE DEF A, J
    <3> QED
      BY <3>1, <3>2, FS_Subset
  <2>9. \A i \in A : i \notin B
    BY <1>4
  <2> HIDE DEF A, B, J, f
  <2>10. IsFiniteSet(B) /\ Cardinality(B) = Cardinality(J)
    BY <2>7, <2>8, SameSize
  <2>11. Cardinality(A \cup B) = Cardinality(A) + Cardinality(B)
    BY <2>8, <2>9, <2>10, DisjointSum
  <2> QED
    BY <2>1, <2>6, <2>10, <2>11 DEF J
<1> QED
  BY <1>5, <1>6

(* A service that joins the infra container hands over its extra hosts and *)
(* its ports, as many as it asked for (editor.go:150-230).                 *)
LEMMA SharedCounted ==
  ASSUME EInv, NEW s \in todo, UpdateServiceSessions(s), EditShared(s), ~Short(detail[files[at]][s].ports)
  PROVE  Counted' /\ ~OnOwnNetwork(<<at, s>>)
<1> DEFINE p == <<at, s>>
           requests == Asked(p).ports
<1>1. s # Infra /\ pc' = pc /\ todo' = todo \ {s}
  BY DEF EditShared
<1>2. /\ p \in Places /\ ~Edited(p) /\ detail[files[at]][s] = Asked(p)
      /\ \A q \in Places : Edited(q)' <=> Edited(q) \/ q = p
      /\ extraHosts' = extraHosts \cup Asked(p).hosts =>
              extraHosts' = (UNION {Asked(q).hosts : q \in {z \in Places : Edited(z)}})'
  BY <1>1, EditedOne
<1>3. /\ ~OnOwnNetwork(p) /\ ~Short(requests)
      /\ extraHosts' = extraHosts \cup Asked(p).hosts
      /\ singlePort' = (singlePort \/ SawSingle(requests))
      /\ taken' = Rank(requests, Len(requests))
      /\ config' = [config EXCEPT !.ports = CollectPorts(Mapped(requests))]
  BY <1>2 DEF EditShared, Unshared, ScanForExtraHosts, OnOwnNetwork
<1>4. /\ pod \in Pods /\ pod' = pod /\ Counted /\ config \in [ports : Seq(PortRequests), rmInfra : BOOLEAN]
      /\ offered \in Offers /\ offered \in Seq(STRING) /\ taken \in 0..Len(offered)
  BY <1>1, OfferAssumption DEF UpdateServiceSessions, given, EInv, TInv, PInv, Collected
<1>5. /\ Places' = Places /\ Requests' = Requests
      /\ \A q : (Asked(q)' = Asked(q)) /\ (OnOwnNetwork(q)' = OnOwnNetwork(q))
      /\ \A r : Request(r)' = Request(r)
  BY <1>4, PodKept
<1>6. /\ requests \in Seq(PortRequests) /\ Len(requests) \in Nat /\ DOMAIN requests = 1..Len(requests)
  <2>1. requests \in Seq(PortRequests)
    BY <1>2, <1>4, PlaceFacts DEF Sections
  <2> QED
    BY <2>1
<1>7. /\ \A r \in Requests : /\ r[1] \in Places /\ r = <<r[1], r[2]>>
                             /\ r[1] = p => r[2] \in 1..Len(requests)
      /\ \A j \in 1..Len(requests) : <<p, j>> \in Requests /\ Request(<<p, j>>) = requests[j]
  <2>1. \A j \in 1..Len(requests) : <<p, j>> \in Requests
    BY <1>2, <1>3, <1>4, RequestFacts
  <2>2. \A r \in Requests : r[1] \in Places /\ r = <<r[1], r[2]>> /\ r[2] \in 1..Len(Asked(r[1]).ports)
    BY <1>4, RequestFacts
  <2> QED
    BY <2>1, <2>2 DEF Request
<1> HIDE DEF p, requests
<1>8. config'.ports = CollectPorts(Mapped(requests)) /\ config'.rmInfra = config.rmInfra
  BY <1>3, <1>4
<1>9. taken' = Cardinality(Needing')
  <2> DEFINE J == {j \in 1..Len(requests) : NeedsPort(requests[j])}
  <2>1. Needing' = Needing \cup {<<p, j>> : j \in J}
    <3>1. Needing' = {r \in Requests : Edited(r[1])' /\ NeedsPort(Request(r))}
      BY <1>5 DEF Needing, NeedsPort
    <3>2. \A r \in Requests : Edited(r[1])' <=> Edited(r[1]) \/ r[1] = p
      BY <1>2, <1>7
    <3>3. ASSUME NEW r, r \in Requests, r[1] = p, NeedsPort(Request(r))
          PROVE  r \in {<<p, j>> : j \in J}
      BY <1>7, <3>3
    <3>4. ASSUME NEW j \in J
          PROVE  <<p, j>> \in Requests /\ <<p, j>>[1] = p /\ NeedsPort(Request(<<p, j>>))
      BY <1>7
    <3> HIDE DEF J
    <3> QED
      BY <3>1, <3>2, <3>3, <3>4 DEF Needing
  <2>2. Cardinality(Needing \cup {<<p, j>> : j \in J}) = Cardinality(Needing) + Cardinality(J)
    BY <1>2, <1>3, <1>4, NeedingGrows DEF requests
  <2>3. taken = Cardinality(Needing) /\ taken' = taken + Cardinality(J)
    BY <1>3, <1>4 DEF Counted, Rank
  <2> QED
    BY <2>1, <2>2, <2>3
<1>10. ~singlePort' => \A i \in DOMAIN config'.ports : NeedsPort(config'.ports[i])
  <2> SUFFICES ASSUME ~singlePort' PROVE \A i \in DOMAIN config'.ports : NeedsPort(config'.ports[i])
    OBVIOUS
  <2> DEFINE new == Mapped(requests)
             old == config.ports
  <2>1. ~singlePort /\ ~SawSingle(requests)
    BY <1>3
  <2>2. \A i \in DOMAIN old : NeedsPort(old[i])
    BY <1>4, <2>1 DEF Counted
  <2>3. /\ new \in Seq(PortRequests) /\ Len(new) = Len(requests)
        /\ Rank(requests, Len(requests)) \in taken..Len(offered)
    BY <1>3, <1>4, <1>6, MappedPorts
  <2>4. ASSUME NEW j \in 1..Len(requests) PROVE NeedsPort(new[j])
    <3>1. Rank(requests, j) <= Rank(requests, Len(requests)) /\ Rank(requests, j) \in Nat
      BY <1>4, <1>6, RankGrows
    <3>2. Rank(requests, j) <= Len(offered)
      BY <1>4, <2>3, <3>1
    <3>3. NeedsPort(requests[j])
      BY <1>6, <2>1, <3>2 DEF SawSingle
    <3>4. new[j] = <<offered[Rank(requests, j)], requests[j][2]>>
      BY <1>6, <3>2, <3>3 DEF Mapped
    <3> HIDE DEF new
    <3> QED
      BY <3>4 DEF NeedsPort
  <2> HIDE DEF new
  <2>5. config'.ports = old \o new /\ old \in Seq(PortRequests)
    BY <1>4, <1>8 DEF CollectPorts, new
  <2> HIDE DEF old
  <2>6. /\ DOMAIN (old \o new) = 1..Len(old) + Len(new)
        /\ \A i \in 1..Len(old) : (old \o new)[i] = old[i]
        /\ \A i \in 1..Len(old) + Len(new) : i > Len(old) => (old \o new)[i] = new[i - Len(old)]
    BY <2>3, <2>5, Concatenation
  <2>7. Len(old) \in Nat /\ DOMAIN old = 1..Len(old)
    BY <2>5
  <2>8. ASSUME NEW i \in 1..Len(old) + Len(new) PROVE NeedsPort((old \o new)[i])
    <3>1. CASE i \in 1..Len(old)
      BY <2>2, <2>6, <2>7, <3>1
    <3>2. CASE i > Len(old)
      <4>1. i - Len(old) \in 1..Len(requests)
        BY <1>6, <2>3, <2>7, <3>2
      <4> QED
        BY <2>4, <2>6, <3>2, <4>1
    <3> QED
      BY <2>7, <3>1, <3>2
  <2> QED
    BY <2>5, <2>6, <2>8
<1>11. {Last(Request(r)) : r \in Requests}' = {Last(Request(r)) : r \in Requests}
  BY <1>5 DEF Last
<1>12. ASSUME \A r \in Requests : Len(Request(r)) < 3
       PROVE  /\ \A i \in DOMAIN config'.ports : \E r \in Requests : Last(Request(r)) = Last(config'.ports[i])
              /\ \A port \in {Last(Request(r)) : r \in Requests} :
                   Cardinality(Moved(port)') = Cardinality(Arrived(port)')
  <2>1. \A j \in 1..Len(requests) : Len(requests[j]) < 3
    BY <1>7, <1>12
  <2>2. /\ \A i \in DOMAIN config'.ports :
              \/ i \in DOMAIN config.ports /\ config'.ports[i] = config.ports[i]
              \/ \E j \in 1..Len(requests) : Last(config'.ports[i]) = Last(requests[j])
        /\ \A port : Cardinality(Arrived(port)') =
              Cardinality(Arrived(port)) + Cardinality({j \in 1..Len(requests) : Last(requests[j]) = port})
    BY <1>3, <1>6, <2>1, ArrivedGrows
  <2>3. /\ \A i \in DOMAIN config.ports : \E r \in Requests : Last(Request(r)) = Last(config.ports[i])
        /\ \A port \in {Last(Request(r)) : r \in Requests} : Cardinality(Moved(port)) = Cardinality(Arrived(port))
    BY <1>4, <1>12 DEF Counted
  <2>4. ASSUME NEW i \in DOMAIN config'.ports
        PROVE  \E r \in Requests : Last(Request(r)) = Last(config'.ports[i])
    <3>1. CASE i \in DOMAIN config.ports /\ config'.ports[i] = config.ports[i]
      BY <2>3, <3>1
    <3>2. ASSUME NEW j \in 1..Len(requests), Last(config'.ports[i]) = Last(requests[j])
          PROVE  \E r \in Requests : Last(Request(r)) = Last(config'.ports[i])
      <4>1. <<p, j>> \in Requests /\ Last(Request(<<p, j>>)) = Last(config'.ports[i])
        BY <1>7, <3>2
      <4> QED
        BY <4>1
    <3> QED
      BY <2>2, <3>1, <3>2
  <2>5. ASSUME NEW port
        PROVE  Cardinality(Moved(port)') = Cardinality(Moved(port)) + Cardinality({j \in 1..Len(requests) : Last(requests[j]) = port})
    <3> DEFINE J == {j \in 1..Len(requests) : Last(requests[j]) = port}
               T == {<<p, j>> : j \in J}
               f == [j \in J |-> <<p, j>>]
    <3>1. Moved(port)' = {r \in Requests : Edited(r[1])' /\ Last(Request(r)) = port}
      BY <1>5 DEF Moved, Last
    <3>2. \A r \in Requests : Edited(r[1])' <=> Edited(r[1]) \/ r[1] = p
      BY <1>2, <1>7
    <3>3. ASSUME NEW r, r \in Requests, r[1] = p, Last(Request(r)) = port
          PROVE  r \in T
      BY <1>7, <3>3
    <3>4. ASSUME NEW j \in J
          PROVE  <<p, j>> \in Requests /\ <<p, j>>[1] = p /\ Last(Request(<<p, j>>)) = port
      BY <1>7
    <3>5. f \in [J -> T] /\ (\A t \in T : \E j \in J : f[j] = t) /\ \A i, j \in J : f[i] = f[j] => i = j
      OBVIOUS
    <3>6. J \subseteq 1..Len(requests) /\ \A t \in T : t[1] = p
      OBVIOUS
    <3> HIDE DEF J, f
    <3>7. Moved(port)' = Moved(port) \cup T
      BY <3>1, <3>2, <3>3, <3>4 DEF Moved
    <3> HIDE DEF T
    <3>8. IsFiniteSet(J)
      <4>1. IsFiniteSet(1..Len(requests))
        BY <1>6, FS_Interval
      <4> QED
        BY <3>6, <4>1, FS_Subset
    <3>9. IsFiniteSet(T) /\ Cardinality(T) = Cardinality(J)
      BY <3>5, <3>8, SameSize
    <3>10. IsFiniteSet(Moved(port))
      <4>1. Moved(port) \subseteq Requests /\ IsFiniteSet(Requests)
        BY <1>4, RequestsFinite DEF Moved
      <4> QED
        BY <4>1, FS_Subset
    <3>11. \A r \in Moved(port) : r \notin T
      BY <1>2, <3>6 DEF Moved
    <3>12. Cardinality(Moved(port) \cup T) = Cardinality(Moved(port)) + Cardinality(T)
      BY <3>9, <3>10, <3>11, DisjointSum
    <3> QED
      BY <3>7, <3>9, <3>12 DEF J
  <2> QED
    BY <2>2, <2>3, <2>4, <2>5
<1>13. config'.rmInfra <=> \E q \in Places' : Edited(q)' /\ OnOwnNetwork(q)'
  <2>1. config.rmInfra <=> \E q \in Places : Edited(q) /\ OnOwnNetwork(q)
    BY <1>4 DEF Counted
  <2> QED
    BY <1>2, <1>3, <1>5, <1>8, <2>1
<1> HIDE DEF Needing, Moved, Arrived, Places, Requests, Edited, Asked, Request, OnOwnNetwork
<1>14. \A r : Last(Request(r))' = Last(Request(r)) /\ Len(Request(r))' = Len(Request(r))
  BY <1>5 DEF Last
<1>15. ASSUME \A r \in Requests' : Len(Request(r)') < 3
       PROVE  /\ \A i \in DOMAIN config'.ports : \E r \in Requests' : Last(Request(r))' = Last(config'.ports[i])
              /\ \A port \in {Last(Request(r)) : r \in Requests} : Cardinality(Moved(port)') = Cardinality(Arrived(port)')
  <2>1. \A r \in Requests : Len(Request(r)) < 3
    BY <1>5, <1>15
  <2>2. \A i \in DOMAIN config'.ports : \E r \in Requests : Last(Request(r)) = Last(config'.ports[i])
    BY <1>12, <2>1
  <2>3. \A port \in {Last(Request(r)) : r \in Requests} : Cardinality(Moved(port)') = Cardinality(Arrived(port)')
    BY <1>12, <2>1
  <2> QED
    BY <1>5, <1>14, <2>2, <2>3
<1> QED
  BY <1>2, <1>3, <1>9, <1>10, <1>11, <1>13, <1>15 DEF Counted, p

-----------------------------------------------------------------------------
(* The invariant                                                           *)

LEMMA EInit == Init => EInv
<1> SUFFICES ASSUME Init PROVE EInv
  OBVIOUS
<1>1. TInv
  BY TypesInit
<1>2. /\ pod \in Pods /\ at = 1 /\ pc = "create" /\ error = "none" /\ edited = <<>>
      /\ taken = 0 /\ extraHosts = {} /\ config.ports = <<>> /\ config.rmInfra = FALSE
  BY DEF Init
<1>3. Len(pod) \in Nat /\ DOMAIN pod = 1..Len(pod)
  BY <1>2, PodFacts
<1>4. \A i \in 1..Len(pod) : Given(i) \in DOMAIN detail /\ detail[Given(i)] = pod[i]
  <2>1. \A i \in 1..Len(pod) : files[i] = Given(i) /\ Given(i) \in Range(files)
    BY <1>3 DEF Init, Range
  <2> QED
    BY <2>1, Names DEF Init
<1>5. \A p \in Places : ~Edited(p)
  BY <1>2, <1>3, PlaceFacts DEF Edited
<1>6. ServicesMade
  <2>1. \A i \in 1..Len(pod) : NameNow(i) = Given(i)
    BY <1>2 DEF NameNow
  <2>2. \A i \in 1..Len(pod) : \A s \in DOMAIN pod[i] : Made(<<i, s>>) = pod[i][s]
    <3>1. \A i \in 1..Len(pod) : \A s \in DOMAIN pod[i] : <<i, s>> \in Places
      BY <1>2, PodFacts DEF Places
    <3> QED
      BY <1>5, <3>1 DEF Made, Asked
  <2> QED
    BY <1>4, <2>1, <2>2 DEF ServicesMade
<1>7. InfraMade
  BY <1>2 DEF InfraMade, Done
<1>8. ListedFiles
  BY <1>2, <1>3 DEF ListedFiles, EditedFiles, Done
<1>9. Counted
  <2>1. \A r \in Requests : ~Edited(r[1])
    BY <1>2, <1>5, RequestFacts
  <2>2. Needing = {} /\ \A port : Moved(port) = {} /\ Arrived(port) = {}
    BY <1>2, <2>1 DEF Needing, Moved, Arrived
  <2>3. {p \in Places : Edited(p)} = {}
    BY <1>5
  <2>4. taken = Cardinality(Needing) /\ \A port : Cardinality(Moved(port)) = Cardinality(Arrived(port))
    BY <1>2, <2>2, FS_EmptySet
  <2>5. extraHosts = UNION {Asked(p).hosts : p \in {q \in Places : Edited(q)}}
    BY <1>2, <2>3
  <2>6. DOMAIN config.ports = {}
    BY <1>2
  <2> HIDE DEF Needing, Moved, Arrived
  <2> QED
    BY <1>2, <1>5, <2>4, <2>5, <2>6 DEF Counted
<1> QED
  BY <1>1, <1>2, <1>6, <1>7, <1>8, <1>9 DEF EInv, PortsRefused, WrittenLast

(* A failure leaves nothing to say but why ports were refused.             *)
LEMMA Failed ==
  ASSUME TInv', pc' = "failed", error' # "ports"
  PROVE  EInv'
  BY DEF EInv, PortsRefused, WrittenLast

(* A step on which no ports are refused, and which writes what it leaves.  *)
LEMMA Goes ==
  ASSUME EInv, TInv', UNCHANGED pod, pc' # "failed", error' = error \/ error' = "write",
         UNCHANGED offered, ServicesMade', InfraMade', ListedFiles', Counted', WrittenLast'
  PROVE  EInv'
<1>1. PortsRefused'
  <2>1. Requests' = Requests /\ \A r : Request(r)' = Request(r)
    BY PodKept
  <2> QED
    BY <2>1 DEF PortsRefused, EInv
<1> QED
  BY <1>1 DEF EInv

LEMMA CreateStep == ASSUME EInv, CreateInfraContainer, TInv' PROVE EInv'
<1>1. CASE Fail("setup")
  BY <1>1, Failed DEF Fail
<1>2. CASE pc' = "file" /\ UNCHANGED error
  <2>1. /\ pc = "create" /\ UNCHANGED <<pod, offered, at, todo, edited>> /\ UNCHANGED found
        /\ pod \in Pods /\ Len(pod) \in Nat /\ at = 1
        /\ ServicesMade /\ ListedFiles /\ Counted
    BY <1>2, PodFacts DEF CreateInfraContainer, given, loop, EInv, TInv, PInv, ListedFiles
  <2>2. /\ DOMAIN detail' = DOMAIN detail \cup {InfraFile}
        /\ \A n \in DOMAIN detail' : detail'[n] = (IF n = InfraFile THEN [s \in {Infra} |-> InfraService]
                                                                   ELSE detail[n])
    BY <1>2 DEF CreateInfraContainer, Fail
  <2>3. \A p \in Places : Edited(p)' <=> Edited(p)
    BY <1>2, <2>1 DEF Edited
  <2>4. \A i \in 1..Len(pod) : NameNow(i)' = NameNow(i) /\ NameNow(i) = Given(i) /\ NameNow(i) # InfraFile
    BY <2>1, Names DEF NameNow
  <2>5. ServicesMade'
    <3>1. \A i \in 1..Len(pod) : NameNow(i) \in DOMAIN detail
      BY <2>1 DEF ServicesMade
    <3> QED
      BY <2>1, <2>2, <2>3, <2>4, <3>1, ServicesKept
  <2>6. InfraMade'
    <3>1. NameNow(Len(pod) + 1)' = InfraFile
      BY <2>1 DEF NameNow, InfraFile
    <3>2. ~Edited(<<Len(pod) + 1, Infra>>)'
      BY <1>2, <2>1 DEF Edited
    <3>3. InfraFile \in DOMAIN detail' /\ DOMAIN detail'[InfraFile] = {Infra}
      BY <2>2
    <3> QED
      BY <1>2, <2>1, <3>1, <3>2, <3>3 DEF InfraMade, Done
  <2>7. ListedFiles'
    BY <1>2, <2>1, PodKept DEF ListedFiles, EditedFiles, Done
  <2>8. Counted'
    BY <2>1, <2>3, CountedKept
  <2>9. WrittenLast'
    BY <1>2 DEF WrittenLast
  <2> QED
    BY <1>2, <2>1, <2>5, <2>6, <2>7, <2>8, <2>9, Goes
<1> QED
  BY <1>1, <1>2 DEF CreateInfraContainer

(* What holds while files are opened, closed and passed over.              *)
LEMMA FileFacts ==
  ASSUME EInv, pc \in {"file", "service"}, at <= Len(files)
  PROVE  /\ pod \in Pods /\ Len(pod) \in Nat /\ at \in 1..Len(pod) + 1 /\ Len(files) = Len(pod) + 1
         /\ files[at] = Given(at) /\ files[at] \in DOMAIN detail
         /\ NameNow(at) = Given(at)
         /\ at \in 1..Len(pod) => DOMAIN detail[files[at]] = DOMAIN pod[at]
         /\ at = Len(pod) + 1 => DOMAIN detail[files[at]] = {Infra}
         /\ HasServices(files[at]) <=> HasContent(at)
         /\ ServicesMade /\ InfraMade /\ ListedFiles /\ Counted
<1>1. /\ pod \in Pods /\ PInv /\ ServicesMade /\ InfraMade /\ ListedFiles /\ Counted
  BY DEF EInv, TInv, PInv
<1>2. /\ Len(pod) \in Nat /\ at \in 1..Len(pod) + 1 /\ Len(files) = Len(pod) + 1
      /\ files[at] = Given(at) /\ files[at] \in DOMAIN detail
  BY <1>1, Current
<1>3. NameNow(at) = Given(at)
  BY <1>2 DEF NameNow
<1>4. at \in 1..Len(pod) => DOMAIN detail[files[at]] = DOMAIN pod[at]
  BY <1>1, <1>2, <1>3 DEF ServicesMade
<1>5. at = Len(pod) + 1 => DOMAIN detail[files[at]] = {Infra}
  BY <1>1, <1>2, <1>3 DEF InfraMade
<1>6. HasServices(files[at]) <=> HasContent(at)
  <2>1. CASE at = Len(pod) + 1
    BY <1>5, <2>1 DEF HasServices, HasContent
  <2>2. CASE at \in 1..Len(pod)
    <3>1. at # Len(pod) + 1
      BY <1>2, <2>2
    <3> QED
      BY <1>4, <2>2, <3>1 DEF HasServices, HasContent
  <2> QED
    BY <1>2, <2>1, <2>2
<1> QED
  BY <1>1, <1>2, <1>3, <1>4, <1>5, <1>6

LEMMA SkipStep == ASSUME EInv, SkipFile, TInv' PROVE EInv'
<1>1. /\ pc = "file" /\ pc' = "file" /\ at' = at + 1 /\ at <= Len(files) /\ ~HasServices(files[at])
      /\ UNCHANGED <<pod, offered, files, detail, edited, todo, error>> /\ UNCHANGED found
  BY DEF SkipFile, given
<1>2. /\ pod \in Pods /\ Len(pod) \in Nat /\ at \in 1..Len(pod) + 1 /\ NameNow(at) = Given(at)
      /\ ServicesMade /\ InfraMade /\ ListedFiles /\ Counted /\ ~HasContent(at)
  BY <1>1, FileFacts
<1>3. at \in 1..Len(pod) /\ DOMAIN pod[at] = {}
  BY <1>2 DEF HasContent
<1>4. \A p \in Places : Edited(p)' <=> Edited(p)
  <2>1. \A p \in Places : p[1] \in 1..Len(pod) /\ p[1] # at
    BY <1>2, <1>3, PlaceFacts
  <2> QED
    BY <1>1, <1>3, <2>1 DEF Edited
<1>5. \A i \in 1..Len(pod) + 1 : NameNow(i)' = NameNow(i)
  BY <1>1, <1>2, <1>3, PodKept DEF NameNow
<1>6. ServicesMade'
  <2>1. \A i \in 1..Len(pod) : NameNow(i)' = NameNow(i) /\ NameNow(i) \in DOMAIN detail
    BY <1>2, <1>5 DEF ServicesMade
  <2> QED
    BY <1>1, <1>2, <1>4, <2>1, ServicesKept
<1>7. InfraMade'
  <2>1. NameNow(Len(pod) + 1)' = NameNow(Len(pod) + 1)
    BY <1>1, <1>2, <1>3, PodKept DEF NameNow
  <2>2. ~Edited(<<Len(pod) + 1, Infra>>)'
    BY <1>1, <1>2, <1>3 DEF Edited
  <2> QED
    BY <1>1, <1>2, <2>1, <2>2 DEF InfraMade, Done
<1>8. ListedFiles'
  <2>1. EditedFiles /\ Len(edited) \in Nat /\ edited \in Seq({Generated(Given(i)) : i \in 1..Len(pod) + 1})
    BY <1>1, <1>2 DEF ListedFiles, EInv, TInv
  <2>2. EditedFiles'
    <3>1. \A i : HasContent(i)' = HasContent(i) /\ Generated(Given(i))' = Generated(Given(i))
      BY <1>1, PodKept
    <3>2. \A k \in DOMAIN edited : \E i \in k..at' - 1 : HasContent(i) /\ edited[k] = Generated(Given(i))
      <4> SUFFICES ASSUME NEW k \in DOMAIN edited
                   PROVE  \E i \in k..at' - 1 : HasContent(i) /\ edited[k] = Generated(Given(i))
        OBVIOUS
      <4>1. PICK i \in k..at - 1 : HasContent(i) /\ edited[k] = Generated(Given(i))
        BY <2>1 DEF EditedFiles
      <4>2. i \in k..at' - 1
        BY <1>1, <1>2, <2>1
      <4> QED
        BY <4>1, <4>2
    <3>3. \A i \in 1..at' - 1 : HasContent(i) => Generated(Given(i)) \in Range(edited)
      BY <1>1, <1>2, <2>1 DEF EditedFiles
    <3>4. Len(edited) < at' /\ \A k, l \in DOMAIN edited : k # l => edited[k] # edited[l]
      BY <1>1, <1>2, <2>1 DEF EditedFiles
    <3> HIDE DEF HasContent, Generated, Given
    <3> QED
      BY <1>1, <3>1, <3>2, <3>3, <3>4 DEF EditedFiles
  <2> QED
    BY <1>1, <2>2 DEF ListedFiles, Done
<1>9. Counted'
  BY <1>1, <1>2, <1>4, CountedKept
<1>10. WrittenLast'
  BY <1>1 DEF WrittenLast
<1> QED
  BY <1>1, <1>6, <1>7, <1>8, <1>9, <1>10, Goes

LEMMA OpenStep == ASSUME EInv, OpenFile, TInv' PROVE EInv'
<1>1. /\ pc = "file" /\ pc' = "service" /\ at <= Len(files) /\ HasServices(files[at])
      /\ todo' = DOMAIN detail[files[at]]
      /\ UNCHANGED <<pod, offered, files, detail, edited, at, error>> /\ UNCHANGED found
  BY DEF OpenFile, given
<1>2. /\ pod \in Pods /\ Len(pod) \in Nat /\ at \in 1..Len(pod) + 1 /\ NameNow(at) = Given(at)
      /\ ServicesMade /\ InfraMade /\ ListedFiles /\ Counted /\ HasContent(at)
      /\ at \in 1..Len(pod) => todo' = DOMAIN pod[at]
      /\ at = Len(pod) + 1 => todo' = {Infra}
  BY <1>1, FileFacts
<1>3. \A p \in Places : Edited(p)' <=> Edited(p)
  <2>1. \A p \in Places : p[1] \in 1..Len(pod) /\ p[2] \in DOMAIN pod[p[1]]
    BY <1>2, PlaceFacts
  <2> QED
    BY <1>1, <1>2, <2>1 DEF Edited
<1>4. \A i : NameNow(i)' = NameNow(i)
  BY <1>1, PodKept DEF NameNow
<1>5. ServicesMade'
  <2>1. \A i \in 1..Len(pod) : NameNow(i) \in DOMAIN detail
    BY <1>2 DEF ServicesMade
  <2> QED
    BY <1>1, <1>2, <1>3, <1>4, <2>1, ServicesKept
<1>6. InfraMade'
  <2>1. ~Edited(<<Len(pod) + 1, Infra>>)'
    BY <1>1, <1>2 DEF Edited
  <2>2. NameNow(Len(pod) + 1)' = NameNow(Len(pod) + 1)
    BY <1>1, PodKept DEF NameNow
  <2> QED
    BY <1>1, <1>2, <2>1, <2>2 DEF InfraMade, Done
<1>7. ListedFiles'
  BY <1>1, <1>2, PodKept DEF ListedFiles, EditedFiles, Done
<1>8. Counted'
  BY <1>1, <1>2, <1>3, CountedKept
<1>9. WrittenLast'
  BY <1>1 DEF WrittenLast
<1> QED
  BY <1>1, <1>5, <1>6, <1>7, <1>8, <1>9, Goes

(* The file that is done is found under its new name (editor.go:86-92).    *)
LEMMA CloseStep == ASSUME EInv, CloseFile, TInv' PROVE EInv'
<1>1. /\ pc = "service" /\ pc' = "file" /\ at' = at + 1 /\ at <= Len(files) /\ todo = {}
      /\ UNCHANGED <<pod, offered, files, todo, error>> /\ UNCHANGED found
      /\ edited' = Append(edited, Generated(files[at]))
  BY DEF CloseFile, given, EInv, TInv, PInv, Unedited
<1>2. /\ pod \in Pods /\ Len(pod) \in Nat /\ at \in 1..Len(pod) + 1 /\ NameNow(at) = Given(at)
      /\ files[at] = Given(at) /\ files[at] \in DOMAIN detail
      /\ ServicesMade /\ InfraMade /\ ListedFiles /\ Counted /\ HasContent(at)
  <2>1. HasContent(at)
    BY <1>1 DEF EInv, ListedFiles
  <2> QED
    BY <1>1, <2>1, FileFacts
<1> DEFINE new == Generated(Given(at))
<1>3. Generated(files[at]) = new
  BY <1>2
<1>4. /\ DOMAIN detail' = (DOMAIN detail \ {Given(at)}) \cup {new}
      /\ \A n \in DOMAIN detail' : detail'[n] = (IF n = new THEN detail[Given(at)] ELSE detail[n])
  BY <1>2, <1>3 DEF CloseFile
<1>5. \A p \in Places : Edited(p)' <=> Edited(p)
  <2>1. \A p \in Places : p[1] \in 1..Len(pod)
    BY <1>2, PlaceFacts
  <2> QED
    BY <1>1, <1>2, <2>1 DEF Edited
<1>6. \A i \in 1..Len(pod) + 1 : NameNow(i)' = IF i = at THEN new ELSE NameNow(i)
  BY <1>1, <1>2, PodKept DEF NameNow
<1>7. \A i \in 1..Len(pod) + 1 : i # at => NameNow(i) # Given(at) /\ NameNow(i) # new
  BY Names DEF NameNow
<1> HIDE DEF new
<1>8. \A i \in 1..Len(pod) + 1 : NameNow(i) \in DOMAIN detail =>
        NameNow(i)' \in DOMAIN detail' /\ detail'[NameNow(i)'] = detail[NameNow(i)]
  <2> SUFFICES ASSUME NEW i \in 1..Len(pod) + 1, NameNow(i) \in DOMAIN detail
               PROVE  NameNow(i)' \in DOMAIN detail' /\ detail'[NameNow(i)'] = detail[NameNow(i)]
    OBVIOUS
  <2>1. CASE i = at
    BY <1>2, <1>4, <1>6, <2>1
  <2>2. CASE i # at
    BY <1>4, <1>6, <1>7, <2>2
  <2> QED
    BY <2>1, <2>2
<1>9. ServicesMade'
  <2>1. \A i \in 1..Len(pod) : NameNow(i) \in DOMAIN detail
    BY <1>2 DEF ServicesMade
  <2> HIDE DEF NameNow
  <2>2. \A i \in 1..Len(pod) : NameNow(i)' \in DOMAIN detail' /\ detail'[NameNow(i)'] = detail[NameNow(i)]
    BY <1>2, <1>8, <2>1
  <2> QED
    BY <1>1, <1>2, <1>5, <2>2, ServicesKept
<1>10. InfraMade'
  <2> DEFINE infra == NameNow(Len(pod) + 1)
             infra2 == IF at = Len(pod) + 1 THEN new ELSE infra
  <2>1. /\ infra \in DOMAIN detail /\ DOMAIN detail[infra] = {Infra}
        /\ Edited(<<Len(pod) + 1, Infra>>) => detail[infra][Infra].ports = config.ports
    BY <1>1, <1>2 DEF InfraMade
  <2>2. NameNow(Len(pod) + 1)' = infra2
    BY <1>1, <1>2, PodKept DEF NameNow, new
  <2>3. infra2 \in DOMAIN detail' /\ detail'[infra2] = detail[infra]
    BY <1>2, <1>4, <1>7, <2>1
  <2>4. Edited(<<Len(pod) + 1, Infra>>)' => Edited(<<Len(pod) + 1, Infra>>)
    BY <1>1, <1>2 DEF Edited
  <2> HIDE DEF infra, infra2, Edited, NameNow
  <2>5. Edited(<<Len(pod) + 1, Infra>>)' => detail'[infra2][Infra].ports = config.ports
    BY <2>1, <2>3, <2>4
  <2>6. config' = config /\ DOMAIN detail'[infra2] = {Infra}
    BY <1>1, <2>1, <2>3 DEF found
  <2> QED
    BY <1>1, <2>2, <2>3, <2>5, <2>6 DEF InfraMade, Done
<1>11. ListedFiles'
  <2> DEFINE Good == {Generated(Given(i)) : i \in 1..Len(pod) + 1}
  <2>1. EditedFiles /\ edited \in Seq(Good) /\ new \in Good
    BY <1>1, <1>2 DEF ListedFiles, EInv, TInv, new
  <2> HIDE DEF Good
  <2>2. /\ Len(edited) \in Nat /\ DOMAIN edited = 1..Len(edited)
        /\ DOMAIN edited' = 1..Len(edited) + 1 /\ Len(edited') = Len(edited) + 1
        /\ \A k \in DOMAIN edited : edited'[k] = edited[k]
        /\ edited'[Len(edited) + 1] = new
    BY <1>1, <1>3, <2>1
  <2>3. \A i : HasContent(i)' = HasContent(i) /\ Generated(Given(i))' = Generated(Given(i))
    BY <1>1, PodKept
  <2>4. /\ Len(edited) < at
        /\ \A k \in DOMAIN edited : \E i \in k..at - 1 : HasContent(i) /\ edited[k] = Generated(Given(i))
        /\ \A k, l \in DOMAIN edited : k # l => edited[k] # edited[l]
        /\ \A i \in 1..at - 1 : HasContent(i) => Generated(Given(i)) \in Range(edited)
    BY <2>1 DEF EditedFiles
  <2>5. Len(edited') < at'
    BY <1>1, <1>2, <2>2, <2>4
  <2>6. \A k \in DOMAIN edited' : \E i \in k..at' - 1 : HasContent(i) /\ edited'[k] = Generated(Given(i))
    <3>1. ASSUME NEW k \in DOMAIN edited
          PROVE  \E i \in k..at' - 1 : HasContent(i) /\ edited'[k] = Generated(Given(i))
      <4>1. PICK i \in k..at - 1 : HasContent(i) /\ edited[k] = Generated(Given(i))
        BY <2>4
      <4>2. i \in k..at' - 1 /\ edited'[k] = edited[k]
        BY <1>1, <1>2, <2>2
      <4> QED
        BY <4>1, <4>2
    <3>2. at \in Len(edited) + 1..at' - 1
      BY <1>1, <1>2, <2>2, <2>4
    <3>3. \E i \in Len(edited) + 1..at' - 1 : HasContent(i) /\ edited'[Len(edited) + 1] = Generated(Given(i))
      BY <1>2, <2>2, <3>2 DEF new
    <3>4. \A k \in DOMAIN edited' : k \in DOMAIN edited \/ k = Len(edited) + 1
      BY <2>2
    <3> QED
      BY <3>1, <3>3, <3>4
  <2>7. \A k \in DOMAIN edited : edited[k] # new
    <3> SUFFICES ASSUME NEW k \in DOMAIN edited PROVE edited[k] # new
      OBVIOUS
    <3>1. PICK i \in k..at - 1 : edited[k] = Generated(Given(i))
      BY <2>4
    <3>2. i # at
      BY <1>2, <2>2
    <3> QED
      BY <3>1, <3>2, Names DEF new
  <2>8. \A k, l \in DOMAIN edited' : k # l => edited'[k] # edited'[l]
    <3>1. \A k \in DOMAIN edited' : k \in DOMAIN edited \/ k = Len(edited) + 1
      BY <2>2
    <3> QED
      BY <2>2, <2>4, <2>7, <3>1
  <2>9. \A i \in 1..at' - 1 : HasContent(i) => Generated(Given(i)) \in Range(edited')
    <3>1. Range(edited') = Range(edited) \cup {new}
      <4>1. \A k \in DOMAIN edited' : k \in DOMAIN edited \/ k = Len(edited) + 1
        BY <2>2
      <4>2. DOMAIN edited \subseteq DOMAIN edited' /\ Len(edited) + 1 \in DOMAIN edited'
        BY <2>2
      <4> QED
        BY <2>2, <4>1, <4>2 DEF Range
    <3>2. \A i \in 1..at' - 1 : i \in 1..at - 1 \/ i = at
      BY <1>1, <1>2
    <3> QED
      BY <2>4, <3>1, <3>2 DEF new
  <2> HIDE DEF HasContent, Generated, Given
  <2> QED
    BY <1>1, <2>3, <2>5, <2>6, <2>8, <2>9 DEF ListedFiles, EditedFiles, Done
<1>12. Counted'
  BY <1>1, <1>2, <1>5, CountedKept
<1>13. WrittenLast'
  BY <1>1 DEF WrittenLast
<1> QED
  BY <1>1, <1>9, <1>10, <1>11, <1>12, <1>13, Goes

(* Editing a service makes it what it is to be, and collects what it gives *)
(* up (editor.go:96-241).                                                  *)
LEMMA UpdateMakes == ASSUME EInv, NEW s \in todo, UpdateServiceSessions(s), TInv' PROVE EInv'
<1>1. pc = "service" /\ UNCHANGED <<pod, offered, files, edited, at>> /\ UNCHANGED <<given, files, edited, at>>
  BY DEF UpdateServiceSessions, given
<1>2. /\ PInv /\ ServicesMade /\ InfraMade /\ ListedFiles /\ Counted
      /\ pod \in Pods /\ offered \in Offers
  BY <1>1 DEF EInv, TInv, PInv
<1> DEFINE p == <<at, s>>
<1>3. /\ Len(pod) \in Nat /\ at \in 1..Len(pod) + 1 /\ files[at] = Given(at) /\ NameNow(at) = Given(at)
      /\ s # Infra => p \in Places /\ ~Edited(p) /\ detail[files[at]][s] = Asked(p)
      /\ s = Infra => at = Len(pod) + 1
  BY <1>1, CurrentPlace
<1> HIDE DEF p
<1>4. CASE EditUnshared(s)
  <2>1. s # Infra /\ pc' = "service" /\ UNCHANGED error /\ todo' = todo \ {s}
    BY <1>1, <1>4 DEF EditUnshared
  <2>2. Counted' /\ OnOwnNetwork(p)
    BY <1>4, UnsharedCounted DEF p
  <2>3. Store(s, [Asked(p) EXCEPT !.hosts = {}])
    BY <1>3, <1>4, <2>1 DEF EditUnshared
  <2>4. ServicesMade' /\ InfraMade' /\ ListedFiles'
    BY <1>1, <2>1, <2>2, <2>3, StoreMakes DEF p
  <2>5. WrittenLast'
    BY <2>1 DEF WrittenLast
  <2> QED
    BY <1>1, <2>1, <2>2, <2>4, <2>5, Goes
<1>5. CASE EditShared(s) /\ ~Short(detail[files[at]][s].ports)
  <2>1. s # Infra /\ pc' = "service" /\ UNCHANGED error /\ todo' = todo \ {s}
    BY <1>1, <1>5 DEF EditShared
  <2>2. Counted' /\ ~OnOwnNetwork(p)
    BY <1>5, SharedCounted DEF p
  <2>3. Store(s, [Asked(p) EXCEPT !.mode = "shared", !.hosts = {}, !.ports = <<>>])
    <3>1. Store(s, [[Asked(p) EXCEPT !.mode = "shared", !.hosts = {}] EXCEPT !.ports = <<>>])
      BY <1>3, <1>5, <2>1 DEF EditShared
    <3>2. [[Asked(p) EXCEPT !.mode = "shared", !.hosts = {}] EXCEPT !.ports = <<>>]
             = [Asked(p) EXCEPT !.mode = "shared", !.hosts = {}, !.ports = <<>>]
      OBVIOUS
    <3> QED
      BY <3>1, <3>2
  <2>4. ServicesMade' /\ InfraMade' /\ ListedFiles'
    BY <1>1, <2>1, <2>2, <2>3, StoreMakes DEF p
  <2>5. WrittenLast'
    BY <2>1 DEF WrittenLast
  <2> QED
    BY <1>1, <2>1, <2>2, <2>4, <2>5, Goes
<1>6. CASE EditShared(s) /\ Short(detail[files[at]][s].ports)
  <2>1. s # Infra /\ pc' = "failed" /\ error' = "ports"
    BY <1>6 DEF EditShared, Fail
  <2>2. p \in Places /\ ~OnOwnNetwork(p) /\ ~Edited(p) /\ Short(Asked(p).ports)
    BY <1>3, <1>6, <2>1 DEF EditShared, Unshared, OnOwnNetwork
  <2>3. Cardinality({r \in Requests : Len(Request(r)) > 1}) > Len(offered)
    BY <1>2, <2>2, ShortRefused
  <2>4. Requests' = Requests /\ \A r : Request(r)' = Request(r)
    BY <1>1, PodKept
  <2>5. PortsRefused'
    BY <1>1, <2>3, <2>4 DEF PortsRefused
  <2> QED
    BY <2>1, <2>5 DEF EInv, WrittenLast
<1>7. CASE EditInfra(s)
  <2>1. /\ s = Infra /\ at = Len(pod) + 1 /\ pc' = "service" /\ UNCHANGED error /\ todo' = todo \ {s}
        /\ UNCHANGED found /\ Store(s, [detail[files[at]][s] EXCEPT !.ports = config.ports])
    BY <1>1, <1>3, <1>7 DEF EditInfra
  <2>2. \A q \in Places : Edited(q)' <=> Edited(q)
    <3>1. \A q \in Places : q[1] \in 1..Len(pod)
      BY <1>2, PlaceFacts
    <3> QED
      BY <1>1, <1>3, <2>1, <3>1 DEF Edited
  <2>3. /\ s \in DOMAIN detail[files[at]] /\ files[at] \in DOMAIN detail
        /\ DOMAIN detail' = DOMAIN detail
        /\ \A n \in DOMAIN detail : DOMAIN detail'[n] = DOMAIN detail[n]
        /\ detail'[files[at]][s] = [detail[files[at]][s] EXCEPT !.ports = config.ports]
        /\ \A n \in DOMAIN detail \ {files[at]} : detail'[n] = detail[n]
    BY <1>1, <1>2, <2>1, StoreKeepsTypes
  <2>4. \A i \in 1..Len(pod) : NameNow(i)' = NameNow(i) /\ NameNow(i) # files[at]
    <3>1. \A i : NameNow(i)' = NameNow(i)
      BY <1>1, PodKept DEF NameNow
    <3>2. \A i \in 1..Len(pod) : NameNow(i) # Given(Len(pod) + 1)
      BY <1>3, Names DEF NameNow
    <3> QED
      BY <1>3, <2>1, <3>1, <3>2
  <2>5. ServicesMade'
    <3>1. \A i \in 1..Len(pod) : NameNow(i) \in DOMAIN detail
      BY <1>2 DEF ServicesMade
    <3> QED
      BY <1>1, <1>2, <2>2, <2>3, <2>4, <3>1, ServicesKept
  <2>6. InfraMade'
    <3>1. NameNow(Len(pod) + 1)' = files[at]
      BY <1>1, <1>3, <2>1, PodKept DEF NameNow
    <3>2. DOMAIN detail[files[at]] = {Infra}
      BY <1>1, <1>2, <1>3, <2>1 DEF InfraMade
    <3>3. detail[files[at]][s] \in Sections
      BY <1>1, <1>2, <2>3 DEF PInv, Unedited, Editing
    <3>4. detail'[files[at]][s].ports = config.ports
      BY <2>3, <3>3 DEF Sections
    <3>5. config' = config
      BY <2>1 DEF found
    <3> QED
      BY <2>1, <2>3, <3>1, <3>2, <3>4, <3>5 DEF InfraMade, Done
  <2>7. ListedFiles'
    BY <1>1, <1>2, <2>1, PodKept DEF ListedFiles, EditedFiles, Done
  <2>8. Counted'
    BY <1>1, <1>2, <2>1, <2>2, CountedKept
  <2>9. WrittenLast'
    BY <2>1 DEF WrittenLast
  <2> QED
    BY <1>1, <2>1, <2>5, <2>6, <2>7, <2>8, <2>9, Goes
<1> QED
  BY <1>4, <1>5, <1>6, <1>7 DEF UpdateServiceSessions

(* When all files are edited, every one with content is found under its    *)
(* new name, and the last of them is the infra container's.                *)
LEMMA AllEditedFacts ==
  ASSUME EInv, AllEdited
  PROVE  /\ pod \in Pods /\ Len(pod) \in Nat /\ at = Len(pod) + 2
         /\ ServicesMade /\ InfraMade /\ ListedFiles /\ Counted
         /\ NameNow(Len(pod) + 1) = Generated(InfraFile)
         /\ Generated(InfraFile) \in DOMAIN detail /\ DOMAIN detail[Generated(InfraFile)] = {Infra}
         /\ detail[Generated(InfraFile)][Infra] \in Sections
         /\ detail[Generated(InfraFile)][Infra].ports = config.ports
         /\ IndexInfra = Len(pod) + 1
         /\ \A i \in 1..Len(pod) : NameNow(i) # Generated(InfraFile)
         /\ Range(edited) = {NameNow(i) : i \in {j \in 1..Len(pod) : HasContent(j)}} \cup {Generated(InfraFile)}
<1>1. /\ pc = "file" /\ at > Len(files) /\ at \in 1..Len(pod) + 2
      /\ pod \in Pods /\ ServicesMade /\ InfraMade /\ ListedFiles /\ Counted
      /\ edited \in Seq({Generated(Given(i)) : i \in 1..Len(pod) + 1})
      /\ files = [i \in 1..Len(pod) + 1 |-> Given(i)] /\ PInv
  BY DEF AllEdited, EInv, TInv, TypeOK, PInv, Unedited, Editing
<1>2. Len(pod) \in Nat
  BY <1>1, PodFacts
<1>3. Len(files) = Len(pod) + 1 /\ DOMAIN files = 1..Len(pod) + 1 /\ at = Len(pod) + 2
  BY <1>1, <1>2
<1>4. NameNow(Len(pod) + 1) = Generated(InfraFile)
  BY <1>2, <1>3 DEF NameNow, HasContent, InfraFile
<1>5. Edited(<<Len(pod) + 1, Infra>>)
  BY <1>2, <1>3 DEF Edited
<1>6. /\ Generated(InfraFile) \in DOMAIN detail /\ DOMAIN detail[Generated(InfraFile)] = {Infra}
      /\ detail[Generated(InfraFile)][Infra].ports = config.ports
  BY <1>1, <1>4, <1>5 DEF InfraMade
<1>7. detail[Generated(InfraFile)][Infra] \in Sections
  BY <1>1, <1>6 DEF PInv, Unedited, Editing
<1>8. IndexInfra = Len(pod) + 1
  BY <1>1, <1>2, <1>3, Names DEF IndexInfra
<1>9. \A i \in 1..Len(pod) : NameNow(i) # Generated(InfraFile)
  BY <1>2, Names DEF NameNow
<1>10. Range(edited) = {NameNow(i) : i \in {j \in 1..Len(pod) : HasContent(j)}} \cup {Generated(InfraFile)}
  <2>1. \A i \in 1..Len(pod) : HasContent(i) => NameNow(i) = Generated(Given(i))
    BY <1>2, <1>3 DEF NameNow
  <2>2. HasContent(Len(pod) + 1) /\ Generated(Given(Len(pod) + 1)) = Generated(InfraFile)
    BY DEF HasContent, InfraFile
  <2>3. EditedFiles /\ \A k \in DOMAIN edited : k \in Nat \ {0}
    BY <1>1 DEF ListedFiles
  <2>4. \A k \in DOMAIN edited : \E i \in 1..Len(pod) + 1 : HasContent(i) /\ edited[k] = Generated(Given(i))
    <3> SUFFICES ASSUME NEW k \in DOMAIN edited
                 PROVE  \E i \in 1..Len(pod) + 1 : HasContent(i) /\ edited[k] = Generated(Given(i))
      OBVIOUS
    <3>1. PICK i \in k..at - 1 : HasContent(i) /\ edited[k] = Generated(Given(i))
      BY <2>3 DEF EditedFiles
    <3>2. i \in 1..Len(pod) + 1
      BY <1>2, <1>3, <2>3
    <3> QED
      BY <3>1, <3>2
  <2>5. \A i \in 1..Len(pod) + 1 : HasContent(i) => Generated(Given(i)) \in Range(edited)
    BY <1>2, <1>3, <2>3 DEF EditedFiles
  <2>6. \A i \in 1..Len(pod) + 1 : i \in 1..Len(pod) \/ i = Len(pod) + 1
    BY <1>2
  <2>7. 1..Len(pod) \subseteq 1..Len(pod) + 1 /\ Len(pod) + 1 \in 1..Len(pod) + 1
    BY <1>2
  <2> HIDE DEF HasContent, NameNow, Generated, Given
  <2>8. Range(edited) \subseteq {NameNow(i) : i \in {j \in 1..Len(pod) : HasContent(j)}} \cup {Generated(InfraFile)}
    <3> SUFFICES ASSUME NEW k \in DOMAIN edited
                 PROVE  edited[k] \in {NameNow(i) : i \in {j \in 1..Len(pod) : HasContent(j)}} \cup {Generated(InfraFile)}
      BY DEF Range
    <3>1. PICK i \in 1..Len(pod) + 1 : HasContent(i) /\ edited[k] = Generated(Given(i))
      BY <2>4
    <3> QED
      BY <2>1, <2>2, <2>6, <3>1
  <2>9. \A i \in 1..Len(pod) : HasContent(i) => NameNow(i) \in Range(edited)
    BY <2>1, <2>5, <2>7
  <2>10. Generated(InfraFile) \in Range(edited)
    BY <2>2, <2>5, <2>7
  <2> QED
    BY <2>8, <2>9, <2>10
<1> QED
  BY <1>1, <1>2, <1>3, <1>4, <1>6, <1>7, <1>8, <1>9, <1>10

(* From the last file on, no service is edited and no name changes.        *)
LEMMA NothingEdited ==
  ASSUME pc # "service", pc' # "service", UNCHANGED <<pod, at>>
  PROVE  /\ \A p \in Places : Edited(p)' <=> Edited(p)
         /\ \A i : NameNow(i)' = NameNow(i)
  BY PodKept DEF Edited, NameNow

(* The infra container is dropped, and nothing but it (impl.go:119-125).   *)
LEMMA DropStep == ASSUME EInv, DropInfra, TInv' PROVE EInv'
<1>1. AllEdited /\ config.rmInfra /\ UNCHANGED <<pod, offered, at>> /\ UNCHANGED found /\ pc = "file"
  BY DEF DropInfra, RemovesInfra, AllEdited, given, loop
<1>2. /\ pod \in Pods /\ Len(pod) \in Nat /\ at = Len(pod) + 2
      /\ ServicesMade /\ InfraMade /\ ListedFiles /\ Counted /\ IndexInfra = Len(pod) + 1
      /\ \A i \in 1..Len(pod) : NameNow(i) # Generated(InfraFile)
      /\ Range(edited) = {NameNow(i) : i \in {j \in 1..Len(pod) : HasContent(j)}} \cup {Generated(InfraFile)}
  BY <1>1, AllEditedFacts
<1>3. CASE IndexInfra \notin DOMAIN edited
  BY <1>3, Failed DEF DropInfra, Fail
<1>4. CASE IndexInfra \in DOMAIN edited
  <2>1. /\ pc' = "edited" /\ UNCHANGED error /\ files' = RemoveAt(edited, Len(pod) + 1)
        /\ detail' = [n \in DOMAIN detail \ {edited[Len(pod) + 1]} |-> detail[n]]
    BY <1>2, <1>4 DEF DropInfra
  <2>2. EditedFiles /\ edited \in Seq({Generated(Given(i)) : i \in 1..Len(pod) + 1})
    BY <1>1, <1>2 DEF ListedFiles, EInv, TInv
  <2>3. /\ DOMAIN edited = 1..Len(edited) /\ Len(edited) = Len(pod) + 1
        /\ edited[Len(pod) + 1] = Generated(InfraFile)
    <3>1. DOMAIN edited = 1..Len(edited) /\ Len(edited) \in Nat /\ Len(edited) < at
      BY <2>2 DEF EditedFiles
    <3>2. Len(edited) = Len(pod) + 1
      <4>1. Len(pod) + 1 \in 1..Len(edited)
        BY <1>2, <1>4, <3>1
      <4>2. Len(edited) < Len(pod) + 2 /\ Len(pod) \in Nat /\ Len(edited) \in Nat
        BY <1>2, <3>1
      <4> QED
        BY <4>1, <4>2
    <3>3. PICK i \in Len(pod) + 1..at - 1 : edited[Len(pod) + 1] = Generated(Given(i))
      BY <1>2, <1>4, <2>2 DEF EditedFiles
    <3>4. i = Len(pod) + 1
      BY <1>2
    <3> QED
      BY <3>1, <3>2, <3>3, <3>4 DEF InfraFile
  <2>4. /\ \A p \in Places : Edited(p)' <=> Edited(p)
        /\ \A i : NameNow(i)' = NameNow(i)
    BY <1>1, <2>1, NothingEdited
  <2>5. ServicesMade'
    <3>1. \A i \in 1..Len(pod) : NameNow(i) \in DOMAIN detail
      BY <1>2 DEF ServicesMade
    <3> QED
      BY <1>1, <1>2, <2>1, <2>3, <2>4, <3>1, ServicesKept
  <2>6. config' = config
    BY <1>1 DEF found
  <2>7. InfraMade'
    BY <1>1, <2>1, <2>6 DEF InfraMade
  <2>8. ListedFiles'
    <3> DEFINE Good == {Generated(Given(i)) : i \in 1..Len(pod) + 1}
    <3>1. edited \in Seq(Good) /\ Len(pod) + 1 \in 1..Len(edited)
      BY <1>2, <2>2, <2>3
    <3> HIDE DEF Good
    <3>2. /\ files' \in Seq(Good) /\ Len(files') = Len(pod)
          /\ \A k \in 1..Len(pod) : files'[k] = edited[k]
      <4>1. /\ RemoveAt(edited, Len(pod) + 1) \in Seq(Good)
            /\ Len(RemoveAt(edited, Len(pod) + 1)) = Len(edited) - 1
            /\ \A k \in 1..(Len(pod) + 1) - 1 : RemoveAt(edited, Len(pod) + 1)[k] = edited[k]
        BY <3>1, Removed
      <4> QED
        BY <1>2, <2>1, <2>3, <4>1
    <3>3. DOMAIN files' = 1..Len(pod)
      BY <3>2
    <3>4. \A k, l \in DOMAIN edited : k # l => edited[k] # edited[l]
      BY <2>2 DEF EditedFiles
    <3>5. Range(files') = Range(edited) \ {Generated(InfraFile)}
      <4>1. \A k \in 1..Len(pod) : k \in DOMAIN edited /\ k # Len(pod) + 1 /\ edited[k] # Generated(InfraFile)
        BY <1>2, <2>3, <3>4
      <4>2. \A k \in DOMAIN edited : k \in 1..Len(pod) \/ k = Len(pod) + 1
        BY <1>2, <2>3
      <4> QED
        BY <2>3, <3>2, <3>3, <4>1, <4>2 DEF Range
    <3>6. Range(files') = {NameNow(i) : i \in {j \in 1..Len(pod) : HasContent(j)}}
      BY <1>2, <3>5
    <3>7. {NameNow(i) : i \in {j \in 1..Len(pod) : HasContent(j)}}' = {NameNow(i) : i \in {j \in 1..Len(pod) : HasContent(j)}}
      BY <1>1, <2>4, PodKept
    <3> QED
      BY <1>1, <1>2, <2>1, <2>6, <3>6, <3>7 DEF ListedFiles, Done
  <2>9. Counted'
    BY <1>1, <1>2, <2>4, CountedKept
  <2>10. WrittenLast'
    BY <2>1 DEF WrittenLast
  <2> QED
    BY <1>1, <2>1, <2>5, <2>7, <2>8, <2>9, <2>10, Goes
<1> QED
  BY <1>3, <1>4

(* The infra container stays, and gets the extra hosts of the pod          *)
(* (impl.go:127-140, editor.go:244-262).                                   *)
LEMMA KeepStep == ASSUME EInv, KeepInfra, TInv' PROVE EInv'
<1> DEFINE G == Generated(InfraFile)
<1>1. /\ AllEdited /\ ~config.rmInfra /\ UNCHANGED <<pod, offered, at, error>> /\ UNCHANGED found
      /\ pc = "file" /\ pc' = "edited" /\ files' = edited
      /\ detail' = [detail EXCEPT ![G][Infra].hosts = extraHosts]
  BY DEF KeepInfra, RemovesInfra, AllEdited, given, loop
<1>2. /\ pod \in Pods /\ Len(pod) \in Nat /\ at = Len(pod) + 2
      /\ ServicesMade /\ InfraMade /\ ListedFiles /\ Counted
      /\ G \in DOMAIN detail /\ DOMAIN detail[G] = {Infra}
      /\ detail[G][Infra] \in Sections /\ detail[G][Infra].ports = config.ports
      /\ \A i \in 1..Len(pod) : NameNow(i) # G
      /\ Range(edited) = {NameNow(i) : i \in {j \in 1..Len(pod) : HasContent(j)}} \cup {G}
  BY <1>1, AllEditedFacts
<1>3. /\ \A p \in Places : Edited(p)' <=> Edited(p)
      /\ \A i : NameNow(i)' = NameNow(i)
  BY <1>1, NothingEdited
<1>4. /\ config' = config /\ extraHosts' = extraHosts /\ G' = G
      /\ Generated(InfraFile)' = G
  BY <1>1, PodKept DEF found, Generated, InfraFile, Given, Name
<1>5. ServicesMade'
  <2>1. \A i \in 1..Len(pod) : NameNow(i) \in DOMAIN detail
    BY <1>2 DEF ServicesMade
  <2> HIDE DEF G
  <2> QED
    BY <1>1, <1>2, <1>3, <2>1, ServicesKept
<1>6. InfraMade'
  <2>1. /\ G \in DOMAIN detail' /\ DOMAIN detail'[G] = {Infra}
        /\ detail'[G][Infra] = [detail[G][Infra] EXCEPT !.hosts = extraHosts]
    <3> HIDE DEF G
    <3> QED
      BY <1>1, <1>2
  <2> HIDE DEF G
  <2>2. /\ DOMAIN detail'[G][Infra] = {"mode", "ports", "hosts"}
        /\ detail'[G][Infra].hosts = extraHosts
        /\ detail'[G][Infra].ports = config.ports
    BY <1>2, <2>1 DEF Sections
  <2>3. InfraPorts' = config'.ports
    BY <1>4, <2>2 DEF InfraPorts
  <2> QED
    BY <1>1, <1>4, <2>1, <2>2, <2>3 DEF InfraMade
<1>7. ListedFiles'
  <2>1. {NameNow(i) : i \in {j \in 1..Len(pod) : HasContent(j)}}' = {NameNow(i) : i \in {j \in 1..Len(pod) : HasContent(j)}}
    BY <1>1, <1>3, PodKept
  <2>2. Range(files') = {NameNow(i) : i \in {j \in 1..Len(pod) : HasContent(j)}} \cup {G}
    BY <1>1, <1>2
  <2> HIDE DEF G
  <2> QED
    BY <1>1, <1>2, <1>4, <2>1, <2>2 DEF ListedFiles, Done
<1>8. Counted'
  BY <1>1, <1>2, <1>3, CountedKept
<1>9. WrittenLast'
  BY <1>1 DEF WrittenLast
<1> QED
  BY <1>1, <1>5, <1>6, <1>7, <1>8, <1>9, Goes

(* A port request that needs no port is a single field.                    *)
LEMMA RequestFields ==
  ASSUME NEW r \in PortRequests
  PROVE  ~NeedsPort(r) => Len(r) = 1
<1>1. r \in Seq(STRING) /\ r # <<>>
  BY DEF PortRequests
<1> DEFINE l == Len(r)
<1>2. l \in Nat /\ l # 0
  BY <1>1
<1> HIDE DEF l
<1>3. ~(l > 1) => l = 1
  BY <1>2
<1> QED
  BY <1>3 DEF NeedsPort, l

(* A pair of fields needs a port, and ends with its second field.          *)
LEMMA PairNeedsPort ==
  ASSUME NEW a, NEW b
  PROVE  NeedsPort(<<a, b>>) /\ Last(<<a, b>>) = b
  BY DEF NeedsPort, Last

(* Writing changes no file but those on disk (impl.go:156, file.go:323).   *)
LEMMA WriteStep == ASSUME EInv, Write, TInv' PROVE EInv'
<1>1. /\ pc = "edited" /\ pc' = "launched" /\ UNCHANGED <<pod, offered, at, files, detail>> /\ UNCHANGED found
      /\ (written' = detail /\ UNCHANGED error) \/ error' = "write"
  BY DEF Write, given, loop
<1>2. pod \in Pods /\ ServicesMade /\ InfraMade /\ ListedFiles /\ Counted
  BY <1>1 DEF EInv, TInv, PInv
<1>3. /\ \A p \in Places : Edited(p)' <=> Edited(p)
      /\ \A i : NameNow(i)' = NameNow(i)
  BY <1>1, NothingEdited
<1>4. /\ config' = config /\ extraHosts' = extraHosts /\ Generated(InfraFile)' = Generated(InfraFile)
      /\ InfraPorts' = InfraPorts
  BY <1>1, PodKept DEF found, Generated, InfraFile, Given, Name, InfraPorts
<1>5. ServicesMade'
  <2>1. \A i \in 1..Len(pod) : NameNow(i) \in DOMAIN detail
    BY <1>2 DEF ServicesMade
  <2> QED
    BY <1>1, <1>2, <1>3, <2>1, ServicesKept
<1>6. InfraMade'
  <2>1. \A r : Published(r)' = Published(r)
    BY DEF Published, NeedsPort
  <2> QED
    BY <1>1, <1>2, <1>4, <2>1 DEF InfraMade, Done
<1>7. ListedFiles'
  <2>1. {NameNow(i) : i \in {j \in 1..Len(pod) : HasContent(j)}}' = {NameNow(i) : i \in {j \in 1..Len(pod) : HasContent(j)}}
    BY <1>1, <1>3, PodKept
  <2> QED
    BY <1>1, <1>2, <1>4, <2>1 DEF ListedFiles, Done
<1>8. Counted'
  BY <1>1, <1>2, <1>3, CountedKept
<1>9. WrittenLast'
  <2>1. error' = "none" => written' = detail'
    BY <1>1
  <2> QED
    BY <2>1 DEF WrittenLast
<1>10. error' = error \/ error' = "write"
  BY <1>1
<1> QED
  BY <1>1, <1>5, <1>6, <1>7, <1>8, <1>9, <1>10, Goes

(* The ports docker chose take the place of those that named none          *)
(* (impl.go:168-187, editor.go:265-331).                                   *)
LEMMA PostStep == ASSUME EInv, PostLaunchTask, TInv' PROVE EInv'
<1> DEFINE G == Generated(InfraFile)
<1>1. pc = "launched" /\ UNCHANGED <<pod, offered, at, files>> /\ UNCHANGED found
  BY DEF PostLaunchTask, given, loop
<1>2. pod \in Pods /\ ServicesMade /\ InfraMade /\ ListedFiles /\ Counted /\ Len(pod) \in Nat
  BY <1>1, PodFacts DEF EInv, TInv, PInv
<1>3. config' = config /\ extraHosts' = extraHosts /\ Generated(InfraFile)' = G
  BY <1>1, PodKept DEF found, Generated, InfraFile, Given, Name
<1>4. ASSUME pc' = "failed" PROVE EInv'
  <2>1. error' # "ports"
    BY <1>4 DEF PostLaunchTask, PostEdit, Fail
  <2> QED
    BY <1>4, <2>1, Failed
<1>5. ASSUME pc' = "running", UNCHANGED error,
             ServicesMade', InfraMade', WrittenLast'
      PROVE  EInv'
  <2>1. /\ \A p \in Places : Edited(p)' <=> Edited(p)
        /\ \A i : NameNow(i)' = NameNow(i)
    BY <1>1, <1>5, NothingEdited
  <2>2. {NameNow(i) : i \in {j \in 1..Len(pod) : HasContent(j)}}' = {NameNow(i) : i \in {j \in 1..Len(pod) : HasContent(j)}}
    BY <1>1, <2>1, PodKept
  <2> HIDE DEF G
  <2>3. ListedFiles'
    BY <1>1, <1>2, <1>3, <1>5, <2>2 DEF ListedFiles, Done, G
  <2>4. Counted'
    BY <1>1, <1>2, <2>1, CountedKept
  <2> QED
    BY <1>1, <1>5, <2>3, <2>4, Goes
<1>6. CASE ~(singlePort /\ G \in DOMAIN detail)
  <2>1. pc' = "running" /\ UNCHANGED <<detail, written, error>>
    BY <1>6 DEF PostLaunchTask
  <2>2. /\ \A p \in Places : Edited(p)' <=> Edited(p)
        /\ \A i : NameNow(i)' = NameNow(i)
    BY <1>1, <2>1, NothingEdited
  <2>3. ServicesMade'
    <3>1. \A i \in 1..Len(pod) : NameNow(i) \in DOMAIN detail
      BY <1>2 DEF ServicesMade
    <3> QED
      BY <1>1, <1>2, <2>1, <2>2, <3>1, ServicesKept
  <2>4. InfraMade'
    <3>1. InfraPorts' = InfraPorts
      BY <1>3, <2>1 DEF InfraPorts
    <3>2. \A r : Published(r)' = Published(r) /\ NeedsPort(r)' = NeedsPort(r)
      BY DEF Published, NeedsPort
    <3>3. CASE config.rmInfra
      BY <1>3, <2>1, <3>3 DEF InfraMade
    <3>4. CASE ~config.rmInfra
      <4>1. /\ G \in DOMAIN detail /\ DOMAIN detail[G] = {Infra}
            /\ DOMAIN detail[G][Infra] = {"mode", "ports", "hosts"} /\ detail[G][Infra].hosts = extraHosts
            /\ InfraPorts = config.ports
        BY <1>1, <1>2, <3>4 DEF InfraMade, Done
      <4>2. ~singlePort
        BY <1>6, <4>1
      <4>3. \A i \in DOMAIN config.ports : NeedsPort(config.ports[i])
        BY <1>2, <4>2 DEF Counted
      <4> HIDE DEF G
      <4> QED
        BY <1>3, <2>1, <3>1, <3>2, <4>1, <4>3 DEF InfraMade
    <3> QED
      BY <3>3, <3>4
  <2>5. WrittenLast'
    BY <1>1, <2>1 DEF EInv, WrittenLast
  <2> QED
    BY <1>5, <2>1, <2>3, <2>4, <2>5
<1>7. CASE /\ singlePort /\ G \in DOMAIN detail
           /\ \E ports \in [DOMAIN detail[G][Infra].ports ->
                              UNION {Published(r) : r \in Range(detail[G][Infra].ports)}] :
                /\ \A j \in DOMAIN ports : ports[j] \in Published(detail[G][Infra].ports[j])
                /\ detail' = [detail EXCEPT ![G][Infra].ports = ports]
           /\ written' = detail' /\ pc' = "running" /\ UNCHANGED error
  <2>1. PICK ports \in [DOMAIN detail[G][Infra].ports ->
                          UNION {Published(r) : r \in Range(detail[G][Infra].ports)}] :
                /\ \A j \in DOMAIN ports : ports[j] \in Published(detail[G][Infra].ports[j])
                /\ detail' = [detail EXCEPT ![G][Infra].ports = ports]
    BY <1>7
  <2>2. /\ \A p \in Places : Edited(p)' <=> Edited(p)
        /\ \A i : NameNow(i)' = NameNow(i)
    BY <1>1, <1>7, NothingEdited
  <2>3. ServicesMade'
    <3>1. \A i \in 1..Len(pod) : NameNow(i) \in DOMAIN detail
      BY <1>2 DEF ServicesMade
    <3>2. \A i \in 1..Len(pod) : NameNow(i) # G
      BY <1>2, Names DEF NameNow
    <3> HIDE DEF G
    <3>3. \A i \in 1..Len(pod) : NameNow(i) \in DOMAIN detail' /\ detail'[NameNow(i)] = detail[NameNow(i)]
      BY <2>1, <3>1, <3>2
    <3> QED
      BY <1>1, <1>2, <2>2, <3>3, ServicesKept
  <2>4. CASE config.rmInfra
    <3>1. InfraMade'
      BY <1>3, <1>7, <2>4 DEF InfraMade
    <3> QED
      BY <1>5, <1>7, <2>3, <3>1 DEF WrittenLast
  <2>5. CASE ~config.rmInfra
    <3>1. /\ G \in DOMAIN detail /\ DOMAIN detail[G] = {Infra}
          /\ DOMAIN detail[G][Infra] = {"mode", "ports", "hosts"} /\ detail[G][Infra].hosts = extraHosts
          /\ detail[G][Infra].ports = config.ports
      BY <1>1, <1>2, <2>5 DEF InfraMade, Done, InfraPorts
    <3>2. /\ DOMAIN ports = DOMAIN config.ports
          /\ \A j \in DOMAIN ports : ports[j] \in Published(config.ports[j]) /\ NeedsPort(ports[j])
      <4>1. \A r : \A q \in Published(r) : NeedsPort(q)
        BY PairNeedsPort DEF Published
      <4>2. DOMAIN ports = DOMAIN config.ports
        BY <2>1, <3>1
      <4>3. \A j \in DOMAIN ports : ports[j] \in Published(config.ports[j])
        BY <2>1, <3>1
      <4> QED
        BY <4>1, <4>2, <4>3
    <3> HIDE DEF G
    <3>3. /\ G \in DOMAIN detail' /\ DOMAIN detail'[G] = {Infra}
          /\ detail'[G][Infra] = [detail[G][Infra] EXCEPT !.ports = ports]
      BY <2>1, <3>1
    <3>4. /\ DOMAIN detail'[G][Infra] = {"mode", "ports", "hosts"}
          /\ detail'[G][Infra].hosts = extraHosts
          /\ detail'[G][Infra].ports = ports
      BY <3>1, <3>3
    <3>5. InfraPorts' = ports
      BY <1>3, <3>4 DEF InfraPorts
    <3>6. InfraMade'
      <4>1. \A r : Published(r)' = Published(r) /\ NeedsPort(r)' = NeedsPort(r)
        BY DEF Published, NeedsPort
      <4> QED
        BY <1>3, <1>7, <3>2, <3>3, <3>4, <3>5, <4>1 DEF InfraMade
    <3> QED
      BY <1>5, <1>7, <2>3, <3>6 DEF WrittenLast
  <2> QED
    BY <2>4, <2>5
<1>8. CASE pc' = "failed"
  BY <1>4, <1>8
<1> QED
  BY <1>6, <1>7, <1>8 DEF PostLaunchTask, PostEdit, Fail

LEMMA EStep == ASSUME EInv, [Next]_vars PROVE EInv'
<1>1. TInv'
  BY TypesStep DEF EInv
<1>2. CASE CreateInfraContainer
  BY <1>1, <1>2, CreateStep
<1>3. CASE SkipFile
  BY <1>1, <1>3, SkipStep
<1>4. CASE OpenFile
  BY <1>1, <1>4, OpenStep
<1>5. CASE CloseFile
  BY <1>1, <1>5, CloseStep
<1>6. CASE \E s \in todo : UpdateServiceSessions(s)
  BY <1>1, <1>6, UpdateMakes
<1>7. CASE DropInfra
  BY <1>1, <1>7, DropStep
<1>8. CASE KeepInfra
  BY <1>1, <1>8, KeepStep
<1>9. CASE Write
  BY <1>1, <1>9, WriteStep
<1>10. CASE PostLaunchTask
  BY <1>1, <1>10, PostStep
<1>11. CASE Finished \/ UNCHANGED vars
  <2>1. /\ UNCHANGED <<pod, offered, files, detail, written, edited, at, todo, pc, error>> /\ UNCHANGED found
    BY <1>11 DEF Finished, vars, given, loop, found
  <2>2. PortsRefused' /\ WrittenLast'
    <3>1. Requests' = Requests /\ \A r : Request(r)' = Request(r)
      BY <2>1, PodKept
    <3> QED
      BY <2>1, <3>1 DEF EInv, PortsRefused, WrittenLast
  <2>3. ASSUME pc # "failed" PROVE ServicesMade' /\ InfraMade' /\ ListedFiles' /\ Counted'
    <3>1. ServicesMade /\ InfraMade /\ ListedFiles /\ Counted /\ pod \in Pods
      BY <2>3 DEF EInv, TInv, PInv
    <3>2. /\ \A p : Edited(p)' <=> Edited(p)
          /\ \A i : NameNow(i)' = NameNow(i)
      BY <2>1, PodKept DEF Edited, NameNow
    <3>3. ServicesMade'
      <4>1. \A i \in 1..Len(pod) : NameNow(i) \in DOMAIN detail
        BY <3>1 DEF ServicesMade
      <4> QED
        BY <2>1, <3>1, <3>2, <4>1, ServicesKept
    <3>4. InfraMade' = InfraMade
      BY <2>1 DEF InfraMade, Done, NameNow, Edited, InfraPorts, InfraFile, Given, Generated, Name, HasContent, found, Published, NeedsPort
    <3>5. ListedFiles' = ListedFiles
      BY <2>1 DEF ListedFiles, EditedFiles, Done, NameNow, InfraFile, Given, Generated, Name, HasContent, found
    <3>6. Counted'
      BY <2>1, <3>1, <3>2, CountedKept
    <3> QED
      BY <3>1, <3>3, <3>4, <3>5, <3>6
  <2> QED
    BY <1>1, <2>1, <2>2, <2>3 DEF EInv
<1> QED
  BY <1>2, <1>3, <1>4, <1>5, <1>6, <1>7, <1>8, <1>9, <1>10, <1>11 DEF Next

(* At every moment of the editing each service is as written by the user   *)
(* or as it is to be, and the infra container, the configuration and the   *)
(* ports taken account for exactly the services edited so far              *)
(* (editor.go:55-262, impl.go:62-187).                                     *)
THEOREM EInvCorrect == Spec => []EInv
<1>1. Init => EInv
  BY EInit
<1>2. EInv /\ [Next]_vars => EInv'
  BY EStep
<1> QED
  BY <1>1, <1>2, PTL DEF Spec

(* When the editing is done, it has reached every service.                 *)
LEMMA DoneFacts ==
  ASSUME EInv, Done
  PROVE  /\ pod \in Pods /\ Len(pod) \in Nat /\ at = Len(pod) + 2 /\ \A p \in Places : Edited(p)
         /\ ServicesMade /\ InfraMade /\ ListedFiles /\ Counted
         /\ InfraListed <=> ~config.rmInfra
<1>1. /\ pod \in Pods /\ at = Len(pod) + 2 /\ ServicesMade /\ InfraMade /\ ListedFiles /\ Counted
      /\ Range(files) = {NameNow(i) : i \in {j \in 1..Len(pod) : HasContent(j)}}
                          \cup (IF config.rmInfra THEN {} ELSE {Generated(InfraFile)})
  BY DEF EInv, TInv, PInv, Done, ListedFiles
<1>2. Len(pod) \in Nat
  BY <1>1, PodFacts
<1>3. \A p \in Places : Edited(p)
  <2>1. \A p \in Places : p[1] \in 1..Len(pod)
    BY <1>1, PlaceFacts
  <2> QED
    BY <1>1, <1>2, <2>1 DEF Edited
<1>4. \A i \in 1..Len(pod) : NameNow(i) # Generated(InfraFile)
  BY <1>2, Names DEF NameNow
<1>5. InfraListed <=> ~config.rmInfra
  BY <1>1, <1>4 DEF InfraListed
<1> QED
  BY <1>1, <1>2, <1>3, <1>5

(* A pod is refused for want of ports exactly when it asks for more host   *)
(* ports than Mesos offered, in whatever order its files and services come *)
(* (editor.go:198-202).                                                    *)
THEOREM PortsAreEnough == Spec => []PortsSuffice
<1> DEFINE All == {r \in Requests : Len(Request(r)) > 1}
<1>1. EInv => PortsSuffice
  <2> SUFFICES ASSUME EInv PROVE PortsSuffice
    OBVIOUS
  <2>1. error = "ports" => Cardinality(All) > Len(offered)
    BY DEF EInv, PortsRefused
  <2>2. ASSUME Done PROVE Cardinality(All) <= Len(offered)
    <3>1. \A p \in Places : Edited(p)
      BY <2>2, DoneFacts
    <3>2. pod \in Pods /\ Counted /\ taken \in 0..Len(offered)
      BY <2>2, DoneFacts DEF EInv, TInv, PInv
    <3>3. Needing = All
      BY <3>1, <3>2, RequestFacts DEF Needing, NeedsPort
    <3> HIDE DEF All
    <3>4. Len(offered) \in Nat
      BY OfferAssumption DEF EInv, TInv, PInv
    <3> QED
      BY <3>2, <3>3, <3>4 DEF Counted
  <2> QED
    BY <2>1, <2>2 DEF PortsSuffice
<1> QED
  BY <1>1, EInvCorrect, PTL

(* The infra container has every extra host of the pod, and every          *)
(* container port once for each service that asked for it                  *)
(* (editor.go:204-262).                                                    *)
THEOREM HostSettingsAreMoved == Spec => []HostSettingsMoved
<1>1. EInv => HostSettingsMoved
  <2> SUFFICES ASSUME EInv, Done, InfraListed PROVE HostSettingsMoved
    BY DEF HostSettingsMoved
  <2> DEFINE G == Generated(InfraFile)
  <2>1. /\ pod \in Pods /\ (\A p \in Places : Edited(p)) /\ InfraMade /\ Counted /\ ~config.rmInfra
    BY DoneFacts
  <2>2. /\ detail[G][Infra].hosts = extraHosts
        /\ DOMAIN InfraPorts = DOMAIN config.ports
        /\ \A j \in DOMAIN InfraPorts : InfraPorts[j] \in {config.ports[j]} \cup Published(config.ports[j])
    BY <2>1 DEF InfraMade
  <2>3. extraHosts = UNION {Asked(p).hosts : p \in Places}
    <3>1. {q \in Places : Edited(q)} = Places
      BY <2>1
    <3> QED
      BY <2>1, <3>1 DEF Counted
  <2>4. \A j \in DOMAIN config.ports : Last(InfraPorts[j]) = Last(config.ports[j])
    <3> SUFFICES ASSUME NEW j \in DOMAIN config.ports
                 PROVE  Last(InfraPorts[j]) = Last(config.ports[j])
      OBVIOUS
    <3> DEFINE r == config.ports[j]
    <3>1. r \in PortRequests
      <4>1. config.ports \in Seq(PortRequests)
        BY DEF EInv, TInv, PInv, Collected
      <4> QED
        BY <4>1
    <3>2. CASE InfraPorts[j] = r
      BY <3>2
    <3>3. CASE InfraPorts[j] \in Published(r) /\ InfraPorts[j] # r
      <4>1. ~NeedsPort(r)
        BY <3>3 DEF Published
      <4>2. PICK host \in {"dynamic", ""} : InfraPorts[j] = <<host, r[1]>>
        BY <3>3, <4>1 DEF Published
      <4> HIDE DEF r
      <4>3. Len(r) = 1
        BY <3>1, <4>1, RequestFields
      <4>4. Last(r) = r[1]
        BY <4>3 DEF Last
      <4>5. Last(InfraPorts[j]) = r[1]
        BY <4>2, PairNeedsPort
      <4> QED
        BY <4>4, <4>5 DEF r
    <3> QED
      BY <2>2, <3>2, <3>3
  <2>5. ASSUME \A r \in Requests : Len(Request(r)) < 3,
               NEW port \in {Last(Request(r)) : r \in Requests} \cup {Last(m) : m \in Range(InfraPorts)}
        PROVE  Cardinality({r \in Requests : Last(Request(r)) = port})
                 = Cardinality({i \in DOMAIN InfraPorts : Last(InfraPorts[i]) = port})
    <3>1. /\ \A i \in DOMAIN config.ports : \E r \in Requests : Last(Request(r)) = Last(config.ports[i])
          /\ \A q \in {Last(Request(r)) : r \in Requests} : Cardinality(Moved(q)) = Cardinality(Arrived(q))
      BY <2>1, <2>5 DEF Counted
    <3>2. port \in {Last(Request(r)) : r \in Requests}
      <4>1. \A m \in Range(InfraPorts) : \E i \in DOMAIN config.ports : Last(m) = Last(config.ports[i])
        BY <2>2, <2>4 DEF Range
      <4> QED
        BY <2>5, <3>1, <4>1
    <3>3. Moved(port) = {r \in Requests : Last(Request(r)) = port}
      BY <2>1, RequestFacts DEF Moved
    <3>4. Arrived(port) = {i \in DOMAIN InfraPorts : Last(InfraPorts[i]) = port}
      BY <2>2, <2>4 DEF Arrived
    <3> QED
      BY <3>1, <3>2, <3>3, <3>4
  <2> HIDE DEF G
  <2> QED
    BY <2>2, <2>3, <2>5 DEF HostSettingsMoved, G
<1> QED
  BY <1>1, EInvCorrect, PTL

(* Where the pod does not mix network modes, a service on the network of   *)
(* the infra container finds it there, and the infra container is kept for *)
(* no other pod (editor.go:130-150, impl.go:119-125).                      *)
THEOREM NetworkIsKept == Spec => []NetworkIsThere
<1>1. EInv => NetworkIsThere
  <2> SUFFICES ASSUME EInv, Done, Places # {}, \A p, q \in Places : OnOwnNetwork(p) <=> OnOwnNetwork(q)
               PROVE  InfraListed <=> \E n \in Range(files) : \E s \in DOMAIN detail[n] : detail[n][s].mode = "shared"
    BY DEF NetworkIsThere
  <2>1. /\ pod \in Pods /\ (\A p \in Places : Edited(p)) /\ ServicesMade /\ Counted /\ ListedFiles
        /\ InfraListed <=> ~config.rmInfra
    BY DoneFacts
  <2>2. config.rmInfra <=> \E p \in Places : OnOwnNetwork(p)
    BY <2>1 DEF Counted
  <2>3. Range(files) = {NameNow(i) : i \in {j \in 1..Len(pod) : HasContent(j)}}
                         \cup (IF config.rmInfra THEN {} ELSE {Generated(InfraFile)})
    BY <2>1 DEF ListedFiles
  <2>4. \A i \in 1..Len(pod) : \A s \in DOMAIN pod[i] : <<i, s>> \in Places
    BY <2>1, PodFacts DEF Places
  <2>5. CASE ~config.rmInfra
    <3>1. PICK p \in Places : ~OnOwnNetwork(p)
      BY <2>2, <2>5
    <3>2. p[1] \in 1..Len(pod) /\ p[2] \in DOMAIN pod[p[1]] /\ p = <<p[1], p[2]>> /\ Asked(p) \in Sections
      BY <2>1, PlaceFacts
    <3>3. detail[NameNow(p[1])][p[2]] = Made(p) /\ p[2] \in DOMAIN detail[NameNow(p[1])]
      BY <2>1, <3>2 DEF ServicesMade
    <3>4. Made(p).mode = "shared"
      BY <2>1, <3>1, <3>2 DEF Made, Sections
    <3>5. NameNow(p[1]) \in Range(files)
      <4>1. p[1] \in {j \in 1..Len(pod) : HasContent(j)}
        BY <3>2 DEF HasContent
      <4> QED
        BY <2>3, <4>1
    <3> QED
      BY <2>1, <2>5, <3>3, <3>4, <3>5
  <2>6. CASE config.rmInfra
    <3> SUFFICES ASSUME NEW n \in Range(files), NEW s \in DOMAIN detail[n]
                 PROVE  detail[n][s].mode # "shared"
      BY <2>1, <2>6
    <3>1. PICK i \in 1..Len(pod) : n = NameNow(i)
      BY <2>3, <2>6
    <3>2. s \in DOMAIN pod[i] /\ detail[n][s] = Made(<<i, s>>) /\ <<i, s>> \in Places
      BY <2>1, <2>4, <3>1 DEF ServicesMade
    <3>3. OnOwnNetwork(<<i, s>>) /\ Asked(<<i, s>>) \in Sections
      BY <2>1, <2>2, <2>6, <3>2, PlaceFacts
    <3>4. Made(<<i, s>>) = [Asked(<<i, s>>) EXCEPT !.hosts = {}]
      BY <2>1, <3>2, <3>3 DEF Made
    <3>5. Made(<<i, s>>).mode = Asked(<<i, s>>).mode
      BY <3>3, <3>4 DEF Sections
    <3> QED
      BY <3>2, <3>3, <3>5 DEF OnOwnNetwork
  <2> QED
    BY <2>5, <2>6
<1> QED
  BY <1>1, EInvCorrect, PTL

(* Once the pod runs without an error, the folder shows a host port for    *)
(* each port the infra container publishes, those docker chose included    *)
(* (editor.go:265-331, impl.go:168-187).                                   *)
THEOREM PortsAreWritten == Spec => []ExposedPortsWritten
<1>1. EInv => ExposedPortsWritten
  <2> SUFFICES ASSUME EInv, pc = "running", error = "none", InfraListed
               PROVE  written = detail /\ \A m \in Range(InfraPorts) : Len(m) > 1
    BY DEF ExposedPortsWritten
  <2>1. Done
    BY DEF Done
  <2>2. InfraMade /\ ~config.rmInfra
    BY <2>1, DoneFacts
  <2>3. \A j \in DOMAIN InfraPorts : NeedsPort(InfraPorts[j])
    BY <2>1, <2>2 DEF InfraMade
  <2>4. \A m \in Range(InfraPorts) : Len(m) > 1
    BY <2>3 DEF Range, NeedsPort
  <2>5. written = detail
    BY DEF EInv, WrittenLast
  <2> QED
    BY <2>4, <2>5
<1> QED
  BY <1>1, EInvCorrect, PTL
=============================================================================
