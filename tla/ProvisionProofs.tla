-------------------------- MODULE ProvisionProofs ---------------------------
(***************************************************************************)
(* Proofs about Provision, for any number of processes, addresses and      *)
(* faults.                                                                 *)
(***************************************************************************)
EXTENDS Provision, TLAPS

\* What a file, and what a process has loaded, may be
Contents == {Absent, Empty} \cup [gen : Gens, ip : Hosts \cup {None}]

Types ==
    /\ files \in [Files -> Contents]
    /\ pc \in [Procs -> {"idle", "check", "open", "finish", "load", "load_key", "serving"}]
    /\ host \in [Procs -> Hosts \cup {None}]
    /\ gen \in [Procs -> Gens \cup {0}]
    /\ step \in [Procs -> 0..4]
    /\ cert \in [Procs -> Contents] /\ key \in [Procs -> Contents]
    /\ \A p \in Procs : Writing(p) => gen[p] \in Gens /\ step[p] \in 1..4

\* OpenSSL compared what a process has loaded.
Loaded ==
    \A p \in Procs :
        /\ pc[p] = "load_key" => cert[p].gen > 0
        /\ pc[p] = "serving" => cert[p].gen > 0 /\ key[p].gen = cert[p].gen

Clean == mishaps \cap {"overlap", "lost"} = {}

\* One start writes at a time, the files in Order: those before its step are of
\* its pair, the one it has open is empty.
OneWriter ==
    \A p \in Procs : Writing(p) =>
        /\ \A q \in Procs : Writing(q) => q = p
        /\ \A i \in 1..4 : i < step[p] => files[Order[i]].gen = gen[p]
        /\ pc[p] = "finish" => files[Order[step[p]]] = Empty

\* Until the leaf is begun there is no leaf; from then on every file exists, so
\* nobody begins again, and whoever still writes has the leaf open.
LeafBegun ==
    files["leaf_crt"] # Absent =>
        /\ AlreadyThere
        /\ \A p \in Procs : Writing(p) => pc[p] = "finish" /\ step[p] = 4

\* A leaf that is complete belongs to a complete set.
LeafCompletes ==
    Complete("leaf_crt") =>
        /\ \A f \in Files : files[f].gen = files["leaf_crt"].gen
        /\ \A p \in Procs : ~Writing(p)

\* What is loaded is what is on disk, still.
LoadedFromDisk ==
    \A p \in Procs : pc[p] \in {"load_key", "serving"} =>
        Complete("leaf_crt") /\ cert[p].gen = files["leaf_crt"].gen

CleanInv == Clean => OneWriter /\ LeafBegun /\ LeafCompletes /\ LoadedFromDisk

IInv == Types /\ Loaded /\ CleanInv

----------------------------------------------------------------------------

\* The four files, in the order they are written
LEMMA FourFiles ==
    /\ Len(Order) = 4
    /\ Order[1] = "ca_key" /\ Order[2] = "ca_crt" /\ Order[3] = "leaf_key" /\ Order[4] = "leaf_crt"
    /\ Files = {"ca_key", "ca_crt", "leaf_key", "leaf_crt"}
    /\ \A i \in 1..4 : Order[i] \in Files
    /\ \A i, j \in 1..4 : Order[i] = Order[j] => i = j
    /\ \A f \in Files : \E i \in 1..4 : Order[i] = f
<1>1. /\ Len(Order) = 4 /\ DOMAIN Order = 1..4
      /\ Order[1] = "ca_key" /\ Order[2] = "ca_crt" /\ Order[3] = "leaf_key" /\ Order[4] = "leaf_crt"
  BY DEF Order
<1>2. 1..4 = {1, 2, 3, 4}
  OBVIOUS
<1>3. Files = {Order[1], Order[2], Order[3], Order[4]}
  <2>1. Files = {Order[i] : i \in 1..4}
    BY <1>1 DEF Files, ToSet
  <2> QED BY <1>2, <2>1
<1> QED BY <1>1, <1>2, <1>3

\* The name of a pair is neither that of an absent file nor that of an empty one.
LEMMA GensArePositive == \A g \in Gens : g \in Int /\ g > 0
<1> SUFFICES ASSUME NEW g \in Gens PROVE g \in Int /\ g > 0
  OBVIOUS
<1>1. g \in Nat /\ g # 0
  BY ProvisionAssumption
<1> QED BY <1>1

\* A pair's name says that there is something in the file.
LEMMA GenOfContents ==
    ASSUME NEW x \in Contents
    PROVE  x.gen \in Int /\ (x.gen > 0 => x.gen \in Gens) /\ (x = Absent => ~(x.gen > 0))
           /\ (x = Empty => ~(x.gen > 0) /\ x # Absent)
<1>1. Absent.gen = 0 /\ Empty.gen = -1
  BY DEF Absent, Empty
<1>2. CASE x \in [gen : Gens, ip : Hosts \cup {None}]
  <2>1. x.gen \in Gens
    BY <1>2
  <2>2. x.gen \in Int /\ x.gen > 0
    BY <2>1, GensArePositive
  <2> QED BY <1>1, <2>1, <2>2
<1> QED BY <1>1, <1>2 DEF Contents

\* A name that nothing uses is one of Gens.
LEMMA FreshIsNew ==
    ASSUME Unused # {}
    PROVE  Fresh \in Gens
BY DEF Unused, Fresh

\* Whatever writes a file writes one of the contents there are; a step of the
\* order is one of four.
LEMMA TypesPreserved == Types /\ [Next]_vars => Types'
<1> SUFFICES ASSUME Types, [Next]_vars PROVE Types'
  OBVIOUS
<1> USE FourFiles, ProvisionAssumption DEF To, Writing, history
<1>1. Absent \in Contents /\ Empty \in Contents
  BY DEF Contents
<1>2. ASSUME NEW p \in Procs, NEW h \in Hosts, Start(p, h) PROVE Types'
  BY <1>2 DEF Types, Start
<1>3. ASSUME NEW p \in Procs, Gone(p), UNCHANGED files PROVE Types'
  BY <1>1, <1>3 DEF Types, Gone
<1>4. ASSUME NEW p \in Procs, Ensured(p) PROVE Types'
  BY <1>4 DEF Types, Ensured
<1>5. ASSUME NEW p \in Procs, Generate(p) PROVE Types'
  <2>1. Fresh \in Gens
    BY <1>5, FreshIsNew DEF Generate
  <2> HIDE DEF Fresh
  <2> QED BY <1>5, <2>1 DEF Types, Generate
<1>6. ASSUME NEW p \in Procs, Open(p) PROVE Types'
  <2>1. step[p] \in 1..4 /\ Order[step[p]] \in Files
    BY <1>6 DEF Types, Open
  <2> QED BY <1>1, <1>6, <2>1 DEF Types, Open
<1>7. ASSUME NEW p \in Procs, Writing(p), Onward(p), UNCHANGED <<host, cert, key>>,
             files' \in [Files -> Contents]
      PROVE  Types'
  <2>1. step[p] \in 1..4 /\ gen[p] \in Gens
    BY <1>7 DEF Types
  <2>2. CASE step[p] < 4
    BY <1>7, <2>1, <2>2 DEF Types, Onward
  <2>3. CASE step[p] = 4
    BY <1>7, <2>1, <2>3 DEF Types, Onward
  <2> QED BY <2>1, <2>2, <2>3
<1>8. ASSUME NEW p \in Procs, Write(p) PROVE Types'
  <2>1. gen[p] \in Gens /\ host[p] \in Hosts \cup {None}
    BY <1>8 DEF Types, Write
  <2>2. Content(p, Order[step[p]]) \in Contents
    BY <2>1 DEF Content, Contents
  <2>3. files' \in [Files -> Contents]
    BY <1>8, <2>2 DEF Types, Write
  <2> QED BY <1>7, <1>8, <2>3 DEF Write
<1>9. ASSUME NEW p \in Procs, WriteLost(p) PROVE Types'
  BY <1>7, <1>9 DEF Types, WriteLost
<1>10. ASSUME NEW p \in Procs, LoadCert(p) PROVE Types'
  <2>1. CASE Gone(p)
    BY <1>3, <1>10, <2>1 DEF LoadCert
  <2>2. CASE ~Gone(p)
    BY <1>10, <2>2 DEF Types, LoadCert
  <2> QED BY <2>1, <2>2
<1>11. ASSUME NEW p \in Procs, LoadKey(p) PROVE Types'
  <2>1. CASE Gone(p)
    BY <1>3, <1>11, <2>1 DEF LoadKey
  <2>2. CASE ~Gone(p)
    BY <1>11, <2>2 DEF Types, LoadKey
  <2> QED BY <2>1, <2>2
<1>12. ASSUME NEW p \in Procs, Dies(p) \/ Stop(p) PROVE Types'
  BY <1>3, <1>12 DEF Dies, Stop
<1>13. CASE UNCHANGED vars
  BY <1>13 DEF Types, vars, process
<1> QED BY <1>2, <1>4, <1>5, <1>6, <1>8, <1>9, <1>10, <1>11, <1>12, <1>13 DEF Next, Run

\* Only the two loads bring a process to serve, and what they loaded stays.
LEMMA LoadedPreserved == Types /\ Loaded /\ [Next]_vars => Loaded'
<1> SUFFICES ASSUME Types, Loaded, [Next]_vars, NEW p \in Procs
             PROVE  /\ pc'[p] = "load_key" => cert'[p].gen > 0
                    /\ pc'[p] = "serving" => cert'[p].gen > 0 /\ key'[p].gen = cert'[p].gen
  BY DEF Loaded
<1> USE DEF To
<1>1. ASSUME NEW q \in Procs, Gone(q)
      PROVE  /\ pc'[p] = "load_key" => cert'[p].gen > 0
             /\ pc'[p] = "serving" => cert'[p].gen > 0 /\ key'[p].gen = cert'[p].gen
  BY <1>1 DEF Types, Loaded, Gone
<1>2. ASSUME NEW q \in Procs, LoadCert(q), ~Gone(q)
      PROVE  /\ pc'[p] = "load_key" => cert'[p].gen > 0
             /\ pc'[p] = "serving" => cert'[p].gen > 0 /\ key'[p].gen = cert'[p].gen
  BY <1>2 DEF Types, Loaded, LoadCert, Complete
<1>3. ASSUME NEW q \in Procs, LoadKey(q), ~Gone(q)
      PROVE  /\ pc'[p] = "load_key" => cert'[p].gen > 0
             /\ pc'[p] = "serving" => cert'[p].gen > 0 /\ key'[p].gen = cert'[p].gen
  BY <1>3 DEF Types, Loaded, LoadKey, KeyFits, Complete
<1>4. ASSUME UNCHANGED <<cert, key>>, pc'[p] \in {"load_key", "serving"} => pc'[p] = pc[p]
      PROVE  /\ pc'[p] = "load_key" => cert'[p].gen > 0
             /\ pc'[p] = "serving" => cert'[p].gen > 0 /\ key'[p].gen = cert'[p].gen
  BY <1>4 DEF Loaded
<1>5. ASSUME NEW q \in Procs,
             \/ \E h \in Hosts : Start(q, h)
             \/ Ensured(q) \/ Generate(q) \/ Open(q) \/ Write(q) \/ WriteLost(q)
      PROVE  UNCHANGED <<cert, key>> /\ (pc'[p] \in {"load_key", "serving"} => pc'[p] = pc[p])
  <2>1. \E place \in {"check", "load", "open", "finish"} : To(q, place)
    BY <1>5 DEF Start, Ensured, Generate, Open, Write, WriteLost, Onward
  <2>2. UNCHANGED <<cert, key>>
    BY <1>5 DEF Start, Ensured, Generate, Open, Write, WriteLost
  <2> QED BY <2>1, <2>2 DEF Types
<1>6. CASE UNCHANGED vars
  BY <1>4, <1>6 DEF vars, process
<1>7. ASSUME NEW q \in Procs, Dies(q) \/ Stop(q)
      PROVE  Gone(q)
  BY <1>7 DEF Dies, Stop
<1> QED BY <1>1, <1>2, <1>3, <1>4, <1>5, <1>6, <1>7 DEF Next, Run

----------------------------------------------------------------------------

\* While no start has written beside another and no write was lost, a process
\* that goes to a place where it neither writes nor has loaded anything, by a step
\* that leaves the files alone, disturbs nobody.
LEMMA LeavingPreserves ==
    ASSUME Types, OneWriter, LeafBegun, LeafCompletes, LoadedFromDisk,
           UNCHANGED files, NEW p \in Procs,
           pc'[p] \in {"idle", "check", "load"},
           \A q \in Procs : q # p => /\ pc'[q] = pc[q] /\ gen'[q] = gen[q]
                                     /\ step'[q] = step[q] /\ cert'[q] = cert[q]
    PROVE  OneWriter' /\ LeafBegun' /\ LeafCompletes' /\ LoadedFromDisk'
<1> USE DEF Writing, Complete
<1>1. \A q \in Procs : Writing(q)' => q # p /\ Writing(q)
  OBVIOUS
<1>2. OneWriter'
  BY <1>1, FourFiles DEF OneWriter, Empty
<1>3. LeafBegun'
  BY <1>1 DEF LeafBegun, AlreadyThere, Absent
<1>4. LeafCompletes'
  BY <1>1 DEF LeafCompletes
<1>5. LoadedFromDisk'
  BY DEF LoadedFromDisk
<1> QED BY <1>2, <1>3, <1>4, <1>5

\* A start that finds files missing has no leaf to disturb, and begins alone.
LEMMA GeneratePreserves ==
    ASSUME Types, OneWriter, LeafBegun, LeafCompletes, LoadedFromDisk,
           NEW p \in Procs, Generate(p), Clean'
    PROVE  OneWriter' /\ LeafBegun' /\ LeafCompletes' /\ LoadedFromDisk'
<1> USE DEF Complete
<1>1. \A q \in Procs : ~Writing(q)
  BY DEF Generate, Clean
<1>2. /\ files["leaf_crt"] = Absent /\ UNCHANGED <<files, cert>>
      /\ pc' = [pc EXCEPT ![p] = "open"] /\ step' = [step EXCEPT ![p] = 1]
      /\ gen' = [gen EXCEPT ![p] = Fresh]
  BY DEF LeafBegun, Generate, To
<1>3. pc'[p] = "open" /\ step'[p] = 1 /\ \A q \in Procs : q # p => pc'[q] = pc[q]
  BY <1>2 DEF Types
<1>4. OneWriter'
  <2>1. \A i \in 1..4 : ~(i < step'[p])
    BY <1>3
  <2>2. \A q \in Procs : Writing(q)' => q = p
    BY <1>1, <1>3 DEF Writing
  <2> QED BY <1>3, <2>1, <2>2 DEF OneWriter
<1>5. LeafBegun'
  BY <1>2 DEF LeafBegun, Absent
<1>6. LeafCompletes'
  BY <1>2 DEF LeafCompletes, Absent
<1>7. LoadedFromDisk'
  BY <1>2, <1>3 DEF LoadedFromDisk
<1> QED BY <1>4, <1>5, <1>6, <1>7

\* Who opens a file has no leaf on disk yet; with the leaf, the last, every file
\* is there.
LEMMA OpenPreserves ==
    ASSUME Types, OneWriter, LeafBegun, LeafCompletes, LoadedFromDisk,
           NEW p \in Procs, Open(p)
    PROVE  OneWriter' /\ LeafBegun' /\ LeafCompletes' /\ LoadedFromDisk'
<1> DEFINE k == step[p]
<1> USE FourFiles
<1>1. /\ pc[p] = "open" /\ k \in 1..4 /\ gen[p] \in Gens /\ Writing(p)
      /\ files' = [files EXCEPT ![Order[k]] = Empty] /\ pc' = [pc EXCEPT ![p] = "finish"]
      /\ UNCHANGED <<gen, step, cert>>
  BY DEF Types, Open, Writing, To
<1> HIDE DEF k
<1>2. pc'[p] = "finish" /\ \A q \in Procs : q # p => pc'[q] = pc[q]
  BY <1>1 DEF Types
<1>3. files'[Order[k]] = Empty /\ \A f \in Files : f # Order[k] => files'[f] = files[f]
  BY <1>1 DEF Types
<1>4. files["leaf_crt"] = Absent
  BY <1>1 DEF LeafBegun
<1>5. Empty # Absent /\ ~(Empty.gen > 0) /\ ~(Absent.gen > 0)
  BY DEF Empty, Absent
<1>6. \A q \in Procs : Writing(q)' <=> Writing(q)
  BY <1>1, <1>2 DEF Writing
<1>7. \A q \in Procs : Writing(q) => q = p
  BY <1>1 DEF OneWriter
<1>8. \A i \in 1..4 : i < k => files'[Order[i]] = files[Order[i]] /\ files[Order[i]].gen = gen[p]
  BY <1>1, <1>3 DEF OneWriter, k
<1>9. OneWriter'
  <2> SUFFICES ASSUME NEW q \in Procs, Writing(q)'
               PROVE  /\ \A r \in Procs : Writing(r)' => r = q
                      /\ \A i \in 1..4 : i < step'[q] => files'[Order[i]].gen = gen'[q]
                      /\ pc'[q] = "finish" => files'[Order[step'[q]]] = Empty
    BY DEF OneWriter, Empty
  <2>1. q = p /\ step'[q] = k /\ gen'[q] = gen[p]
    BY <1>1, <1>6, <1>7 DEF k
  <2> QED BY <1>3, <1>6, <1>7, <1>8, <2>1
<1>10. LeafBegun'
  <2>1. ASSUME files'["leaf_crt"] # Absent
        PROVE  k = 4 /\ \A f \in Files : files'[f] # Absent
    <3>1. Order[k] = "leaf_crt"
      BY <1>3, <1>4, <2>1
    <3>2. k = 4
      BY <1>1, <3>1
    <3>3. \A i \in 1..4 : i < 4 => files'[Order[i]] # Absent
      <4>1. ~(gen[p] = 0)
        BY <1>1, ProvisionAssumption
      <4> QED BY <1>8, <3>2, <4>1 DEF Absent
    <3>4. \A i \in 1..4 : files'[Order[i]] # Absent
      BY <1>3, <1>5, <3>2, <3>3
    <3> QED BY <3>2, <3>4
  <2> QED BY <1>1, <1>2, <1>6, <1>7, <2>1 DEF LeafBegun, AlreadyThere, Absent, k
<1>11. ~(files'["leaf_crt"].gen > 0) /\ ~(files["leaf_crt"].gen > 0)
  BY <1>3, <1>4, <1>5
<1>12. LeafCompletes'
  BY <1>11 DEF LeafCompletes, Complete
<1>13. LoadedFromDisk'
  BY <1>1, <1>2, <1>11 DEF LoadedFromDisk, Complete
<1> QED BY <1>9, <1>10, <1>12, <1>13

\* What is written completes its file; with the leaf the set is complete, and the
\* one that wrote it is done.
LEMMA WritePreserves ==
    ASSUME Types, OneWriter, LeafBegun, LeafCompletes, LoadedFromDisk,
           NEW p \in Procs, Write(p)
    PROVE  OneWriter' /\ LeafBegun' /\ LeafCompletes' /\ LoadedFromDisk'
<1> DEFINE k == step[p]
           content == Content(p, Order[k])
<1> USE FourFiles
<1>1. /\ pc[p] = "finish" /\ k \in 1..4 /\ gen[p] \in Gens /\ Writing(p)
      /\ files' = [files EXCEPT ![Order[k]] = content] /\ cert' = cert
      /\ content.gen = gen[p] /\ files[Order[k]] = Empty
  BY DEF Types, Write, Writing, Content, OneWriter
<1>2. /\ k < 4 => pc' = [pc EXCEPT ![p] = "open"] /\ step' = [step EXCEPT ![p] = k + 1] /\ gen' = gen
      /\ k = 4 => /\ pc' = [pc EXCEPT ![p] = "load"] /\ step' = [step EXCEPT ![p] = 0]
                  /\ gen' = [gen EXCEPT ![p] = 0]
  BY DEF Write, Onward, To
<1> HIDE DEF k, content
<1>3. \A q \in Procs : q # p => pc'[q] = pc[q] /\ ~Writing(q)
  BY <1>1, <1>2 DEF Types, OneWriter
<1>4. files'[Order[k]] = content /\ \A f \in Files : f # Order[k] => files'[f] = files[f]
  BY <1>1 DEF Types
<1>5. gen[p] > 0 /\ content # Absent
  BY <1>1, GensArePositive DEF Absent
<1>6. \A i \in 1..4 : i <= k => files'[Order[i]].gen = gen[p]
  <2> SUFFICES ASSUME NEW i \in 1..4, i <= k PROVE files'[Order[i]].gen = gen[p]
    OBVIOUS
  <2>1. CASE i = k
    BY <1>1, <1>4, <2>1
  <2>2. CASE i # k
    <3>1. i < k /\ Order[i] # Order[k]
      BY <1>1, <2>2
    <3> QED BY <1>1, <1>4, <3>1 DEF OneWriter, k
  <2> QED BY <2>1, <2>2
<1>7. CASE k < 4
  <2>1. files["leaf_crt"] = Absent /\ files'["leaf_crt"] = Absent
    <3>1. Order[k] # "leaf_crt"
      BY <1>1, <1>7
    <3> QED BY <1>1, <1>4, <1>7, <3>1 DEF LeafBegun, k
  <2>2. pc'[p] = "open" /\ step'[p] = k + 1 /\ gen'[p] = gen[p]
    BY <1>2, <1>7 DEF Types
  <2>3. \A q \in Procs : Writing(q)' => q = p
    BY <1>3 DEF Writing
  <2>4. \A i \in 1..4 : i < k + 1 => files'[Order[i]].gen = gen[p]
    BY <1>1, <1>6
  <2>5. OneWriter'
    BY <2>2, <2>3, <2>4 DEF OneWriter
  <2>6. LeafBegun' /\ LeafCompletes'
    BY <2>1 DEF LeafBegun, LeafCompletes, Complete, Absent
  <2>7. LoadedFromDisk'
    BY <1>1, <1>3, <2>1, <2>2 DEF LoadedFromDisk, Complete, Absent
  <2> QED BY <2>5, <2>6, <2>7
<1>8. CASE k = 4
  <2>1. \A f \in Files : files'[f].gen = gen[p]
    BY <1>6, <1>8
  <2>2. pc'[p] = "load" /\ \A q \in Procs : ~Writing(q)'
    BY <1>2, <1>3, <1>8 DEF Types, Writing
  <2>3. \A f \in Files : files'[f] # Absent
    BY <1>5, <2>1 DEF Absent
  <2>4. OneWriter' /\ LeafCompletes'
    BY <2>1, <2>2 DEF OneWriter, LeafCompletes
  <2>5. LeafBegun'
    BY <2>2, <2>3 DEF LeafBegun, AlreadyThere, Absent
  <2>6. \A q \in Procs : pc[q] \notin {"load_key", "serving"}
    BY <1>1, <1>8 DEF LoadedFromDisk, Complete, Empty
  <2>7. LoadedFromDisk'
    BY <1>3, <2>2, <2>6 DEF LoadedFromDisk
  <2> QED BY <2>4, <2>5, <2>7
<1> QED BY <1>1, <1>7, <1>8

\* A load takes what is on disk, and what is on disk and complete stays.
LEMMA LoadsPreserve ==
    ASSUME Types, OneWriter, LeafBegun, LeafCompletes, LoadedFromDisk,
           NEW p \in Procs, LoadCert(p) \/ LoadKey(p), ~Gone(p)
    PROVE  OneWriter' /\ LeafBegun' /\ LeafCompletes' /\ LoadedFromDisk'
<1> USE DEF Complete, To
<1>1. /\ UNCHANGED <<files, gen, step>>
      /\ pc'[p] \in {"load_key", "serving"} /\ \A q \in Procs : q # p => pc'[q] = pc[q]
  BY DEF Types, LoadCert, LoadKey
<1>2. files["leaf_crt"].gen > 0 /\ cert'[p].gen = files["leaf_crt"].gen
      /\ \A q \in Procs : q # p => cert'[q] = cert[q]
  <2>1. CASE LoadCert(p)
    BY <2>1 DEF Types, LoadCert
  <2>2. CASE LoadKey(p)
    BY <2>2 DEF Types, LoadKey, LoadedFromDisk
  <2> QED BY <2>1, <2>2
<1>3. \A q \in Procs : Writing(q)' => q # p /\ Writing(q)
  BY <1>1 DEF Writing
<1>4. OneWriter'
  BY <1>1, <1>3 DEF OneWriter, Empty, Writing
<1>5. LeafBegun'
  BY <1>1, <1>3 DEF LeafBegun, AlreadyThere, Absent
<1>6. LeafCompletes'
  BY <1>1, <1>3 DEF LeafCompletes
<1>7. LoadedFromDisk'
  BY <1>1, <1>2 DEF LoadedFromDisk
<1> QED BY <1>4, <1>5, <1>6, <1>7

\* As long as no two starts have written at once and no write was lost unnoticed,
\* the files and what was loaded from them fit together, after any crash.
LEMMA CleanPreserved == Types /\ CleanInv /\ [Next]_vars => CleanInv'
<1> SUFFICES ASSUME Types, CleanInv, [Next]_vars, Clean'
             PROVE  OneWriter' /\ LeafBegun' /\ LeafCompletes' /\ LoadedFromDisk'
  BY DEF CleanInv
<1>1. Clean
  <2>1. ASSUME NEW p \in Procs, Generate(p) \/ WriteLost(p) \/ Dies(p) PROVE mishaps \subseteq mishaps'
    BY <2>1 DEF Generate, WriteLost, Dies
  <2>2. ASSUME NEW p \in Procs, Ensured(p) \/ Open(p) \/ Write(p) \/ LoadCert(p) \/ LoadKey(p) \/ Stop(p)
        PROVE  mishaps' = mishaps
    BY <2>2 DEF Ensured, Open, Write, LoadCert, LoadKey, Stop, history
  <2>3. ASSUME NEW p \in Procs, NEW h \in Hosts, Start(p, h) PROVE mishaps' = mishaps
    BY <2>3 DEF Start, history
  <2>4. ASSUME UNCHANGED vars PROVE mishaps' = mishaps
    BY <2>4 DEF vars, history
  <2>5. mishaps \subseteq mishaps'
    BY <2>1, <2>2, <2>3, <2>4 DEF Next, Run
  <2> QED BY <2>5 DEF Clean
<1>2. OneWriter /\ LeafBegun /\ LeafCompletes /\ LoadedFromDisk
  BY <1>1 DEF CleanInv
<1>3. ASSUME NEW p \in Procs, Gone(p), UNCHANGED files
      PROVE  OneWriter' /\ LeafBegun' /\ LeafCompletes' /\ LoadedFromDisk'
  BY <1>2, <1>3, LeavingPreserves DEF Types, Gone, To
<1>4. ASSUME NEW p \in Procs, NEW h \in Hosts, Start(p, h)
      PROVE  OneWriter' /\ LeafBegun' /\ LeafCompletes' /\ LoadedFromDisk'
  BY <1>2, <1>4, LeavingPreserves DEF Types, Start, To
<1>5. ASSUME NEW p \in Procs, Ensured(p)
      PROVE  OneWriter' /\ LeafBegun' /\ LeafCompletes' /\ LoadedFromDisk'
  BY <1>2, <1>5, LeavingPreserves DEF Types, Ensured, To
<1>6. ASSUME NEW p \in Procs, Generate(p)
      PROVE  OneWriter' /\ LeafBegun' /\ LeafCompletes' /\ LoadedFromDisk'
  BY <1>2, <1>6, GeneratePreserves
<1>7. ASSUME NEW p \in Procs, Open(p)
      PROVE  OneWriter' /\ LeafBegun' /\ LeafCompletes' /\ LoadedFromDisk'
  BY <1>2, <1>7, OpenPreserves
<1>8. ASSUME NEW p \in Procs, Write(p)
      PROVE  OneWriter' /\ LeafBegun' /\ LeafCompletes' /\ LoadedFromDisk'
  BY <1>2, <1>8, WritePreserves
<1>9. ASSUME NEW p \in Procs, WriteLost(p) PROVE FALSE
  BY <1>9 DEF WriteLost, Clean
<1>10. ASSUME NEW p \in Procs, LoadCert(p) \/ LoadKey(p)
       PROVE  OneWriter' /\ LeafBegun' /\ LeafCompletes' /\ LoadedFromDisk'
  <2>1. UNCHANGED files
    BY <1>10 DEF LoadCert, LoadKey
  <2>2. CASE Gone(p)
    BY <1>3, <2>1, <2>2
  <2>3. CASE ~Gone(p)
    BY <1>2, <1>10, <2>3, LoadsPreserve
  <2> QED BY <2>2, <2>3
<1>11. ASSUME NEW p \in Procs, Dies(p) \/ Stop(p)
       PROVE  OneWriter' /\ LeafBegun' /\ LeafCompletes' /\ LoadedFromDisk'
  BY <1>3, <1>11 DEF Dies, Stop
<1>12. CASE UNCHANGED vars
  <2>1. UNCHANGED <<files, pc, gen, step, cert>>
    BY <1>12 DEF vars, process
  <2>2. \A p \in Procs : Writing(p)' <=> Writing(p)
    BY <2>1 DEF Writing
  <2>3. OneWriter' /\ LeafCompletes'
    BY <1>2, <2>1, <2>2 DEF OneWriter, LeafCompletes, Complete, Empty
  <2>4. LeafBegun' /\ LoadedFromDisk'
    BY <1>2, <2>1, <2>2 DEF LeafBegun, LoadedFromDisk, AlreadyThere, Complete, Absent
  <2> QED BY <2>3, <2>4
<1> QED BY <1>4, <1>5, <1>6, <1>7, <1>8, <1>9, <1>10, <1>11, <1>12 DEF Next, Run

\* A first start finds no files.
LEMMA InitEstablishes == Init => IInv
<1> SUFFICES ASSUME Init PROVE IInv
  OBVIOUS
<1> USE FourFiles DEF Init
<1>1. files["leaf_crt"] = Absent /\ \A p \in Procs : pc[p] = "idle" /\ ~Writing(p)
  BY DEF Writing
<1>2. Types
  BY <1>1 DEF Types, Contents
<1>3. Loaded
  BY <1>1 DEF Loaded
<1>4. OneWriter /\ LeafBegun /\ LeafCompletes /\ LoadedFromDisk
  BY <1>1 DEF OneWriter, LeafBegun, LeafCompletes, LoadedFromDisk, Complete, Absent
<1> QED BY <1>2, <1>3, <1>4 DEF IInv, CleanInv

\* However many starts, stops, crashes and failed writes there are, and in any
\* order, the invariant holds.
THEOREM Inductive == Spec => []IInv
<1>1. IInv /\ [Next]_vars => IInv'
  BY TypesPreserved, LoadedPreserved, CleanPreserved DEF IInv
<1> QED BY <1>1, InitEstablishes, PTL DEF Spec

\* A bridge serves with a certificate and the key that belongs to it.
THEOREM PairsMatch == Spec => []ServesMatchingPair
<1>1. IInv => ServesMatchingPair
  BY DEF IInv, Loaded, ServesMatchingPair
<1> QED BY <1>1, Inductive, PTL

\* The CA on disk, which the user imports, is the one that signed what is served,
\* after any crash, unless two starts wrote at once or a write was lost unnoticed.
THEOREM LeafIsTrusted == Spec => []ServedLeafIsTrusted
<1>1. IInv => ServedLeafIsTrusted
  <2> SUFFICES ASSUME IInv, Clean, NEW p \in Procs, pc[p] = "serving"
               PROVE  files["ca_crt"].gen = cert[p].gen
    BY DEF ServedLeafIsTrusted, Clean
  <2>1. LeafCompletes /\ LoadedFromDisk
    BY DEF IInv, CleanInv
  <2> QED BY <2>1, FourFiles DEF LeafCompletes, LoadedFromDisk
<1> QED BY <1>1, Inductive, PTL

\* A complete set of files that nobody is writing is never touched again, by any
\* start, stop or crash.
THEOREM CompleteSetLasts == Spec => TrustLasts
<1>1. IInv /\ [Next]_vars => (Settled => Settled' /\ files' = files)
  <2> SUFFICES ASSUME IInv, [Next]_vars, Settled PROVE Settled' /\ files' = files
    OBVIOUS
  <2> USE DEF To
  <2>1. AlreadyThere /\ (\A p \in Procs : pc[p] \notin {"open", "finish"})
    BY DEF Settled, AlreadyThere, Absent, Complete, Writing
  <2>2. ASSUME NEW p \in Procs, NEW place \in {"check", "load", "load_key", "serving", "idle"},
               To(p, place), UNCHANGED files
        PROVE  Settled' /\ files' = files
    <3>1. \A q \in Procs : ~Writing(q)'
      BY <2>1, <2>2 DEF IInv, Types, Writing
    <3> QED BY <2>2, <3>1 DEF Settled, Complete
  <2>3. ASSUME NEW p \in Procs, NEW h \in Hosts, Start(p, h) PROVE Settled' /\ files' = files
    BY <2>2, <2>3 DEF Start
  <2>4. ASSUME NEW p \in Procs, Ensured(p) PROVE Settled' /\ files' = files
    BY <2>2, <2>4 DEF Ensured
  <2>5. ASSUME NEW p \in Procs, Generate(p) \/ Open(p) \/ Write(p) \/ WriteLost(p) PROVE FALSE
    BY <2>1, <2>5 DEF Generate, Open, Write, WriteLost
  <2>6. ASSUME NEW p \in Procs, LoadCert(p) \/ LoadKey(p) \/ Dies(p) \/ Stop(p)
        PROVE  Settled' /\ files' = files
    BY <2>2, <2>6 DEF LoadCert, LoadKey, Dies, Stop, Gone
  <2>7. CASE UNCHANGED vars
    BY <2>7 DEF vars, process, Settled, Complete, Writing
  <2> QED BY <2>3, <2>4, <2>5, <2>6, <2>7 DEF Next, Run
<1> QED BY <1>1, Inductive, PTL DEF TrustLasts, Spec
=============================================================================
