--------------------------- MODULE RegistryProofs ---------------------------
(***************************************************************************)
(* Proofs about Registry, for any processes, agents, paths, keys, drafts   *)
(* and bounds.                                                             *)
(***************************************************************************)
EXTENDS Registry, WellFoundedInduction, TLAPS

-----------------------------------------------------------------------------
(* The first of a set of numbers. *)

(* Min, which is a CHOOSE, of a set of natural numbers.                    *)
LEMMA MinOfNumbers ==
  ASSUME NEW S \in SUBSET Nat, S # {}
  PROVE  /\ Min(S) \in S
         /\ \A x \in S : Min(S) <= x
<1> DEFINE R == {ss \in Nat \X Nat : ss[1] < ss[2]}
<1>1. IsWellFoundedOn(R, Nat)
  BY NatLessThanWellFounded DEF OpToRel
<1> HIDE DEF R
<1>2. \E x \in S : \A y \in S : ~ (<<y, x>> \in R)
  BY <1>1, WFMin
<1>3. PICK x \in S : \A y \in S : ~ (<<y, x>> \in R)
  BY <1>2
<1>4. \A y \in S : ~ (y < x)
  BY <1>3 DEF R
<1>5. \E m \in S : \A y \in S : m <= y
  BY <1>4
<1> QED
  BY <1>5 DEF Min

Contents == Manifests \cup {Absent, Damaged}

States == {Idle} \cup Writers \cup Scanners \cup Publishers
          \cup Askers \cup Unlisted \cup Answered

-----------------------------------------------------------------------------
(* Types. *)

(* What a process is doing is told by its pc.                              *)
LEMMA Kinds ==
  ASSUME NEW t \in States
  PROVE  /\ t.pc \in {"ready", "open"} => t \in Writers
         /\ t.pc = "scan" => t \in Scanners
         /\ t.pc = "publish" => t \in Publishers
         /\ t.pc = "asked" => t \in Askers
         /\ t.pc = "unlisted" => t \in Unlisted
         /\ t.pc = "answered" => t \in Answered
         /\ t = Idle <=> t.pc = "idle"
<1>1. CASE t = Idle
  BY <1>1 DEF Idle
<1>2. CASE t \in Writers
  BY <1>2 DEF Writers, Idle
<1>3. CASE t \in Scanners
  BY <1>3 DEF Scanners, Idle
<1>4. CASE t \in Publishers
  BY <1>4 DEF Publishers, Idle
<1>5. CASE t \in Askers
  BY <1>5 DEF Askers, Idle
<1>6. CASE t \in Unlisted
  BY <1>6 DEF Unlisted, Idle
<1>7. CASE t \in Answered
  BY <1>7 DEF Answered, Idle
<1> QED
  BY <1>1, <1>2, <1>3, <1>4, <1>5, <1>6, <1>7 DEF States

(* A manifest, signed, is a manifest that verifies, and what was signed is *)
(* what its signature is over.                                             *)
LEMMA SignedIsManifest ==
  ASSUME NEW m \in Manifests, NEW key \in Keys, NEW id \in KeyIds
  PROVE  LET s == Signed(m, key, id)
         IN  /\ s \in Manifests
             /\ Payload(s) \in Payloads
             /\ Verified(s)
             /\ s.sig = [id |-> id, key |-> key, over |-> Payload(s)]
<1> DEFINE merged == [m EXCEPT !.keys[id] = key]
           s == Signed(m, key, id)
<1>1. /\ merged \in Manifests
      /\ merged.keys \in [KeyIds -> Keys \cup {NoKey}]
      /\ merged.keys[id] = key
  BY DEF Manifests
<1>2. Payload(merged) \in Payloads
  BY <1>1 DEF Payload, Payloads, Manifests
<1>3. s = [merged EXCEPT !.sig = [id |-> id, key |-> key, over |-> Payload(merged)]]
  BY DEF Signed
<1> HIDE DEF merged, s
<1>4. [id |-> id, key |-> key, over |-> Payload(merged)] \in Signatures
  BY <1>2 DEF Signatures
<1>5. /\ s \in Manifests
      /\ s.sig = [id |-> id, key |-> key, over |-> Payload(merged)]
      /\ s.agent = merged.agent /\ s.declares = merged.declares /\ s.keys = merged.keys
  BY <1>1, <1>3, <1>4 DEF Manifests
<1>6. Payload(s) = Payload(merged)
  BY <1>5 DEF Payload
<1>7. s.sig # NoSig
  BY <1>4, <1>5, ValuesDiffer
<1>8. Verified(s)
  BY <1>1, <1>5, <1>6, <1>7 DEF Verified
<1> QED
  BY <1>2, <1>5, <1>6, <1>8 DEF s

(* What a person makes of a manifest is a manifest; its signature, if it   *)
(* is one at all, is the one that was there.                               *)
LEMMA EditedIsManifest ==
  ASSUME NEW m \in Manifests, NEW e \in Edited(m)
  PROVE  /\ e \in Manifests
         /\ \/ e.sig = m.sig
            \/ e.sig # NoSig /\ e.sig.key = Bad
<1>1. CASE \E d \in SUBSET Scopes : e = [m EXCEPT !.declares = d]
  BY <1>1 DEF Manifests
<1>2. CASE \E id \in KeyIds, k \in Keys \cup {NoKey} : e = [m EXCEPT !.keys[id] = k]
  BY <1>2 DEF Manifests
<1>3. CASE m.sig # NoSig /\ e = [m EXCEPT !.sig.key = Bad]
  <2>1. m.sig \in Signatures
    BY <1>3 DEF Manifests
  <2>2. [m.sig EXCEPT !.key = Bad] \in Signatures
    BY <2>1 DEF Signatures
  <2>3. [m.sig EXCEPT !.key = Bad].key = Bad
    BY <2>1 DEF Signatures
  <2>4. e \in Manifests /\ e.sig = [m.sig EXCEPT !.key = Bad]
    BY <1>3, <2>2 DEF Manifests
  <2> QED
    BY <2>2, <2>3, <2>4, ValuesDiffer
<1> QED
  BY <1>1, <1>2, <1>3 DEF Edited

LEMMA RowIsRow ==
  ASSUME NEW q \in Paths, NEW m \in Manifests
  PROVE  Row(q, m) \in Rows
BY DEF Row, Rows, Manifests, Verified

LEMMA InitTypes == Init => TypeOK
<1> SUFFICES ASSUME Init PROVE TypeOK
  OBVIOUS
<1>1. disk \in [Paths -> Contents]
  BY DraftsAreUnsigned DEF Init, Contents
<1>2. ps \in [Procs -> States]
  BY DEF Init, States
<1> QED
  BY <1>1, <1>2 DEF Init, TypeOK, Contents, States

(* The types again, with their sets named.                                 *)
LEMMA TypeIs ==
  TypeOK <=> /\ disk \in [Paths -> Contents]
             /\ index \subseteq Rows
             /\ readable \in BOOLEAN
             /\ ps \in [Procs -> States]
             /\ changes \in Nat
             /\ touched \subseteq Paths
             /\ moved \in [Procs -> SUBSET Paths]
             /\ behind \subseteq Procs
             /\ signed \subseteq Keys \X Payloads
             /\ sealed \subseteq Paths
BY DEF TypeOK, Contents, States

LEMMA TypeIsPrime ==
  TypeOK' <=> /\ disk' \in [Paths -> Contents]
              /\ index' \subseteq Rows
              /\ readable' \in BOOLEAN
              /\ ps' \in [Procs -> States]
              /\ changes' \in Nat
              /\ touched' \subseteq Paths
              /\ moved' \in [Procs -> SUBSET Paths]
              /\ behind' \subseteq Procs
              /\ signed' \subseteq Keys \X Payloads
              /\ sealed' \subseteq Paths
BY DEF TypeOK, Contents, States

(* What a person may write into a file.                                    *)
LEMMA HandEditWrites ==
  ASSUME TypeOK, NEW q \in Paths, HandEdit(q)
  PROVE  \E content \in Contents : Changes(q, content)
<1>1. PICK content : /\ content \in Drafts \cup {Absent, Damaged} \cup {disk[r] : r \in Paths}
                              \cup (IF disk[q] \in Manifests THEN Edited(disk[q]) ELSE {})
                     /\ Changes(q, content)
  BY DEF HandEdit
<1>2. content \in Contents
  <2>1. CASE content \in Drafts
    BY <2>1, DraftsAreUnsigned DEF Contents
  <2>2. CASE content \in {disk[r] : r \in Paths}
    BY <2>2, TypeIs
  <2>3. CASE disk[q] \in Manifests /\ content \in Edited(disk[q])
    BY <2>3, EditedIsManifest DEF Contents
  <2> QED
    BY <1>1, <2>1, <2>2, <2>3 DEF Contents
<1> QED
  BY <1>1, <1>2

LEMMA ChangesTypes ==
  ASSUME TypeOK, NEW q \in Paths, NEW content \in Contents, Changes(q, content)
  PROVE  /\ disk' \in [Paths -> Contents]
         /\ changes' \in Nat
         /\ touched' \subseteq Paths
         /\ moved' \in [Procs -> SUBSET Paths]
BY TypeIs DEF Changes

LEMMA GoesTypes ==
  ASSUME TypeOK, NEW p \in Procs, NEW state \in States, Goes(p, state)
  PROVE  /\ ps' \in [Procs -> States]
         /\ ps'[p] = state
         /\ \A x \in Procs \ {p} : ps'[x] = ps[x]
BY TypeIs DEF Goes

LEMMA EndsTypes ==
  ASSUME TypeOK, NEW p \in Procs, Ends(p)
  PROVE  /\ ps' \in [Procs -> States]
         /\ ps'[p] = Idle
         /\ \A x \in Procs \ {p} : ps'[x] = ps[x] /\ moved'[x] = moved[x]
         /\ moved' \in [Procs -> SUBSET Paths]
         /\ behind' \subseteq Procs
         /\ behind' = behind \ {p}
BY TypeIs, GoesTypes DEF Ends, States

LEMMA BeginsTypes ==
  ASSUME TypeOK, NEW p \in Procs, NEW state \in States, Begins(p, state)
  PROVE  /\ ps[p] = Idle
         /\ ps' \in [Procs -> States]
         /\ ps'[p] = state
         /\ \A x \in Procs \ {p} : ps'[x] = ps[x] /\ moved'[x] = moved[x]
         /\ moved' \in [Procs -> SUBSET Paths]
         /\ moved'[p] = {}
BY TypeIs, GoesTypes DEF Begins, Free

LEMMA KeptFinds ==
  ASSUME NEW found \in SUBSET Finds, NEW q \in Paths, NEW m \in Manifests
  PROVE  Kept(found, q, m) \in SUBSET Finds
BY DEF Kept, Finds

(* The path a process reads next.                                          *)
LEMMA NextPath ==
  ASSUME NEW t \in Scanners, t.todo # {}
  PROVE  /\ Min(t.todo) \in t.todo
         /\ Min(t.todo) \in Paths
         /\ \A q \in t.todo : Min(t.todo) <= q
<1>1. t.todo \in SUBSET Nat /\ t.todo \subseteq Paths
  BY PathsAreOrdered DEF Scanners
<1> QED
  BY <1>1, MinOfNumbers

(* The states the steps of a build lead to.                                *)
LEMMA ScanStates ==
  ASSUME TypeOK, NEW p \in Procs, ps[p].pc = "scan"
  PROVE  LET t == ps[p]
             q == Min(t.todo)
         IN  /\ t \in Scanners
             /\ [t EXCEPT !.tree = "discovered", !.todo = Present(Discovered)] \in Scanners
             /\ [pc |-> "publish", rows |-> {Row(f.path, f.manifest) : f \in t.found}] \in Publishers
             /\ t.todo # {} /\ disk[q] \in Manifests =>
                  [t EXCEPT !.todo = t.todo \ {q}, !.found = Kept(t.found, q, disk[q])] \in Scanners
<1> DEFINE t == ps[p]
           q == Min(t.todo)
<1>1. t \in Scanners
  BY Kinds, TypeIs
<1>2. Present(Discovered) \subseteq Paths
  BY DEF Present, Paths
<1>3. [t EXCEPT !.tree = "discovered", !.todo = Present(Discovered)] \in Scanners
  BY <1>1, <1>2 DEF Scanners
<1>4. [pc |-> "publish", rows |-> {Row(f.path, f.manifest) : f \in t.found}] \in Publishers
  <2>1. \A f \in t.found : f.path \in Paths /\ f.manifest \in Manifests
    BY <1>1 DEF Scanners, Finds
  <2>2. {Row(f.path, f.manifest) : f \in t.found} \subseteq Rows
    BY <2>1, RowIsRow
  <2> QED
    BY <2>2 DEF Publishers
<1>5. ASSUME t.todo # {}, disk[q] \in Manifests
      PROVE  [t EXCEPT !.todo = t.todo \ {q}, !.found = Kept(t.found, q, disk[q])] \in Scanners
  <2>1. q \in Paths
    BY <1>1, <1>5, NextPath
  <2>2. Kept(t.found, q, disk[q]) \in SUBSET Finds
    BY <1>1, <1>5, <2>1, KeptFinds DEF Scanners
  <2> QED
    BY <1>1, <2>2 DEF Scanners
<1> QED
  BY <1>1, <1>3, <1>4, <1>5

(* A signature made with a key was made by somebody who signed.            *)
SigKnown(m, done) == m.sig # NoSig /\ m.sig.key \in Keys => <<m.sig.key, m.sig.over>> \in done

(* The drafts of the commands are manifests, signed or not.                *)
LEMMA DraftSteps ==
  ASSUME TypeOK, NEW p, NEW q, NEW m \in Drafts, NEW by,
         \/ RegisterDiscovered(p, q, m, by)
         \/ \E key \in Keys, id \in KeyIds : ImportScan(p, q, m, key, id, by)
  PROVE  \E hand \in Manifests : /\ Draft(p, q, hand, by)
                                 /\ signed \subseteq signed' /\ signed' \subseteq Keys \X Payloads
                                 /\ SigKnown(hand, signed')
<1>1. m \in Manifests /\ m.sig = NoSig
  BY DraftsAreUnsigned
<1>2. CASE RegisterDiscovered(p, q, m, by)
  BY <1>1, <1>2, TypeIs DEF RegisterDiscovered, SigKnown
<1>3. ASSUME NEW key \in Keys, NEW id \in KeyIds, ImportScan(p, q, m, key, id, by)
      PROVE  \E hand \in Manifests : /\ Draft(p, q, hand, by)
                                     /\ signed \subseteq signed' /\ signed' \subseteq Keys \X Payloads
                                     /\ SigKnown(hand, signed')
  <2> DEFINE hand == Signed(m, key, id)
  <2>1. Draft(p, q, hand, by) /\ signed' = signed \cup {<<key, Payload(hand)>>}
    BY <1>3 DEF ImportScan, Signs
  <2>2. /\ hand \in Manifests /\ Payload(hand) \in Payloads
        /\ hand.sig = [id |-> id, key |-> key, over |-> Payload(hand)]
    BY <1>1, SignedIsManifest
  <2> HIDE DEF hand
  <2>3. SigKnown(hand, signed')
    BY <2>1, <2>2 DEF SigKnown
  <2>4. signed' \subseteq Keys \X Payloads
    BY <2>1, <2>2, TypeIs
  <2> QED
    BY <2>1, <2>2, <2>3, <2>4
<1> QED
  BY <1>2, <1>3

LEMMA TypeStep == TypeOK /\ [Next]_vars => TypeOK'
<1> SUFFICES ASSUME TypeOK, [Next]_vars PROVE TypeOK'
  OBVIOUS
<1> USE TypeIs, TypeIsPrime
<1>1. ASSUME NEW q \in Paths, HandEdit(q) PROVE TypeOK'
  <2>1. PICK content \in Contents : Changes(q, content)
    BY <1>1, HandEditWrites
  <2> QED
    BY <1>1, <2>1, ChangesTypes DEF HandEdit
<1>2. ASSUME NEW p \in Procs, NEW q \in Paths, NEW key \in Keys, NEW id \in KeyIds,
             LoadAndSign(p, q, key, id)
      PROVE  TypeOK'
  <2> DEFINE hand == Signed(disk[q], key, id)
             state == [pc |-> "ready", path |-> q, hand |-> hand, by |-> "sign"]
  <2>1. disk[q] \in Manifests /\ Begins(p, state) /\ signed' = signed \cup {<<key, Payload(hand)>>}
    BY <1>2 DEF LoadAndSign, Signs
  <2>2. hand \in Manifests /\ Payload(hand) \in Payloads
    BY <2>1, SignedIsManifest
  <2>3. state \in States
    BY <2>2 DEF Writers, States
  <2> HIDE DEF hand, state
  <2>4. ps' \in [Procs -> States] /\ moved' \in [Procs -> SUBSET Paths]
    BY <2>1, <2>3, BeginsTypes
  <2> QED
    BY <1>2, <2>1, <2>2, <2>4 DEF LoadAndSign
<1>3. ASSUME NEW p \in Procs, NEW q \in Discovered, NEW m \in Manifests,
             NEW by \in {"draft", "overwrite"}, Draft(p, q, m, by),
             signed' \subseteq Keys \X Payloads
      PROVE  TypeOK'
  <2> DEFINE state == [pc |-> "ready", path |-> q, hand |-> m, by |-> by]
  <2>1. state \in States
    BY DEF Writers, States, Paths
  <2>2. Begins(p, state)
    BY <1>3 DEF Draft
  <2> HIDE DEF state
  <2>3. ps' \in [Procs -> States] /\ moved' \in [Procs -> SUBSET Paths]
    BY <2>1, <2>2, BeginsTypes
  <2> QED
    BY <1>3, <2>3 DEF Draft
<1>4. ASSUME NEW p \in Procs, OpenFile(p) PROVE TypeOK'
  <2>1. ps[p] \in Writers
    BY <1>4, Kinds DEF OpenFile
  <2>2. ps[p].path \in Paths /\ [ps[p] EXCEPT !.pc = "open"] \in States
    BY <2>1 DEF Writers, States
  <2>3. Damaged \in Contents
    BY DEF Contents
  <2>4. ps' \in [Procs -> States]
    BY <1>4, <2>2, GoesTypes DEF OpenFile
  <2> QED
    BY <1>4, <2>2, <2>3, <2>4, ChangesTypes DEF OpenFile
<1>5. ASSUME NEW p \in Procs, WriteFile(p) PROVE TypeOK'
  <2>1. ps[p] \in Writers
    BY <1>5, Kinds DEF WriteFile
  <2>2. ps[p].path \in Paths /\ ps[p].hand \in Contents
    BY <2>1 DEF Writers, Contents
  <2>3. PICK content \in {ps[p].hand} \cup {Damaged, disk[ps[p].path]} :
             /\ disk' = [disk EXCEPT ![ps[p].path] = content]
             /\ sealed' \subseteq sealed \cup {ps[p].path}
    BY <1>5 DEF WriteFile
  <2>4. content \in Contents
    BY <2>2, <2>3 DEF Contents
  <2>5. disk' \in [Paths -> Contents] /\ sealed' \subseteq Paths
    BY <2>2, <2>3, <2>4
  <2>6. ps' \in [Procs -> States]
    BY <1>5, GoesTypes DEF WriteFile, States
  <2>7. touched' \subseteq Paths /\ moved' \in [Procs -> SUBSET Paths]
    BY <1>5, <2>2 DEF WriteFile
  <2> QED
    BY <1>5, <2>5, <2>6, <2>7 DEF WriteFile
<1>6. ASSUME NEW p \in Procs, BeginBuild(p) PROVE TypeOK'
  <2> DEFINE state == [pc |-> "scan", tree |-> "agents", todo |-> Present(Canonical), found |-> {}]
  <2>1. state \in States
    BY DEF States, Scanners, Present, Paths
  <2>2. Begins(p, state)
    BY <1>6 DEF BeginBuild
  <2> HIDE DEF state
  <2>3. ps' \in [Procs -> States] /\ moved' \in [Procs -> SUBSET Paths]
    BY <2>1, <2>2, BeginsTypes
  <2> QED
    BY <1>6, <2>3 DEF BeginBuild
<1>7. ASSUME NEW p \in Procs, LoadNext(p) PROVE TypeOK'
  <2>1. ps' \in [Procs -> States] /\ moved' \in [Procs -> SUBSET Paths] /\ behind' \subseteq Procs
    BY <1>7, ScanStates, GoesTypes, EndsTypes DEF LoadNext, States
  <2> QED
    BY <1>7, <2>1 DEF LoadNext, Files
<1>8. ASSUME NEW p \in Procs, ListDiscovered(p) PROVE TypeOK'
  <2>1. ps' \in [Procs -> States]
    BY <1>8, ScanStates, GoesTypes DEF ListDiscovered, States
  <2> QED
    BY <1>8, <2>1 DEF ListDiscovered, Files
<1>9. ASSUME NEW p \in Procs, OpenIndex(p) PROVE TypeOK'
  <2>1. ps' \in [Procs -> States] /\ moved' \in [Procs -> SUBSET Paths] /\ behind' \subseteq Procs
    BY <1>9, ScanStates, GoesTypes, EndsTypes DEF OpenIndex, States, Requesting
  <2>2. index' \subseteq Rows /\ readable' \in BOOLEAN /\ touched' \subseteq Paths
    BY <1>9 DEF OpenIndex
  <2> QED
    BY <1>9, <2>1, <2>2 DEF OpenIndex
<1>10. ASSUME NEW p \in Procs, WriteIndex(p) PROVE TypeOK'
  <2>1. ps[p].rows \subseteq Rows
    BY <1>10, Kinds DEF WriteIndex, Publishers
  <2>2. ps' \in [Procs -> States]
    BY <1>10, GoesTypes DEF WriteIndex, States
  <2> QED
    BY <1>10, <2>1, <2>2 DEF WriteIndex, Requesting
<1>11. ASSUME NEW p \in Procs, NEW agent \in Agents, NEW needs \in SUBSET Scopes,
              Ask(p, agent, needs)
       PROVE  TypeOK'
  <2>1. PICK state \in States : Begins(p, state)
    <3>1. ASSUME NEW r \in index
          PROVE  [pc |-> "asked", agent |-> agent, needs |-> needs, path |-> r.path] \in States
      BY DEF Rows, Askers, States
    <3>2. [pc |-> "unlisted", agent |-> agent] \in States
      BY DEF Unlisted, States
    <3> QED
      BY <1>11, <3>1, <3>2 DEF Ask
  <2>2. ps' \in [Procs -> States] /\ moved' \in [Procs -> SUBSET Paths]
    BY <2>1, BeginsTypes
  <2> QED
    BY <1>11, <2>2 DEF Ask
<1>12. ASSUME NEW p \in Procs, ReadManifest(p) PROVE TypeOK'
  <2>1. ps[p] \in Askers
    BY <1>12, Kinds DEF ReadManifest
  <2>2. ASSUME NEW said \in {"unreadable", "mismatch", "undeclared", "admitted"}, Answer(p, said)
        PROVE  /\ ps' \in [Procs -> States]
               /\ moved' = moved /\ behind' = behind
    <3>1. [pc |-> "answered", agent |-> ps[p].agent, needs |-> ps[p].needs,
           path |-> ps[p].path, said |-> said] \in States
      BY <2>1 DEF Askers, Answered, States
    <3> QED
      BY <2>2, <3>1, GoesTypes DEF Answer
  <2>3. Check(ps[p], disk[ps[p].path]) \in {"mismatch", "undeclared", "admitted"}
    BY DEF Check
  <2>4. ps' \in [Procs -> States] /\ moved' \in [Procs -> SUBSET Paths] /\ behind' \subseteq Procs
    BY <1>12, <2>2, <2>3, EndsTypes DEF ReadManifest
  <2> QED
    BY <1>12, <2>4 DEF ReadManifest, Files
<1>13. ASSUME NEW p \in Procs, End(p) PROVE TypeOK'
  BY <1>13, EndsTypes DEF End, Files
<1>14. CASE UNCHANGED vars
  BY <1>14 DEF vars
<1>15. ASSUME NEW p \in Procs, NEW q \in Discovered, NEW m \in Drafts,
              NEW by \in {"draft", "overwrite"},
              \/ RegisterDiscovered(p, q, m, by)
              \/ \E key \in Keys, id \in KeyIds : ImportScan(p, q, m, key, id, by)
       PROVE  TypeOK'
  <2>1. PICK hand \in Manifests : Draft(p, q, hand, by) /\ signed' \subseteq Keys \X Payloads
    BY <1>15, DraftSteps
  <2> QED
    BY <1>3, <2>1
<1> QED
  BY <1>1, <1>2, <1>4, <1>5, <1>6, <1>7, <1>8, <1>9, <1>10, <1>11, <1>12, <1>13, <1>14, <1>15 DEF Next

(* The types of the variables.                                             *)
THEOREM RegistryTypes == Spec => []TypeOK
<1>1. Init => TypeOK
  BY InitTypes
<1>2. TypeOK /\ [Next]_vars => TypeOK'
  BY TypeStep
<1> QED
  BY <1>1, <1>2, PTL DEF Spec

-----------------------------------------------------------------------------
(* The two kinds of steps. *)

(* A file changes, and every build and draft in hand is told.              *)
FileStep(q) ==
  /\ \A r \in Paths \ {q} : disk'[r] = disk[r]
  /\ UNCHANGED <<index, readable, behind, signed>>
  /\ readable => touched \cup {q} \subseteq touched'
  /\ \A x \in Procs :
       /\ \/ ps'[x] = ps[x]
          \/ ps[x].pc \in {"ready", "open"} /\ ps'[x].pc \in {"open", "idle"}
       /\ Watching(x) => moved[x] \cup {q} \subseteq moved'[x]

(* No file changes, and one process goes on.                               *)
LocalStep(p) ==
  /\ disk' = disk
  /\ \A x \in Procs \ {p} : ps'[x] = ps[x] /\ moved'[x] = moved[x]

LEMMA HandEditIsFileStep ==
  ASSUME TypeOK, NEW q \in Paths, HandEdit(q)
  PROVE  FileStep(q)
<1>1. PICK content \in Contents : Changes(q, content)
  BY HandEditWrites
<1> QED
  BY <1>1, TypeIs DEF HandEdit, Changes, FileStep

LEMMA OpenFileIsFileStep ==
  ASSUME TypeOK, NEW p \in Procs, OpenFile(p)
  PROVE  /\ ps[p] \in Writers
         /\ ps'[p] = [ps[p] EXCEPT !.pc = "open"]
         /\ \A x \in Procs \ {p} : ps'[x] = ps[x]
         /\ FileStep(ps[p].path)
<1>1. ps[p] \in Writers
  BY Kinds, TypeIs DEF OpenFile
<1>2. ps[p].path \in Paths /\ [ps[p] EXCEPT !.pc = "open"].pc = "open"
  BY <1>1 DEF Writers
<1>3. /\ ps'[p] = [ps[p] EXCEPT !.pc = "open"]
      /\ \A x \in Procs \ {p} : ps'[x] = ps[x]
  BY TypeIs DEF OpenFile, Goes
<1> QED
  BY <1>1, <1>2, <1>3, TypeIs DEF OpenFile, Changes, FileStep

LEMMA WriteFileIsFileStep ==
  ASSUME TypeOK, NEW p \in Procs, WriteFile(p)
  PROVE  /\ ps[p] \in Writers
         /\ ps'[p] = Idle
         /\ \A x \in Procs \ {p} : ps'[x] = ps[x]
         /\ FileStep(ps[p].path)
<1>1. ps[p] \in Writers
  BY Kinds, TypeIs DEF WriteFile
<1>2. ps[p].path \in Paths /\ Idle.pc = "idle"
  BY <1>1 DEF Writers, Idle
<1>3. /\ ps'[p] = Idle
      /\ \A x \in Procs \ {p} : ps'[x] = ps[x]
  BY TypeIs DEF WriteFile, Goes
<1>4. PICK content : disk' = [disk EXCEPT ![ps[p].path] = content]
  BY DEF WriteFile
<1> QED
  BY <1>1, <1>2, <1>3, <1>4, TypeIs DEF WriteFile, FileStep

(* The steps that leave the files alone, and what they make of ps[p].      *)
LEMMA LocalSteps ==
  ASSUME TypeOK, NEW p \in Procs
  PROVE  /\ \A q, key, id : LoadAndSign(p, q, key, id) => LocalStep(p)
         /\ \A q, m, by : Draft(p, q, m, by) => LocalStep(p)
         /\ BeginBuild(p) \/ LoadNext(p) \/ ListDiscovered(p) \/ OpenIndex(p) \/ WriteIndex(p)
              => LocalStep(p)
         /\ \A agent, needs : Ask(p, agent, needs) => LocalStep(p)
         /\ ReadManifest(p) \/ End(p) => LocalStep(p)
<1>1. ASSUME NEW state, Goes(p, state) PROVE \A x \in Procs \ {p} : ps'[x] = ps[x]
  BY <1>1, TypeIs DEF Goes
<1>2. ASSUME NEW state, Begins(p, state)
      PROVE  \A x \in Procs \ {p} : ps'[x] = ps[x] /\ moved'[x] = moved[x]
  BY <1>1, <1>2, TypeIs DEF Begins
<1>3. ASSUME Ends(p)
      PROVE  \A x \in Procs \ {p} : ps'[x] = ps[x] /\ moved'[x] = moved[x]
  BY <1>1, <1>3, TypeIs DEF Ends
<1>4. \A q, key, id : LoadAndSign(p, q, key, id) => LocalStep(p)
  BY <1>2 DEF LoadAndSign, LocalStep
<1>5. \A q, m, by : Draft(p, q, m, by) => LocalStep(p)
  BY <1>2 DEF Draft, LocalStep
<1>6. BeginBuild(p) => LocalStep(p)
  BY <1>2 DEF BeginBuild, LocalStep
<1>7. LoadNext(p) => LocalStep(p)
  BY <1>1, <1>3 DEF LoadNext, Files, LocalStep
<1>8. ListDiscovered(p) => LocalStep(p)
  BY <1>1 DEF ListDiscovered, Files, LocalStep
<1>9. OpenIndex(p) => LocalStep(p)
  BY <1>1, <1>3 DEF OpenIndex, LocalStep
<1>10. WriteIndex(p) => LocalStep(p)
  BY <1>1, TypeIs DEF WriteIndex, LocalStep
<1>11. \A agent, needs : Ask(p, agent, needs) => LocalStep(p)
  BY <1>2 DEF Ask, LocalStep
<1>12. ReadManifest(p) => LocalStep(p)
  BY <1>1, <1>3 DEF ReadManifest, Answer, Files, LocalStep
<1>13. End(p) => LocalStep(p)
  BY <1>3 DEF End, Files, LocalStep
<1> QED
  BY <1>4, <1>5, <1>6, <1>7, <1>8, <1>9, <1>10, <1>11, <1>12, <1>13

-----------------------------------------------------------------------------
(* The index. *)

(* Faithful, of given files.                                               *)
FaithfulTo(files, rows, changed) ==
  /\ \A r, s \in rows : r.agent = s.agent => r = s
  /\ \A r \in rows : r.path \notin changed =>
       files[r.path] \in Manifests /\ r = Row(r.path, files[r.path])
  /\ \A q \in Paths \ changed :
       /\ files[q] # Damaged
       /\ files[q] \in Manifests => \E r \in rows : r.agent = files[q].agent /\ r.path <= q

(* What a build has found tells the truth of the files it has passed, as   *)
(* far as they have not changed since it began.                            *)
ScanOK(files, t, changed) ==
  /\ \A f, g \in t.found : f.manifest.agent = g.manifest.agent => f = g
  /\ \A f \in t.found : f.path \notin changed => files[f.path] = f.manifest
  /\ t.tree = "agents" =>
       t.todo \subseteq Canonical /\ \A f \in t.found : f.path \in Canonical
  /\ t.tree = "discovered" => t.todo \subseteq Discovered
  /\ \A f \in t.found, q \in t.todo : f.path <= q
  /\ \A q \in Paths \ changed :
       \/ q \in t.todo
       \/ t.tree = "agents" /\ q \in Discovered
       \/ files[q] = Absent
       \/ files[q] \in Manifests
          /\ \E f \in t.found : f.manifest.agent = files[q].agent /\ f.path <= q

BuildsOK ==
  \A p \in Procs :
    /\ ps[p].pc = "scan" => ScanOK(disk, ps[p], moved[p])
    /\ ps[p].pc = "publish" => FaithfulTo(disk, ps[p].rows, moved[p])

(* A file that changes is one more whose truth is not claimed.             *)
LEMMA FaithfulAfterChange ==
  ASSUME NEW files, NEW later, NEW q \in Paths, \A r \in Paths \ {q} : later[r] = files[r],
         NEW rows \in SUBSET Rows, NEW before, NEW after, before \cup {q} \subseteq after,
         FaithfulTo(files, rows, before)
  PROVE  FaithfulTo(later, rows, after)
<1>1. \A r \in rows : r.path \in Paths
  BY DEF Rows
<1> QED
  BY <1>1 DEF FaithfulTo

LEMMA ScanOKAfterChange ==
  ASSUME NEW files, NEW later, NEW q \in Paths, \A r \in Paths \ {q} : later[r] = files[r],
         NEW t \in Scanners, NEW before, NEW after, before \cup {q} \subseteq after,
         ScanOK(files, t, before)
  PROVE  ScanOK(later, t, after)
<1>1. \A f \in t.found : f.path \in Paths
  BY DEF Scanners, Finds
<1> QED
  BY <1>1 DEF ScanOK

(* A build that begins.                                                    *)
LEMMA ScanOKAtFirst ==
  ASSUME TypeOK, NEW t, t.found = {}, t.tree = "agents", t.todo = Present(Canonical)
  PROVE  ScanOK(disk, t, {})
BY DEF ScanOK, Present, Paths

(* A build that loads a manifest.                                          *)
LEMMA ScanOKAfterLoad ==
  ASSUME TypeOK, NEW t \in Scanners, NEW changed, ScanOK(disk, t, changed), t.todo # {},
         NEW q, q = Min(t.todo), disk[q] \in Manifests
  PROVE  ScanOK(disk, [t EXCEPT !.todo = t.todo \ {q}, !.found = Kept(t.found, q, disk[q])], changed)
<1> DEFINE u == [t EXCEPT !.todo = t.todo \ {q}, !.found = Kept(t.found, q, disk[q])]
           new == [path |-> q, manifest |-> disk[q]]
<1>1. /\ u.todo = t.todo \ {q} /\ u.tree = t.tree
      /\ u.found = Kept(t.found, q, disk[q])
  BY DEF Scanners
<1>2. /\ q \in t.todo /\ q \in Paths /\ q \in Nat
      /\ \A r \in t.todo : q <= r
  BY NextPath, PathsAreOrdered
<1>3. \/ /\ \E f \in t.found : f.manifest.agent = disk[q].agent
         /\ u.found = t.found
      \/ /\ \A f \in t.found : f.manifest.agent # disk[q].agent
         /\ u.found = t.found \cup {new}
  BY <1>1 DEF Kept
<1>4. new.path = q /\ new.manifest = disk[q]
  OBVIOUS
<1> HIDE DEF u, new
<1>5. \A f, g \in u.found : f.manifest.agent = g.manifest.agent => f = g
  BY <1>3, <1>4 DEF ScanOK
<1>6. \A f \in u.found : f.path \notin changed => disk[f.path] = f.manifest
  BY <1>3, <1>4 DEF ScanOK
<1>7. u.tree = "agents" =>
        u.todo \subseteq Canonical /\ \A f \in u.found : f.path \in Canonical
  BY <1>1, <1>2, <1>3, <1>4 DEF ScanOK
<1>8. u.tree = "discovered" => u.todo \subseteq Discovered
  BY <1>1 DEF ScanOK
<1>9. \A f \in u.found, r \in u.todo : f.path <= r
  BY <1>1, <1>2, <1>3, <1>4 DEF ScanOK
<1>10. \E f \in u.found : f.manifest.agent = disk[q].agent /\ f.path <= q
  BY <1>2, <1>3, <1>4 DEF ScanOK
<1>11. \A r \in Paths \ changed :
         \/ r \in u.todo
         \/ u.tree = "agents" /\ r \in Discovered
         \/ disk[r] = Absent
         \/ disk[r] \in Manifests
            /\ \E f \in u.found : f.manifest.agent = disk[r].agent /\ f.path <= r
  <2> SUFFICES ASSUME NEW r \in Paths \ changed, r # q, r \notin t.todo,
                      ~(t.tree = "agents" /\ r \in Discovered), disk[r] # Absent
               PROVE  disk[r] \in Manifests
                      /\ \E f \in u.found : f.manifest.agent = disk[r].agent /\ f.path <= r
    BY <1>1, <1>10
  <2> QED
    BY <1>3 DEF ScanOK
<1> QED
  BY <1>5, <1>6, <1>7, <1>8, <1>9, <1>11 DEF ScanOK, u

(* A build that goes on to the discovered directory.                       *)
LEMMA ScanOKAfterListing ==
  ASSUME TypeOK, NEW t \in Scanners, NEW changed, ScanOK(disk, t, changed),
         t.todo = {}, t.tree = "agents"
  PROVE  ScanOK(disk, [t EXCEPT !.tree = "discovered", !.todo = Present(Discovered)], changed)
<1> DEFINE u == [t EXCEPT !.tree = "discovered", !.todo = Present(Discovered)]
<1>1. u.todo = Present(Discovered) /\ u.tree = "discovered" /\ u.found = t.found
  BY DEF Scanners
<1> HIDE DEF u
<1>2. \A f \in u.found, q \in u.todo : f.path <= q
  <2> SUFFICES ASSUME NEW f \in u.found, NEW q \in u.todo PROVE f.path <= q
    OBVIOUS
  <2>1. f.path \in Canonical /\ q \in Discovered
    BY <1>1 DEF ScanOK, Present
  <2>2. f.path < q /\ f.path \in Nat /\ q \in Nat
    BY <2>1, PathsAreOrdered DEF Paths
  <2> QED
    BY <2>2
<1>3. \A q \in Paths \ changed :
        \/ q \in u.todo
        \/ disk[q] = Absent
        \/ disk[q] \in Manifests
           /\ \E f \in u.found : f.manifest.agent = disk[q].agent /\ f.path <= q
  BY <1>1 DEF ScanOK, Present
<1> QED
  BY <1>1, <1>2, <1>3 DEF ScanOK, Present, u

(* A build that has passed all files.                                      *)
LEMMA FaithfulAfterScan ==
  ASSUME TypeOK, NEW t \in Scanners, NEW changed, ScanOK(disk, t, changed),
         t.todo = {}, t.tree = "discovered"
  PROVE  FaithfulTo(disk, {Row(f.path, f.manifest) : f \in t.found}, changed)
<1> DEFINE rows == {Row(f.path, f.manifest) : f \in t.found}
<1>1. \A q, m : Row(q, m).path = q /\ Row(q, m).agent = m.agent
  BY DEF Row
<1>2. \A r, s \in rows : r.agent = s.agent => r = s
  BY <1>1 DEF ScanOK
<1>3. \A f \in t.found : f.manifest \in Manifests /\ f.path \in Paths
  BY DEF Scanners, Finds
<1>4. \A r \in rows : r.path \notin changed =>
        disk[r.path] \in Manifests /\ r = Row(r.path, disk[r.path])
  BY <1>1, <1>3 DEF ScanOK
<1>5. \A f \in t.found : Row(f.path, f.manifest) \in rows
  OBVIOUS
<1> HIDE DEF rows
<1>6. ASSUME NEW q \in Paths \ changed
      PROVE  /\ disk[q] # Damaged
             /\ disk[q] \in Manifests => \E r \in rows : r.agent = disk[q].agent /\ r.path <= q
  <2>1. \/ disk[q] = Absent
        \/ disk[q] \in Manifests
           /\ \E f \in t.found : f.manifest.agent = disk[q].agent /\ f.path <= q
    BY DEF ScanOK
  <2>2. disk[q] # Damaged
    BY <2>1, ValuesDiffer
  <2>3. ASSUME disk[q] \in Manifests PROVE \E r \in rows : r.agent = disk[q].agent /\ r.path <= q
    <3>1. PICK f \in t.found : f.manifest.agent = disk[q].agent /\ f.path <= q
      BY <2>1, <2>3, ValuesDiffer
    <3> QED
      BY <1>1, <1>5, <3>1
  <2> QED
    BY <2>2, <2>3
<1>7. FaithfulTo(disk, rows, changed)
  BY <1>2, <1>4, <1>6 DEF FaithfulTo
<1> QED
  BY <1>7 DEF rows

(* After a file step the builds in hand still tell the truth.              *)
LEMMA BuildFileStep ==
  ASSUME TypeOK, BuildsOK, NEW q \in Paths, FileStep(q)
  PROVE  BuildsOK'
<1> SUFFICES ASSUME NEW x \in Procs
             PROVE  /\ ps'[x].pc = "scan" => ScanOK(disk', ps'[x], moved'[x])
                    /\ ps'[x].pc = "publish" => FaithfulTo(disk', ps'[x].rows, moved'[x])
  BY DEF BuildsOK
<1>1. \A r \in Paths \ {q} : disk'[r] = disk[r]
  BY DEF FileStep
<1>2. ps'[x].pc \in {"scan", "publish"} => ps'[x] = ps[x] /\ moved[x] \cup {q} \subseteq moved'[x]
  BY DEF FileStep, Watching
<1>3. ASSUME ps'[x].pc = "scan" PROVE ScanOK(disk', ps'[x], moved'[x])
  <2>1. ps[x] \in Scanners /\ ScanOK(disk, ps[x], moved[x])
    BY <1>2, <1>3, TypeIs, Kinds DEF BuildsOK
  <2> QED
    BY <1>1, <1>2, <1>3, <2>1, ScanOKAfterChange
<1>4. ASSUME ps'[x].pc = "publish" PROVE FaithfulTo(disk', ps'[x].rows, moved'[x])
  <2>1. ps[x] \in Publishers /\ FaithfulTo(disk, ps[x].rows, moved[x])
    BY <1>2, <1>4, TypeIs, Kinds DEF BuildsOK
  <2>2. ps[x].rows \in SUBSET Rows
    BY <2>1 DEF Publishers
  <2>3. ps'[x] = ps[x] /\ moved[x] \cup {q} \subseteq moved'[x]
    BY <1>2, <1>4
  <2>4. FaithfulTo(disk', ps[x].rows, moved'[x])
    BY <1>1, <2>1, <2>2, <2>3, FaithfulAfterChange
  <2> QED
    BY <2>3, <2>4
<1> QED
  BY <1>3, <1>4

(* A step that changes no file keeps the builds true if it keeps its own.  *)
LEMMA BuildLocalStep ==
  ASSUME BuildsOK, NEW p \in Procs, LocalStep(p),
         ps'[p].pc = "scan" => ScanOK(disk, ps'[p], moved'[p]),
         ps'[p].pc = "publish" => FaithfulTo(disk, ps'[p].rows, moved'[p])
  PROVE  BuildsOK'
<1> SUFFICES ASSUME NEW x \in Procs
             PROVE  /\ ps'[x].pc = "scan" => ScanOK(disk', ps'[x], moved'[x])
                    /\ ps'[x].pc = "publish" => FaithfulTo(disk', ps'[x].rows, moved'[x])
  BY DEF BuildsOK
<1>1. disk' = disk
  BY DEF LocalStep
<1>2. CASE x = p
  BY <1>1, <1>2
<1>3. CASE x # p
  BY <1>1, <1>3 DEF LocalStep, BuildsOK
<1> QED
  BY <1>2, <1>3

(* Where a request and a build go on to.                                   *)
LEMMA AskGoes ==
  ASSUME NEW p \in Procs, NEW agent, NEW needs, Ask(p, agent, needs)
  PROVE  \E state : Goes(p, state) /\ state.pc \in {"asked", "unlisted"}
<1>1. ASSUME NEW r \in index,
             Goes(p, [pc |-> "asked", agent |-> agent, needs |-> needs, path |-> r.path])
      PROVE  \E state : Goes(p, state) /\ state.pc \in {"asked", "unlisted"}
  BY <1>1
<1>2. ASSUME Goes(p, [pc |-> "unlisted", agent |-> agent])
      PROVE  \E state : Goes(p, state) /\ state.pc \in {"asked", "unlisted"}
  BY <1>2
<1> QED
  BY <1>1, <1>2 DEF Ask, Begins

LEMMA ScanGoes ==
  ASSUME NEW p \in Procs, ps[p] \in Scanners, LoadNext(p) \/ ListDiscovered(p)
  PROVE  \E state : Goes(p, state) /\ state.pc \in {"scan", "idle"}
<1>1. ASSUME NEW todo, NEW found PROVE [ps[p] EXCEPT !.todo = todo, !.found = found].pc = "scan"
  BY DEF Scanners
<1>2. [ps[p] EXCEPT !.tree = "discovered", !.todo = Present(Discovered)].pc = "scan"
  BY DEF Scanners
<1>3. Idle.pc = "idle"
  BY DEF Idle
<1>4. CASE LoadNext(p)
  <2>1. \/ \E todo, found : Goes(p, [ps[p] EXCEPT !.todo = todo, !.found = found])
        \/ Goes(p, Idle)
    BY <1>4 DEF LoadNext, Ends
  <2> QED
    BY <1>1, <1>3, <2>1
<1>5. CASE ListDiscovered(p)
  BY <1>2, <1>5 DEF ListDiscovered
<1> QED
  BY <1>4, <1>5

LEMMA BuildStep == TypeOK /\ BuildsOK /\ [Next]_vars => BuildsOK'
<1> SUFFICES ASSUME TypeOK, BuildsOK, [Next]_vars PROVE BuildsOK'
  OBVIOUS
<1>0. Idle \in States /\ Idle.pc = "idle"
  BY DEF Idle, States
<1>1. ASSUME NEW q \in Paths, HandEdit(q) PROVE BuildsOK'
  BY <1>1, HandEditIsFileStep, BuildFileStep
<1>2. ASSUME NEW p \in Procs, OpenFile(p) \/ WriteFile(p) PROVE BuildsOK'
  <2>1. ps[p].path \in Paths /\ FileStep(ps[p].path)
    BY <1>2, OpenFileIsFileStep, WriteFileIsFileStep DEF Writers
  <2> QED
    BY <2>1, BuildFileStep
<1>3. ASSUME NEW p \in Procs, NEW state, Goes(p, state), state.pc \notin {"scan", "publish"},
             LocalStep(p)
      PROVE  BuildsOK'
  <2>1. ps'[p] = state
    BY <1>3, TypeIs DEF Goes
  <2> QED
    BY <1>3, <2>1, BuildLocalStep
<1>4. ASSUME NEW p \in Procs, NEW q, NEW key, NEW id, LoadAndSign(p, q, key, id) PROVE BuildsOK'
  <2>1. PICK state : Goes(p, state) /\ state.pc = "ready"
    BY <1>4 DEF LoadAndSign, Begins
  <2> QED
    BY <1>3, <1>4, <2>1, LocalSteps
<1>5. ASSUME NEW p \in Procs, NEW q, NEW m, NEW by, Draft(p, q, m, by) PROVE BuildsOK'
  <2>1. PICK state : Goes(p, state) /\ state.pc = "ready"
    BY <1>5 DEF Draft, Begins
  <2> QED
    BY <1>3, <1>5, <2>1, LocalSteps
<1>6. ASSUME NEW p \in Procs, BeginBuild(p) PROVE BuildsOK'
  <2> DEFINE state == [pc |-> "scan", tree |-> "agents", todo |-> Present(Canonical), found |-> {}]
  <2>1. ps'[p] = state /\ moved'[p] = {}
    BY <1>6, TypeIs DEF BeginBuild, Begins, Goes
  <2>2. ScanOK(disk, state, {})
    BY ScanOKAtFirst
  <2>3. state.pc = "scan"
    OBVIOUS
  <2> HIDE DEF state
  <2>4. LocalStep(p)
    BY <1>6, LocalSteps
  <2> QED
    BY <2>1, <2>2, <2>3, <2>4, BuildLocalStep
<1>7. ASSUME NEW p \in Procs, LoadNext(p) PROVE BuildsOK'
  <2> DEFINE q == Min(ps[p].todo)
             state == [ps[p] EXCEPT !.todo = ps[p].todo \ {q}, !.found = Kept(ps[p].found, q, disk[q])]
  <2> HIDE DEF q, state
  <2>0. LocalStep(p)
    BY <1>7, LocalSteps
  <2>1. ps[p].pc = "scan" /\ ps[p].todo # {}
    BY <1>7 DEF LoadNext
  <2>2. ps[p] \in Scanners /\ ScanOK(disk, ps[p], moved[p])
    BY <2>1, TypeIs, Kinds DEF BuildsOK
  <2>3. CASE disk[q] \in Manifests /\ Goes(p, state) /\ moved' = moved
    <3>1. ps'[p] = state
      BY <2>3, TypeIs DEF Goes
    <3>2. ScanOK(disk, state, moved[p])
      BY <2>1, <2>2, <2>3, ScanOKAfterLoad DEF q, state
    <3>3. moved'[p] = moved[p]
      BY <2>3
    <3> QED
      BY <2>0, <2>1, <2>2, <3>1, <3>2, <3>3, BuildLocalStep DEF state, Scanners
  <2>4. CASE Ends(p)
    BY <1>0, <1>3, <2>0, <2>4 DEF Ends
  <2> QED
    BY <1>7, <2>3, <2>4 DEF LoadNext, q, state
<1>8. ASSUME NEW p \in Procs, ListDiscovered(p) PROVE BuildsOK'
  <2> DEFINE state == [ps[p] EXCEPT !.tree = "discovered", !.todo = Present(Discovered)]
  <2> HIDE DEF state
  <2>0. LocalStep(p)
    BY <1>8, LocalSteps
  <2>1. ps[p].pc = "scan" /\ ps[p].todo = {} /\ ps[p].tree = "agents"
    BY <1>8 DEF ListDiscovered
  <2>2. ps[p] \in Scanners /\ ScanOK(disk, ps[p], moved[p])
    BY <2>1, TypeIs, Kinds DEF BuildsOK
  <2>3. ps'[p] = state /\ moved' = moved
    BY <1>8, TypeIs DEF ListDiscovered, Goes, state
  <2>4. ScanOK(disk, state, moved[p])
    BY <2>1, <2>2, ScanOKAfterListing DEF state
  <2>5. state.pc = "scan"
    BY <2>2 DEF state, Scanners
  <2> QED
    BY <2>0, <2>3, <2>4, <2>5, BuildLocalStep
<1>9. ASSUME NEW p \in Procs, OpenIndex(p) PROVE BuildsOK'
  <2> DEFINE rows == {Row(f.path, f.manifest) : f \in ps[p].found}
  <2>1. ps[p].pc = "scan" /\ ps[p].todo = {} /\ ps[p].tree = "discovered" /\ LocalStep(p)
    BY <1>9, LocalSteps DEF OpenIndex
  <2>2. ps[p] \in Scanners /\ ScanOK(disk, ps[p], moved[p])
    BY <2>1, TypeIs, Kinds DEF BuildsOK
  <2>3. FaithfulTo(disk, rows, moved[p])
    BY <2>1, <2>2, FaithfulAfterScan
  <2> HIDE DEF rows
  <2>4. CASE Goes(p, [pc |-> "publish", rows |-> rows]) /\ moved' = moved
    <3>1. ps'[p] = [pc |-> "publish", rows |-> rows]
      BY <2>4, TypeIs DEF Goes
    <3> QED
      BY <2>1, <2>3, <2>4, <3>1, BuildLocalStep
  <2>5. CASE Ends(p)
    BY <1>0, <1>3, <2>1, <2>5 DEF Ends
  <2> QED
    BY <1>9, <2>4, <2>5 DEF OpenIndex, rows
<1>10. ASSUME NEW p \in Procs, WriteIndex(p) PROVE BuildsOK'
  BY <1>0, <1>3, <1>10, LocalSteps DEF WriteIndex
<1>11. ASSUME NEW p \in Procs, NEW agent, NEW needs, Ask(p, agent, needs) PROVE BuildsOK'
  <2>1. PICK state : Goes(p, state) /\ state.pc \in {"asked", "unlisted"}
    BY <1>11, AskGoes
  <2> QED
    BY <1>3, <1>11, <2>1, LocalSteps
<1>12. ASSUME NEW p \in Procs, ReadManifest(p) PROVE BuildsOK'
  <2>1. PICK state : Goes(p, state) /\ state.pc \in {"answered", "idle"}
    BY <1>0, <1>12 DEF ReadManifest, Answer, Ends
  <2> QED
    BY <1>3, <1>12, <2>1, LocalSteps
<1>13. ASSUME NEW p \in Procs, End(p) PROVE BuildsOK'
  BY <1>0, <1>3, <1>13, LocalSteps DEF End, Ends
<1>14. CASE UNCHANGED vars
  BY <1>14 DEF vars, BuildsOK
<1> QED
  BY <1>1, <1>2, <1>4, <1>5, <1>6, <1>7, <1>8, <1>9, <1>10, <1>11, <1>12, <1>13, <1>14 DEF Next, RegisterDiscovered, ImportScan

(* Which steps write the index, and what they write.                       *)
LEMMA IndexStep ==
  ASSUME TypeOK, BuildsOK, IndexIsTrue, [Next]_vars
  PROVE  IndexIsTrue'
<1> SUFFICES ASSUME readable' PROVE FaithfulTo(disk', index', touched')
  BY DEF IndexIsTrue, Faithful, FaithfulTo
<1>0. readable => FaithfulTo(disk, index, touched)
  BY DEF IndexIsTrue, Faithful, FaithfulTo
<1>1. ASSUME NEW q \in Paths, FileStep(q) PROVE FaithfulTo(disk', index', touched')
  <2>1. /\ readable /\ index' = index
        /\ touched \cup {q} \subseteq touched'
        /\ \A r \in Paths \ {q} : disk'[r] = disk[r]
    BY <1>1 DEF FileStep
  <2>2. index \in SUBSET Rows
    BY TypeIs
  <2> QED
    BY <1>0, <2>1, <2>2, FaithfulAfterChange
<1>2. ASSUME NEW q \in Paths, HandEdit(q) PROVE FaithfulTo(disk', index', touched')
  BY <1>1, <1>2, HandEditIsFileStep
<1>3. ASSUME NEW p \in Procs, OpenFile(p) \/ WriteFile(p)
      PROVE  FaithfulTo(disk', index', touched')
  BY <1>1, <1>3, OpenFileIsFileStep, WriteFileIsFileStep DEF Writers
<1>4. ASSUME UNCHANGED <<disk, index, readable, touched>>
      PROVE  FaithfulTo(disk', index', touched')
  BY <1>0, <1>4
<1>5. ASSUME NEW p \in Procs, OpenIndex(p) PROVE FaithfulTo(disk', index', touched')
  BY <1>4, <1>5 DEF OpenIndex
<1>6. ASSUME NEW p \in Procs, WriteIndex(p) PROVE FaithfulTo(disk', index', touched')
  <2>1. FaithfulTo(disk, ps[p].rows, moved[p])
    BY <1>6 DEF WriteIndex, BuildsOK
  <2>2. disk' = disk /\ index' = ps[p].rows /\ touched' = moved[p]
    BY <1>6 DEF WriteIndex
  <2> QED
    BY <2>1, <2>2
<1>7. ASSUME NEW p \in Procs,
             \/ \E q \in Paths, key \in Keys, id \in KeyIds : LoadAndSign(p, q, key, id)
             \/ \E q, m, by : Draft(p, q, m, by)
             \/ BeginBuild(p) \/ LoadNext(p) \/ ListDiscovered(p)
             \/ \E agent \in Agents, needs \in SUBSET Scopes : Ask(p, agent, needs)
             \/ ReadManifest(p) \/ End(p)
      PROVE  UNCHANGED <<disk, index, readable, touched>>
  <2>1. CASE \/ \E q \in Paths, key \in Keys, id \in KeyIds : LoadAndSign(p, q, key, id)
             \/ \E q, m, by : Draft(p, q, m, by)
    BY <2>1 DEF LoadAndSign, Draft
  <2>2. CASE BeginBuild(p) \/ LoadNext(p) \/ ListDiscovered(p)
    BY <2>2 DEF BeginBuild, LoadNext, ListDiscovered, Files
  <2>3. CASE \E agent \in Agents, needs \in SUBSET Scopes : Ask(p, agent, needs)
    BY <2>3 DEF Ask
  <2>4. CASE ReadManifest(p) \/ End(p)
    BY <2>4 DEF ReadManifest, End, Files
  <2> QED
    BY <1>7, <2>1, <2>2, <2>3, <2>4
<1>8. CASE UNCHANGED vars
  BY <1>4, <1>8 DEF vars
<1> QED
  BY <1>2, <1>3, <1>4, <1>5, <1>6, <1>7, <1>8 DEF Next, RegisterDiscovered, ImportScan

(* The index tells the truth of every file that has not changed since its  *)
(* build began, and of two files of an agent it has the first.             *)
THEOREM IndexTellsTheTruth == Spec => []IndexIsTrue
<1>1. Init => TypeOK /\ BuildsOK /\ IndexIsTrue
  <2>1. Init => BuildsOK /\ IndexIsTrue
    BY DEF Init, BuildsOK, IndexIsTrue, Idle
  <2> QED
    BY <2>1, InitTypes
<1>2. TypeOK /\ BuildsOK /\ IndexIsTrue /\ [Next]_vars => (TypeOK /\ BuildsOK /\ IndexIsTrue)'
  BY TypeStep, BuildStep, IndexStep
<1> QED
  BY <1>1, <1>2, PTL DEF Spec

-----------------------------------------------------------------------------
(* The requests. *)

(* What a request that read this index knows, of given files.              *)
AskOK(files, rows, whole, changed, t) ==
  /\ t.pc \in {"asked", "answered"} =>
       whole /\ \E r \in rows : r.agent = t.agent /\ r.path = t.path
  /\ t.pc = "unlisted" => whole /\ \A r \in rows : r.agent # t.agent
  /\ t.pc = "answered" /\ t.path \notin changed =>
       files[t.path] \in Manifests /\ t.said = Check(t, files[t.path])

AsksOK == \A p \in Procs \ behind : AskOK(disk, index, readable, touched, ps[p])

LEMMA AskFileStep ==
  ASSUME TypeOK, AsksOK, NEW q \in Paths, FileStep(q)
  PROVE  AsksOK'
<1> SUFFICES ASSUME NEW x \in Procs \ behind'
             PROVE  AskOK(disk', index', readable', touched', ps'[x])
  BY DEF AsksOK
<1>1. /\ \A r \in Paths \ {q} : disk'[r] = disk[r]
      /\ index' = index /\ readable' = readable /\ behind' = behind
      /\ readable => touched \cup {q} \subseteq touched'
  BY DEF FileStep
<1>2. ps'[x].pc \in {"asked", "unlisted", "answered"} => ps'[x] = ps[x]
  BY DEF FileStep
<1>3. ps'[x].pc = "answered" => ps[x].path \in Paths
  BY <1>2, TypeIs, Kinds DEF Answered
<1>4. AskOK(disk, index, readable, touched, ps[x])
  BY <1>1 DEF AsksOK
<1> QED
  BY <1>1, <1>2, <1>3, <1>4 DEF AskOK

LEMMA AskLocalStep ==
  ASSUME AsksOK, NEW p \in Procs, LocalStep(p), UNCHANGED <<index, readable, touched>>,
         behind \ {p} \subseteq behind',
         p \notin behind' => AskOK(disk, index, readable, touched, ps'[p])
  PROVE  AsksOK'
<1> SUFFICES ASSUME NEW x \in Procs \ behind'
             PROVE  AskOK(disk', index', readable', touched', ps'[x])
  BY DEF AsksOK
<1>1. disk' = disk /\ (x # p => ps'[x] = ps[x] /\ x \notin behind)
  BY DEF LocalStep
<1>2. CASE x = p
  BY <1>1, <1>2
<1>3. CASE x # p
  BY <1>1, <1>3 DEF AsksOK
<1> QED
  BY <1>2, <1>3

(* Once the index is opened or written, every request is behind.           *)
LEMMA AskAfterIndexStep ==
  ASSUME NEW p \in Procs, LocalStep(p), behind' = behind \cup Requesting,
         ps'[p].pc \notin {"asked", "unlisted", "answered"}
  PROVE  AsksOK'
<1> SUFFICES ASSUME NEW x \in Procs \ behind'
             PROVE  AskOK(disk', index', readable', touched', ps'[x])
  BY DEF AsksOK
<1>1. x = p \/ ps'[x] = ps[x]
  BY DEF LocalStep
<1>2. ps[x].pc \notin {"asked", "unlisted", "answered"}
  BY DEF Requesting
<1> QED
  BY <1>1, <1>2 DEF AskOK

LEMMA AskStep == TypeOK /\ IndexIsTrue /\ AsksOK /\ [Next]_vars => AsksOK'
<1> SUFFICES ASSUME TypeOK, IndexIsTrue, AsksOK, [Next]_vars PROVE AsksOK'
  OBVIOUS
<1>0. Idle.pc = "idle"
  BY DEF Idle
<1>1. ASSUME NEW q \in Paths, HandEdit(q) PROVE AsksOK'
  BY <1>1, HandEditIsFileStep, AskFileStep
<1>2. ASSUME NEW p \in Procs, OpenFile(p) \/ WriteFile(p) PROVE AsksOK'
  <2>1. ps[p].path \in Paths /\ FileStep(ps[p].path)
    BY <1>2, OpenFileIsFileStep, WriteFileIsFileStep DEF Writers
  <2> QED
    BY <2>1, AskFileStep
<1>3. ASSUME NEW p \in Procs, NEW state, Goes(p, state),
             state.pc \notin {"asked", "unlisted", "answered"},
             LocalStep(p), UNCHANGED <<index, readable, touched>>, behind \ {p} \subseteq behind'
      PROVE  AsksOK'
  <2>1. ps'[p] = state
    BY <1>3, TypeIs DEF Goes
  <2>2. AskOK(disk, index, readable, touched, state)
    BY <1>3 DEF AskOK
  <2> QED
    BY <1>3, <2>1, <2>2, AskLocalStep
<1>4. ASSUME NEW p \in Procs, NEW q, NEW key, NEW id, LoadAndSign(p, q, key, id) PROVE AsksOK'
  <2>1. PICK state : Goes(p, state) /\ state.pc = "ready"
    BY <1>4 DEF LoadAndSign, Begins
  <2>2. UNCHANGED <<index, readable, touched, behind>>
    BY <1>4 DEF LoadAndSign
  <2> QED
    BY <1>3, <1>4, <2>1, <2>2, LocalSteps
<1>5. ASSUME NEW p \in Procs, NEW q, NEW m, NEW by, Draft(p, q, m, by) PROVE AsksOK'
  <2>1. PICK state : Goes(p, state) /\ state.pc = "ready"
    BY <1>5 DEF Draft, Begins
  <2>2. UNCHANGED <<index, readable, touched, behind>>
    BY <1>5 DEF Draft
  <2> QED
    BY <1>3, <1>5, <2>1, <2>2, LocalSteps
<1>6. ASSUME NEW p \in Procs, BeginBuild(p) PROVE AsksOK'
  <2>1. PICK state : Goes(p, state) /\ state.pc = "scan"
    BY <1>6 DEF BeginBuild, Begins
  <2>2. UNCHANGED <<index, readable, touched, behind>>
    BY <1>6 DEF BeginBuild
  <2> QED
    BY <1>3, <1>6, <2>1, <2>2, LocalSteps
<1>7. ASSUME NEW p \in Procs, LoadNext(p) \/ ListDiscovered(p) PROVE AsksOK'
  <2>1. ps[p] \in Scanners
    BY <1>7, TypeIs, Kinds DEF LoadNext, ListDiscovered
  <2>2. PICK state : Goes(p, state) /\ state.pc \in {"scan", "idle"}
    BY <1>0, <1>7, <2>1, ScanGoes
  <2>3. UNCHANGED <<index, readable, touched>> /\ behind \ {p} \subseteq behind'
    BY <1>7 DEF LoadNext, ListDiscovered, Files, Ends
  <2> QED
    BY <1>3, <1>7, <2>2, <2>3, LocalSteps
<1>8. ASSUME NEW p \in Procs, OpenIndex(p) PROVE AsksOK'
  <2>0. LocalStep(p)
    BY <1>8, LocalSteps
  <2>1. CASE Ends(p) /\ UNCHANGED <<index, readable, touched>>
    BY <1>0, <1>3, <2>0, <2>1 DEF Ends
  <2>2. ASSUME NEW rows, Goes(p, [pc |-> "publish", rows |-> rows]),
               behind' = behind \cup Requesting
        PROVE  AsksOK'
    <3>1. ps'[p].pc = "publish"
      BY <2>2, TypeIs DEF Goes
    <3> QED
      BY <2>0, <2>2, <3>1, AskAfterIndexStep
  <2> QED
    BY <1>8, <2>1, <2>2 DEF OpenIndex
<1>9. ASSUME NEW p \in Procs, WriteIndex(p) PROVE AsksOK'
  <2>1. ps'[p] = Idle /\ behind' = behind \cup Requesting
    BY <1>9, TypeIs DEF WriteIndex, Goes
  <2>2. LocalStep(p)
    BY <1>9, LocalSteps
  <2> QED
    BY <1>0, <2>1, <2>2, AskAfterIndexStep
<1>10. ASSUME NEW p \in Procs, NEW agent, NEW needs, Ask(p, agent, needs) PROVE AsksOK'
  <2>1. /\ LocalStep(p)
        /\ readable /\ UNCHANGED <<index, readable, touched>> /\ behind' = behind \ {p}
    BY <1>10, LocalSteps DEF Ask
  <2>2. AskOK(disk, index, readable, touched, ps'[p])
    <3>1. ASSUME NEW r \in index, r.agent = agent,
                 Goes(p, [pc |-> "asked", agent |-> agent, needs |-> needs, path |-> r.path])
          PROVE  AskOK(disk, index, readable, touched, ps'[p])
      <4>1. ps'[p] = [pc |-> "asked", agent |-> agent, needs |-> needs, path |-> r.path]
        BY <3>1, TypeIs DEF Goes
      <4> QED
        BY <2>1, <3>1, <4>1 DEF AskOK
    <3>2. ASSUME \A r \in index : r.agent # agent, Goes(p, [pc |-> "unlisted", agent |-> agent])
          PROVE  AskOK(disk, index, readable, touched, ps'[p])
      <4>1. ps'[p] = [pc |-> "unlisted", agent |-> agent]
        BY <3>2, TypeIs DEF Goes
      <4> QED
        BY <2>1, <3>2, <4>1 DEF AskOK
    <3> QED
      BY <1>10, <3>1, <3>2 DEF Ask, Begins
  <2> QED
    BY <2>1, <2>2, AskLocalStep
<1>11. ASSUME NEW p \in Procs, ReadManifest(p) PROVE AsksOK'
  <2>1. LocalStep(p) /\ UNCHANGED <<index, readable, touched>>
    BY <1>11, LocalSteps DEF ReadManifest, Files
  <2>2. CASE Ends(p)
    BY <1>0, <1>3, <2>1, <2>2 DEF Ends
  <2>3. ASSUME NEW said, Answer(p, said),
               \/ disk[ps[p].path] \in Manifests /\ said = Check(ps[p], disk[ps[p].path])
               \/ disk[ps[p].path] \notin Manifests
        PROVE  AsksOK'
    <3> DEFINE state == [pc |-> "answered", agent |-> ps[p].agent, needs |-> ps[p].needs,
                         path |-> ps[p].path, said |-> said]
    <3>1. ps'[p] = state /\ behind' = behind
      BY <2>3, TypeIs DEF Answer, Goes
    <3>2. ASSUME p \notin behind PROVE AskOK(disk, index, readable, touched, state)
      <4>1. ps[p].pc = "asked" /\ AskOK(disk, index, readable, touched, ps[p])
        BY <1>11, <3>2 DEF ReadManifest, AsksOK
      <4>2. readable /\ \E r \in index : r.agent = ps[p].agent /\ r.path = ps[p].path
        BY <4>1 DEF AskOK
      <4>3. ASSUME ps[p].path \notin touched PROVE disk[ps[p].path] \in Manifests
        BY <4>2, <4>3 DEF IndexIsTrue, Faithful
      <4> QED
        BY <2>3, <4>2, <4>3 DEF AskOK, Check
    <3> HIDE DEF state
    <3> QED
      BY <2>1, <3>1, <3>2, AskLocalStep
  <2> QED
    BY <1>11, <2>2, <2>3 DEF ReadManifest
<1>12. ASSUME NEW p \in Procs, End(p) PROVE AsksOK'
  <2>1. UNCHANGED <<index, readable, touched>>
    BY <1>12 DEF End, Files
  <2> QED
    BY <1>0, <1>3, <1>12, <2>1, LocalSteps DEF End, Ends
<1>13. CASE UNCHANGED vars
  BY <1>13 DEF vars, AsksOK
<1> QED
  BY <1>1, <1>2, <1>4, <1>5, <1>6, <1>7, <1>8, <1>9, <1>10, <1>11, <1>12, <1>13 DEF Next, RegisterDiscovered, ImportScan

LEMMA AnswersFollow == TypeOK /\ IndexIsTrue /\ AsksOK => AnswersAreCurrent
<1> SUFFICES ASSUME TypeOK, IndexIsTrue, AsksOK, NEW p \in Procs \ behind
             PROVE  LET t == ps[p]
                    IN  /\ t.pc = "unlisted" =>
                             \A q \in Paths \ touched : disk[q] \in Manifests => disk[q].agent # t.agent
                        /\ t.pc = "answered" /\ t.path \notin touched =>
                             /\ disk[t.path] \in Manifests /\ disk[t.path].agent = t.agent
                             /\ t.said = IF t.needs \subseteq disk[t.path].declares
                                         THEN "admitted" ELSE "undeclared"
                             /\ \A q \in Paths \ touched :
                                  disk[q] \in Manifests /\ disk[q].agent = t.agent => t.path <= q
  BY DEF AnswersAreCurrent
<1> DEFINE t == ps[p]
<1>1. AskOK(disk, index, readable, touched, t)
  BY DEF AsksOK
<1> HIDE DEF t
<1>2. readable => Faithful(index, touched)
  BY DEF IndexIsTrue
<1>3. ASSUME t.pc = "unlisted", NEW q \in Paths \ touched, disk[q] \in Manifests
      PROVE  disk[q].agent # t.agent
  <2>1. \E r \in index : r.agent = disk[q].agent
    BY <1>1, <1>2, <1>3 DEF AskOK, Faithful
  <2> QED
    BY <1>1, <1>3, <2>1 DEF AskOK
<1>4. ASSUME t.pc = "answered", t.path \notin touched
      PROVE  /\ disk[t.path] \in Manifests /\ disk[t.path].agent = t.agent
             /\ t.said = IF t.needs \subseteq disk[t.path].declares THEN "admitted" ELSE "undeclared"
             /\ \A q \in Paths \ touched :
                  disk[q] \in Manifests /\ disk[q].agent = t.agent => t.path <= q
  <2>1. PICK r \in index : r.agent = t.agent /\ r.path = t.path
    BY <1>1, <1>4 DEF AskOK
  <2>2. Faithful(index, touched)
    BY <1>1, <1>2, <1>4 DEF AskOK
  <2>3. disk[t.path] \in Manifests /\ r = Row(t.path, disk[t.path])
    BY <1>4, <2>1, <2>2 DEF Faithful
  <2>4. disk[t.path].agent = t.agent
    BY <2>1, <2>3 DEF Row
  <2>5. t.said = Check(t, disk[t.path])
    BY <1>1, <1>4 DEF AskOK
  <2>6. t.said = IF t.needs \subseteq disk[t.path].declares THEN "admitted" ELSE "undeclared"
    BY <2>4, <2>5 DEF Check
  <2>7. ASSUME NEW q \in Paths \ touched, disk[q] \in Manifests, disk[q].agent = t.agent
        PROVE  t.path <= q
    BY <2>1, <2>2, <2>7 DEF Faithful
  <2> QED
    BY <2>3, <2>4, <2>6, <2>7
<1> QED
  BY <1>3, <1>4 DEF t

(* What a request that read the present index is told is right, as far as  *)
(* the files have not changed since the index was built.                   *)
THEOREM RequestsAreAnsweredRight == Spec => []AnswersAreCurrent
<1> DEFINE IInv == TypeOK /\ BuildsOK /\ IndexIsTrue /\ AsksOK
<1>1. Init => IInv
  <2>1. Init => BuildsOK /\ IndexIsTrue /\ AsksOK
    BY DEF Init, BuildsOK, IndexIsTrue, AsksOK, AskOK, Idle
  <2> QED
    BY <2>1, InitTypes
<1>2. IInv /\ [Next]_vars => IInv'
  BY TypeStep, BuildStep, IndexStep, AskStep
<1>3. IInv => AnswersAreCurrent
  BY AnswersFollow
<1> QED
  BY <1>1, <1>2, <1>3, PTL DEF Spec

-----------------------------------------------------------------------------
(* Drafts. *)

(* A draft in hand found its path free, and nothing was written there that *)
(* it has not been told of.                                                *)
DraftsOK ==
  \A p \in Procs : ps[p].pc = "ready" /\ ps[p].by = "draft" /\ ps[p].path \notin moved[p]
                     => disk[ps[p].path] = Absent

LEMMA DraftFileStep ==
  ASSUME TypeOK, DraftsOK, NEW q \in Paths, FileStep(q)
  PROVE  DraftsOK'
<1> SUFFICES ASSUME NEW x \in Procs, ps'[x].pc = "ready", ps'[x].by = "draft",
                    ps'[x].path \notin moved'[x]
             PROVE  disk'[ps'[x].path] = Absent
  BY DEF DraftsOK
<1>1. ps'[x] = ps[x] /\ moved[x] \cup {q} \subseteq moved'[x]
  BY DEF FileStep, Watching
<1>2. ps[x].path \in Paths
  BY <1>1, TypeIs, Kinds DEF Writers
<1> QED
  BY <1>1, <1>2 DEF FileStep, DraftsOK

LEMMA DraftLocalStep ==
  ASSUME DraftsOK, NEW p \in Procs, LocalStep(p),
         ps'[p].pc = "ready" /\ ps'[p].by = "draft" => disk[ps'[p].path] = Absent
  PROVE  DraftsOK'
<1> SUFFICES ASSUME NEW x \in Procs, ps'[x].pc = "ready", ps'[x].by = "draft",
                    ps'[x].path \notin moved'[x]
             PROVE  disk'[ps'[x].path] = Absent
  BY DEF DraftsOK
<1>1. x = p \/ (ps'[x] = ps[x] /\ moved'[x] = moved[x])
  BY DEF LocalStep
<1> QED
  BY <1>1 DEF LocalStep, DraftsOK

LEMMA DraftStep == TypeOK /\ DraftsOK /\ [Next]_vars => DraftsOK'
<1> SUFFICES ASSUME TypeOK, DraftsOK, [Next]_vars PROVE DraftsOK'
  OBVIOUS
<1>0. Idle.pc = "idle"
  BY DEF Idle
<1>1. ASSUME NEW q \in Paths, HandEdit(q) PROVE DraftsOK'
  BY <1>1, HandEditIsFileStep, DraftFileStep
<1>2. ASSUME NEW p \in Procs, OpenFile(p) \/ WriteFile(p) PROVE DraftsOK'
  <2>1. ps[p].path \in Paths /\ FileStep(ps[p].path)
    BY <1>2, OpenFileIsFileStep, WriteFileIsFileStep DEF Writers
  <2> QED
    BY <2>1, DraftFileStep
<1>3. ASSUME NEW p \in Procs, NEW state, Goes(p, state), LocalStep(p),
             state.pc = "ready" /\ state.by = "draft" => disk[state.path] = Absent
      PROVE  DraftsOK'
  <2>1. ps'[p] = state
    BY <1>3, TypeIs DEF Goes
  <2> QED
    BY <1>3, <2>1, DraftLocalStep
<1>4. ASSUME NEW p \in Procs, NEW q, NEW key, NEW id, LoadAndSign(p, q, key, id) PROVE DraftsOK'
  <2>1. PICK state : Goes(p, state) /\ state.by = "sign"
    BY <1>4 DEF LoadAndSign, Begins
  <2> QED
    BY <1>3, <1>4, <2>1, LocalSteps
<1>5. ASSUME NEW p \in Procs, NEW q, NEW m, NEW by, Draft(p, q, m, by) PROVE DraftsOK'
  <2>1. /\ Goes(p, [pc |-> "ready", path |-> q, hand |-> m, by |-> by])
        /\ by = "draft" => disk[q] = Absent
    BY <1>5 DEF Draft, Begins
  <2>2. LocalStep(p)
    BY <1>5, LocalSteps
  <2> QED
    BY <1>3, <2>1, <2>2
<1>6. ASSUME NEW p \in Procs, BeginBuild(p) PROVE DraftsOK'
  <2>1. PICK state : Goes(p, state) /\ state.pc = "scan"
    BY <1>6 DEF BeginBuild, Begins
  <2> QED
    BY <1>3, <1>6, <2>1, LocalSteps
<1>7. ASSUME NEW p \in Procs, LoadNext(p) \/ ListDiscovered(p) PROVE DraftsOK'
  <2>1. ps[p] \in Scanners
    BY <1>7, TypeIs, Kinds DEF LoadNext, ListDiscovered
  <2>2. PICK state : Goes(p, state) /\ state.pc \in {"scan", "idle"}
    BY <1>0, <1>7, <2>1, ScanGoes
  <2> QED
    BY <1>3, <1>7, <2>2, LocalSteps
<1>8. ASSUME NEW p \in Procs, OpenIndex(p) \/ WriteIndex(p) PROVE DraftsOK'
  <2>1. PICK state : Goes(p, state) /\ state.pc \in {"publish", "idle"}
    BY <1>0, <1>8 DEF OpenIndex, WriteIndex, Ends
  <2> QED
    BY <1>3, <1>8, <2>1, LocalSteps
<1>9. ASSUME NEW p \in Procs, NEW agent, NEW needs, Ask(p, agent, needs) PROVE DraftsOK'
  <2>1. PICK state : Goes(p, state) /\ state.pc \in {"asked", "unlisted"}
    BY <1>9, AskGoes
  <2> QED
    BY <1>3, <1>9, <2>1, LocalSteps
<1>10. ASSUME NEW p \in Procs, ReadManifest(p) \/ End(p) PROVE DraftsOK'
  <2>1. PICK state : Goes(p, state) /\ state.pc \in {"answered", "idle"}
    BY <1>0, <1>10 DEF ReadManifest, End, Answer, Ends
  <2> QED
    BY <1>3, <1>10, <2>1, LocalSteps
<1>11. CASE UNCHANGED vars
  BY <1>11 DEF vars, DraftsOK
<1> QED
  BY <1>1, <1>2, <1>4, <1>5, <1>6, <1>7, <1>8, <1>9, <1>10, <1>11 DEF Next, RegisterDiscovered, ImportScan

(* A draft takes the place of a file only if that file was written after   *)
(* the command had looked.                                                 *)
THEOREM DraftsSpareFiles == Spec => DraftsReplaceOnlyNewcomers
<1>1. Init => TypeOK /\ DraftsOK
  <2>1. Init => DraftsOK
    BY DEF Init, DraftsOK, Idle
  <2> QED
    BY <2>1, InitTypes
<1>2. TypeOK /\ DraftsOK /\ [Next]_vars => (TypeOK /\ DraftsOK)'
  BY TypeStep, DraftStep
<1>3. DraftsOK =>
        \A p \in Procs :
          OpenFile(p) /\ ps[p].by = "draft" /\ disk[ps[p].path] # Absent => ps[p].path \in moved[p]
  BY DEF DraftsOK, OpenFile
<1> QED
  BY <1>1, <1>2, <1>3, PTL DEF Spec, DraftsReplaceOnlyNewcomers

-----------------------------------------------------------------------------
(* Signatures. *)

RowsKnown(rows, done) ==
  \A r \in rows : r.verified =>
    \E s \in done : s[2].agent = r.agent /\ s[2].declares = r.declares

ProcKnown(t, done) ==
  /\ t.pc \in {"ready", "open"} => SigKnown(t.hand, done) /\ (t.by = "sign" => Verified(t.hand))
  /\ t.pc = "scan" => \A f \in t.found : SigKnown(f.manifest, done)
  /\ t.pc = "publish" => RowsKnown(t.rows, done)

FilesKnown(files, done) ==
  \A q \in Paths : files[q] \in Manifests => SigKnown(files[q], done)

Sealed(files, seal) == \A q \in seal : files[q] \in Manifests /\ Verified(files[q])

SigsOK ==
  /\ FilesKnown(disk, signed)
  /\ \A p \in Procs : ProcKnown(ps[p], signed)
  /\ RowsKnown(index, signed)
  /\ Sealed(disk, sealed)

(* A manifest that verifies describes what was signed.                     *)
LEMMA VerifiedIsKnown ==
  ASSUME NEW q, NEW m \in Manifests, NEW done, SigKnown(m, done)
  PROVE  Row(q, m).verified =>
           \E s \in done : s[2].agent = Row(q, m).agent /\ s[2].declares = Row(q, m).declares
<1> SUFFICES ASSUME Verified(m)
             PROVE  \E s \in done : s[2].agent = m.agent /\ s[2].declares = m.declares
  BY DEF Row
<1>1. m.sig # NoSig /\ m.sig.key \in Keys /\ m.sig.over = Payload(m)
  BY DEF Verified
<1>2. <<m.sig.key, Payload(m)>> \in done
  BY <1>1 DEF SigKnown
<1>3. <<m.sig.key, Payload(m)>>[2] = Payload(m)
  OBVIOUS
<1>4. Payload(m).agent = m.agent /\ Payload(m).declares = m.declares
  BY DEF Payload
<1> QED
  BY <1>2, <1>3, <1>4

LEMMA KnownGrows ==
  ASSUME NEW done, NEW later, done \subseteq later
  PROVE  /\ \A m : SigKnown(m, done) => SigKnown(m, later)
         /\ \A rows : RowsKnown(rows, done) => RowsKnown(rows, later)
         /\ \A t : ProcKnown(t, done) => ProcKnown(t, later)
         /\ \A files : FilesKnown(files, done) => FilesKnown(files, later)
<1>1. \A m : SigKnown(m, done) => SigKnown(m, later)
  BY DEF SigKnown
<1>2. \A rows : RowsKnown(rows, done) => RowsKnown(rows, later)
  BY DEF RowsKnown
<1>3. \A t : ProcKnown(t, done) => ProcKnown(t, later)
  BY <1>1, <1>2 DEF ProcKnown
<1>4. \A files : FilesKnown(files, done) => FilesKnown(files, later)
  BY <1>1 DEF FilesKnown
<1> QED
  BY <1>1, <1>2, <1>3, <1>4

LEMMA UnsignedIsKnown ==
  ASSUME NEW done
  PROVE  \A m : m.sig = NoSig => SigKnown(m, done)
BY DEF SigKnown

(* What a person writes bears no signature, or one that was there, or one  *)
(* that is none.                                                           *)
LEMMA HandEditIsKnown ==
  ASSUME TypeOK, FilesKnown(disk, signed), NEW q \in Paths, HandEdit(q)
  PROVE  \E content : /\ disk' = [disk EXCEPT ![q] = content]
                      /\ content \in Manifests => SigKnown(content, signed)
<1>1. PICK content : /\ content \in Drafts \cup {Absent, Damaged} \cup {disk[r] : r \in Paths}
                              \cup (IF disk[q] \in Manifests THEN Edited(disk[q]) ELSE {})
                     /\ disk' = [disk EXCEPT ![q] = content]
  BY DEF HandEdit, Changes
<1>2. content \in Manifests => SigKnown(content, signed)
  <2>1. CASE content \in Drafts
    BY <2>1, DraftsAreUnsigned, UnsignedIsKnown
  <2>2. CASE content \in {Absent, Damaged}
    BY <2>2, ValuesDiffer
  <2>3. CASE content \in {disk[r] : r \in Paths}
    BY <2>3 DEF FilesKnown
  <2>4. CASE disk[q] \in Manifests /\ content \in Edited(disk[q])
    <3>1. \/ content.sig = disk[q].sig
          \/ content.sig # NoSig /\ content.sig.key = Bad
      BY <2>4, EditedIsManifest
    <3>2. SigKnown(disk[q], signed)
      BY <2>4 DEF FilesKnown
    <3> QED
      BY <3>1, <3>2, ValuesDiffer DEF SigKnown
  <2> QED
    BY <1>1, <2>1, <2>2, <2>3, <2>4
<1> QED
  BY <1>1, <1>2

(* A file whose new signature is known, and which is sealed only if it     *)
(* verifies.                                                               *)
LEMMA SigFileStep ==
  ASSUME TypeOK, SigsOK, NEW q \in Paths, NEW content,
         disk' = [disk EXCEPT ![q] = content], index' = index, signed' = signed,
         content \in Manifests => SigKnown(content, signed),
         \A x \in Procs : ProcKnown(ps'[x], signed),
         \/ sealed' = sealed \ {q}
         \/ content \in Manifests /\ Verified(content) /\ sealed' \subseteq sealed \cup {q}
         \/ content = disk[q] /\ sealed' = sealed
  PROVE  SigsOK'
<1>1. disk'[q] = content /\ \A r \in Paths \ {q} : disk'[r] = disk[r]
  BY TypeIs
<1>2. FilesKnown(disk', signed')
  BY <1>1 DEF FilesKnown, SigsOK
<1>3. sealed \subseteq Paths
  BY TypeIs
<1>4. Sealed(disk', sealed')
  BY <1>1, <1>3 DEF Sealed, SigsOK
<1> QED
  BY <1>2, <1>4 DEF SigsOK

LEMMA SigLocalStep ==
  ASSUME SigsOK, NEW p \in Procs, LocalStep(p), sealed' = sealed,
         signed \subseteq signed', ProcKnown(ps'[p], signed'),
         RowsKnown(index', signed')
  PROVE  SigsOK'
<1>1. disk' = disk /\ \A x \in Procs \ {p} : ps'[x] = ps[x]
  BY DEF LocalStep
<1>2. \A x \in Procs : ProcKnown(ps'[x], signed')
  BY <1>1, KnownGrows DEF SigsOK
<1>3. FilesKnown(disk', signed') /\ Sealed(disk', sealed')
  BY <1>1, KnownGrows DEF SigsOK
<1> QED
  BY <1>2, <1>3 DEF SigsOK

LEMMA SigStep == TypeOK /\ SigsOK /\ [Next]_vars => SigsOK'
<1> SUFFICES ASSUME TypeOK, SigsOK, [Next]_vars PROVE SigsOK'
  OBVIOUS
<1>0. Idle.pc = "idle"
  BY DEF Idle
<1>1. ASSUME NEW q \in Paths, HandEdit(q) PROVE SigsOK'
  <2>1. PICK content : /\ disk' = [disk EXCEPT ![q] = content]
                       /\ content \in Manifests => SigKnown(content, signed)
    BY <1>1, HandEditIsKnown DEF SigsOK
  <2>2. /\ index' = index /\ signed' = signed /\ ps' = ps
        /\ sealed' = sealed \ {q}
    BY <1>1 DEF HandEdit
  <2>3. \A x \in Procs : ProcKnown(ps'[x], signed)
    BY <2>2 DEF SigsOK
  <2> QED
    BY <2>1, <2>2, <2>3, SigFileStep
<1>2. ASSUME NEW p \in Procs, OpenFile(p) PROVE SigsOK'
  <2>1. /\ ps[p] \in Writers
        /\ ps'[p] = [ps[p] EXCEPT !.pc = "open"]
        /\ \A x \in Procs \ {p} : ps'[x] = ps[x]
    BY <1>2, OpenFileIsFileStep
  <2>2. ps[p].path \in Paths /\ ps[p].pc = "ready"
    BY <1>2, <2>1 DEF Writers, OpenFile
  <2>3. /\ ps'[p].pc = "open" /\ ps'[p].hand = ps[p].hand /\ ps'[p].by = ps[p].by
    BY <2>1 DEF Writers
  <2>4. \A x \in Procs : ProcKnown(ps'[x], signed)
    <3>1. ProcKnown(ps'[p], signed)
      BY <2>2, <2>3 DEF SigsOK, ProcKnown
    <3> QED
      BY <2>1, <3>1 DEF SigsOK
  <2>5. /\ disk' = [disk EXCEPT ![ps[p].path] = Damaged]
        /\ index' = index /\ signed' = signed
        /\ sealed' = sealed \ {ps[p].path}
    BY <1>2 DEF OpenFile, Changes
  <2> QED
    BY <2>2, <2>4, <2>5, ValuesDiffer, SigFileStep
<1>3. ASSUME NEW p \in Procs, WriteFile(p) PROVE SigsOK'
  <2>1. /\ ps[p] \in Writers /\ ps'[p] = Idle
        /\ \A x \in Procs \ {p} : ps'[x] = ps[x]
    BY <1>3, WriteFileIsFileStep
  <2>2. ps[p].path \in Paths /\ ps[p].hand \in Manifests /\ ps[p].pc = "open"
    BY <1>3, <2>1 DEF Writers, WriteFile
  <2>3. \A x \in Procs : ProcKnown(ps'[x], signed)
    BY <1>0, <2>1 DEF SigsOK, ProcKnown
  <2>4. SigKnown(ps[p].hand, signed) /\ (ps[p].by = "sign" => Verified(ps[p].hand))
    BY <2>2 DEF SigsOK, ProcKnown
  <2>5. index' = index /\ signed' = signed
    BY <1>3 DEF WriteFile
  <2>6. PICK content \in {ps[p].hand, Damaged, disk[ps[p].path]} :
          /\ disk' = [disk EXCEPT ![ps[p].path] = content]
          /\ sealed' = IF content = ps[p].hand /\ ps[p].by = "sign" THEN sealed \cup {ps[p].path}
                       ELSE IF content = disk[ps[p].path] THEN sealed
                       ELSE sealed \ {ps[p].path}
    BY <1>3 DEF WriteFile
  <2>7. content \in Manifests => SigKnown(content, signed)
    BY <2>2, <2>4, <2>6, ValuesDiffer DEF SigsOK, FilesKnown
  <2>8. \/ sealed' = sealed \ {ps[p].path}
        \/ content \in Manifests /\ Verified(content) /\ sealed' \subseteq sealed \cup {ps[p].path}
        \/ content = disk[ps[p].path] /\ sealed' = sealed
    BY <2>2, <2>4, <2>6
  <2> QED
    BY <2>2, <2>3, <2>5, <2>6, <2>7, <2>8, SigFileStep
<1>4. ASSUME NEW p \in Procs, LocalStep(p), NEW state, Goes(p, state),
             UNCHANGED <<index, signed, sealed>>, ProcKnown(state, signed)
      PROVE  SigsOK'
  <2>1. ps'[p] = state
    BY <1>4, TypeIs DEF Goes
  <2>2. RowsKnown(index', signed') /\ ProcKnown(ps'[p], signed') /\ signed \subseteq signed'
    BY <1>4, <2>1 DEF SigsOK
  <2> QED
    BY <1>4, <2>2, SigLocalStep
<1>5. ASSUME NEW p \in Procs, LocalStep(p), NEW state, Goes(p, state),
             UNCHANGED <<index, signed, sealed>>,
             state.pc \in {"idle", "asked", "unlisted", "answered"}
      PROVE  SigsOK'
  <2>1. ProcKnown(state, signed)
    BY <1>5 DEF ProcKnown
  <2> QED
    BY <1>4, <1>5, <2>1
<1>6. ASSUME NEW p \in Procs, NEW q \in Paths, NEW key \in Keys, NEW id \in KeyIds,
             LoadAndSign(p, q, key, id)
      PROVE  SigsOK'
  <2> DEFINE hand == Signed(disk[q], key, id)
             state == [pc |-> "ready", path |-> q, hand |-> hand, by |-> "sign"]
  <2>1. /\ disk[q] \in Manifests /\ Goes(p, state) /\ LocalStep(p)
        /\ signed' = signed \cup {<<key, Payload(hand)>>}
        /\ index' = index /\ sealed' = sealed
    BY <1>6, LocalSteps DEF LoadAndSign, Begins, Signs
  <2>2. hand \in Manifests /\ Verified(hand)
        /\ hand.sig = [id |-> id, key |-> key, over |-> Payload(hand)]
    BY <2>1, SignedIsManifest
  <2>3. state.pc = "ready" /\ state.hand = hand
    OBVIOUS
  <2> HIDE DEF hand
  <2>4. SigKnown(hand, signed')
    BY <2>1, <2>2 DEF SigKnown
  <2>5. ps'[p] = state
    BY <2>1, TypeIs DEF Goes
  <2> HIDE DEF state
  <2>6. ProcKnown(ps'[p], signed')
    BY <2>2, <2>3, <2>4, <2>5 DEF ProcKnown
  <2>7. RowsKnown(index', signed') /\ signed \subseteq signed'
    BY <2>1, KnownGrows DEF SigsOK
  <2> QED
    BY <2>1, <2>6, <2>7, SigLocalStep
<1>7. ASSUME NEW p \in Procs, NEW q, NEW m \in Manifests, NEW by \in {"draft", "overwrite"},
             Draft(p, q, m, by), signed \subseteq signed', SigKnown(m, signed')
      PROVE  SigsOK'
  <2> DEFINE state == [pc |-> "ready", path |-> q, hand |-> m, by |-> by]
  <2>1. Goes(p, state) /\ LocalStep(p) /\ UNCHANGED <<index, sealed>>
    BY <1>7, LocalSteps DEF Draft, Begins
  <2>2. ProcKnown(state, signed')
    BY <1>7 DEF ProcKnown
  <2>3. ps'[p] = state
    BY <2>1, TypeIs DEF Goes
  <2> HIDE DEF state
  <2>4. RowsKnown(index', signed')
    BY <1>7, <2>1, KnownGrows DEF SigsOK
  <2> QED
    BY <1>7, <2>1, <2>2, <2>3, <2>4, SigLocalStep
<1>8. ASSUME NEW p \in Procs, BeginBuild(p) PROVE SigsOK'
  <2>1. PICK state : Goes(p, state) /\ state.pc = "scan" /\ state.found = {}
    BY <1>8 DEF BeginBuild, Begins
  <2>2. LocalStep(p) /\ UNCHANGED <<index, signed, sealed>>
    BY <1>8, LocalSteps DEF BeginBuild
  <2>3. ProcKnown(state, signed)
    BY <2>1 DEF ProcKnown
  <2> QED
    BY <1>4, <2>1, <2>2, <2>3
<1>9. ASSUME NEW p \in Procs, LoadNext(p) PROVE SigsOK'
  <2> DEFINE q == Min(ps[p].todo)
             state == [ps[p] EXCEPT !.todo = ps[p].todo \ {q}, !.found = Kept(ps[p].found, q, disk[q])]
  <2> HIDE DEF q, state
  <2>1. LocalStep(p) /\ UNCHANGED <<index, signed, sealed>>
    BY <1>9, LocalSteps DEF LoadNext, Files
  <2>2. ps[p].pc = "scan" /\ ps[p] \in Scanners /\ ps[p].todo # {}
    BY <1>9, TypeIs, Kinds DEF LoadNext
  <2>3. ASSUME disk[q] \in Manifests, Goes(p, state) PROVE SigsOK'
    <3>1. state.pc = "scan" /\ state.found = Kept(ps[p].found, q, disk[q])
      BY <2>2 DEF state, Scanners
    <3>2. SigKnown(disk[q], signed)
      BY <2>2, <2>3, NextPath DEF SigsOK, FilesKnown, q
    <3>3. \A f \in ps[p].found : SigKnown(f.manifest, signed)
      BY <2>2 DEF SigsOK, ProcKnown
    <3>4. \A f \in state.found : SigKnown(f.manifest, signed)
      BY <3>1, <3>2, <3>3 DEF Kept
    <3>5. ProcKnown(state, signed)
      BY <3>1, <3>4 DEF ProcKnown
    <3> QED
      BY <1>4, <2>1, <2>3, <3>5
  <2>4. CASE Ends(p)
    BY <1>0, <1>5, <2>1, <2>4 DEF Ends
  <2> QED
    BY <1>9, <2>3, <2>4 DEF LoadNext, q, state
<1>10. ASSUME NEW p \in Procs, ListDiscovered(p) PROVE SigsOK'
  <2> DEFINE state == [ps[p] EXCEPT !.tree = "discovered", !.todo = Present(Discovered)]
  <2> HIDE DEF state
  <2>1. Goes(p, state) /\ LocalStep(p) /\ UNCHANGED <<index, signed, sealed>>
    BY <1>10, LocalSteps DEF ListDiscovered, Files, state
  <2>2. ps[p].pc = "scan" /\ ps[p] \in Scanners
    BY <1>10, TypeIs, Kinds DEF ListDiscovered
  <2>3. state.pc = "scan" /\ state.found = ps[p].found
    BY <2>2 DEF state, Scanners
  <2>4. ProcKnown(state, signed)
    BY <2>2, <2>3 DEF SigsOK, ProcKnown
  <2> QED
    BY <1>4, <2>1, <2>4
<1>11. ASSUME NEW p \in Procs, OpenIndex(p) PROVE SigsOK'
  <2> DEFINE rows == {Row(f.path, f.manifest) : f \in ps[p].found}
  <2>1. LocalStep(p) /\ signed' = signed /\ sealed' = sealed
    BY <1>11, LocalSteps DEF OpenIndex
  <2>2. ps[p].pc = "scan" /\ ps[p] \in Scanners
    BY <1>11, TypeIs, Kinds DEF OpenIndex
  <2>3. \A f \in ps[p].found : f.manifest \in Manifests /\ SigKnown(f.manifest, signed)
    BY <2>2 DEF SigsOK, ProcKnown, Scanners, Finds
  <2>4. RowsKnown(rows, signed)
    <3> SUFFICES ASSUME NEW f \in ps[p].found
                 PROVE  Row(f.path, f.manifest).verified =>
                          \E s \in signed : /\ s[2].agent = Row(f.path, f.manifest).agent
                                            /\ s[2].declares = Row(f.path, f.manifest).declares
      BY DEF RowsKnown
    <3> QED
      BY <2>3, VerifiedIsKnown
  <2> HIDE DEF rows
  <2>5. ASSUME Goes(p, [pc |-> "publish", rows |-> rows]), index' = {} PROVE SigsOK'
    <3>1. ps'[p] = [pc |-> "publish", rows |-> rows]
      BY <2>5, TypeIs DEF Goes
    <3>2. ProcKnown(ps'[p], signed')
      BY <2>1, <2>4, <3>1 DEF ProcKnown
    <3>3. RowsKnown(index', signed') /\ signed \subseteq signed'
      BY <2>1, <2>5 DEF RowsKnown
    <3> QED
      BY <2>1, <3>2, <3>3, SigLocalStep
  <2>6. ASSUME Ends(p), index' = index PROVE SigsOK'
    BY <1>0, <1>5, <2>1, <2>6 DEF Ends
  <2> QED
    BY <1>11, <2>5, <2>6 DEF OpenIndex, rows
<1>12. ASSUME NEW p \in Procs, WriteIndex(p) PROVE SigsOK'
  <2>1. LocalStep(p) /\ signed' = signed /\ sealed' = sealed
    BY <1>12, LocalSteps DEF WriteIndex
  <2>2. ps'[p] = Idle
    BY <1>12, TypeIs DEF WriteIndex, Goes
  <2>3. ProcKnown(ps'[p], signed')
    BY <1>0, <2>2 DEF ProcKnown
  <2>4. index' = ps[p].rows \/ index' = {}
    BY <1>12 DEF WriteIndex
  <2>5. RowsKnown(ps[p].rows, signed)
    BY <1>12 DEF WriteIndex, SigsOK, ProcKnown
  <2>6. RowsKnown(index', signed') /\ signed \subseteq signed'
    BY <2>1, <2>4, <2>5 DEF RowsKnown
  <2> QED
    BY <2>1, <2>3, <2>6, SigLocalStep
<1>13. ASSUME NEW p \in Procs, NEW agent, NEW needs, Ask(p, agent, needs) PROVE SigsOK'
  <2>1. PICK state : Goes(p, state) /\ state.pc \in {"asked", "unlisted"}
    BY <1>13, AskGoes
  <2>2. LocalStep(p) /\ UNCHANGED <<index, signed, sealed>>
    BY <1>13, LocalSteps DEF Ask
  <2> QED
    BY <1>5, <2>1, <2>2
<1>14. ASSUME NEW p \in Procs, ReadManifest(p) \/ End(p) PROVE SigsOK'
  <2>1. PICK state : Goes(p, state) /\ state.pc \in {"answered", "idle"}
    BY <1>0, <1>14 DEF ReadManifest, End, Answer, Ends
  <2>2. LocalStep(p) /\ UNCHANGED <<index, signed, sealed>>
    BY <1>14, LocalSteps DEF ReadManifest, End, Files
  <2> QED
    BY <1>5, <2>1, <2>2
<1>15. CASE UNCHANGED vars
  BY <1>15 DEF vars, SigsOK
<1> QED
  BY <1>1, <1>2, <1>3, <1>6, <1>7, <1>8, <1>9, <1>10, <1>11, <1>12, <1>13, <1>14, <1>15, DraftSteps DEF Next, Paths

(* A verified row describes a manifest as somebody signed it, and what     *)
(* sign wrote verifies until somebody else writes the file.                *)
THEOREM SignaturesHold == Spec => []SignaturesTellTruth
<1>1. Init => TypeOK /\ SigsOK
  <2>1. ASSUME Init PROVE SigsOK
    <3>1. \A q \in Paths : disk[q] \in Manifests => disk[q] \in Drafts
      BY <2>1, ValuesDiffer DEF Init
    <3>2. FilesKnown(disk, signed)
      BY <3>1, DraftsAreUnsigned, UnsignedIsKnown DEF FilesKnown
    <3>3. \A p \in Procs : ProcKnown(ps[p], signed)
      BY <2>1 DEF Init, ProcKnown, Idle
    <3>4. RowsKnown(index, signed) /\ Sealed(disk, sealed)
      BY <2>1 DEF Init, RowsKnown, Sealed
    <3> QED
      BY <3>2, <3>3, <3>4 DEF SigsOK
  <2> QED
    BY <2>1, InitTypes
<1>2. TypeOK /\ SigsOK /\ [Next]_vars => (TypeOK /\ SigsOK)'
  BY TypeStep, SigStep
<1>3. SigsOK => SignaturesTellTruth
  BY DEF SigsOK, SignaturesTellTruth, RowsKnown, Sealed
<1> QED
  BY <1>1, <1>2, <1>3, PTL DEF Spec

=============================================================================
