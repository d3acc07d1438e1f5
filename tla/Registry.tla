------------------------------ MODULE Registry ------------------------------
(***************************************************************************)
(* The registry: agent manifests in two directories, their signatures, the *)
(* index built from them, and the registry checks a request passes before  *)
(* any policy is looked at.  Manifests are written by hand, by sign, by    *)
(* the commands that register drafts; the index is written by build-index. *)
(* All are whole-file reads and whole-file writes, a write first empties   *)
(* the file, nothing is locked, and a process may die between two steps.   *)
(*                                                                         *)
(* Abstractions: a path is a number, in the order scan_agents sorts them,  *)
(* the canonical directory before the discovered one; what a manifest      *)
(* declares (capabilities and scopes) is one set; public_keys is a         *)
(* function, so one entry per id; times are left out.  A signature is the  *)
(* key it was made with and what it was made over.                         *)
(* A command that registers several drafts is a succession of Draft and    *)
(* OpenFile and WriteFile steps of one process, and then of a build.       *)
(***************************************************************************)
EXTENDS Integers, FiniteSets, FiniteSetsExt

CONSTANTS Procs,       \* processes: commands, and requests to the gateway or the broker
          Agents,      \* agent ids
          Scopes,      \* capabilities and permission scopes
          Canonical,   \* paths under registry/agents
          Discovered,  \* paths under registry/discovered
          Keys,        \* signing keys, each with its public half
          KeyIds,      \* ids public keys are listed under
          NoKey,       \* no public key under this id, or one that is not Ed25519
          Bad,         \* the key of a signature that is none
          NoSig,       \* no signature block
          Absent,      \* no such file
          Damaged,     \* a file load_manifest raises on
          Drafts,      \* new manifests, of a person, a report or an export
          MaxChanges,  \* bound of the changes of files
          MaxSigned    \* bound of the different things signed

Paths == Canonical \cup Discovered

Payloads == [agent : Agents, declares : SUBSET Scopes, keys : [KeyIds -> Keys \cup {NoKey}]]

Signatures == [id : KeyIds, key : Keys \cup {Bad}, over : Payloads]

Manifests == [agent : Agents, declares : SUBSET Scopes,
              keys : [KeyIds -> Keys \cup {NoKey}], sig : Signatures \cup {NoSig}]

Rows == [path : Paths, agent : Agents, declares : SUBSET Scopes, verified : BOOLEAN]

Finds == [path : Paths, manifest : Manifests]

ASSUME PathsAreOrdered ==
  /\ Paths \subseteq Nat
  /\ \A q \in Canonical, r \in Discovered : q < r
ASSUME ValuesDiffer ==
  /\ Keys \cap {NoKey, Bad} = {}
  /\ NoSig \notin Signatures
  /\ Manifests \cap {Absent, Damaged} = {} /\ Absent # Damaged
ASSUME DraftsAreUnsigned == Drafts \subseteq {m \in Manifests : m.sig = NoSig}
ASSUME BoundsAreNat == MaxChanges \in Nat /\ MaxSigned \in Nat

VARIABLES disk,      \* per path: the file
          index,     \* the rows of the index file
          readable,  \* the index file is there and whole
          ps,        \* per process: what it is doing
          changes,   \* how often a file was changed
          touched,   \* ghost: files changed since the build that wrote the index began
          moved,     \* ghost: per build or draft, files changed since it began
          behind,    \* ghost: processes that read an index overwritten since
          signed,    \* ghost: what was ever signed, and with which key
          sealed     \* ghost: files last written by sign

vars == <<disk, index, readable, ps, changes, touched, moved, behind, signed, sealed>>

IndexFile == <<index, readable, touched, behind>>
Files == <<disk, changes, touched, sealed>>

(* Ready to open a file for writing; with the file open and emptied;       *)
(* reading manifests for the index; with the index open and emptied;       *)
(* a request with its index row; a request answered, listed or not.        *)
Writers == [pc : {"ready", "open"}, path : Paths, hand : Manifests,
            by : {"sign", "draft", "overwrite"}]
Scanners == [pc : {"scan"}, tree : {"agents", "discovered"},
             todo : SUBSET Paths, found : SUBSET Finds]
Publishers == [pc : {"publish"}, rows : SUBSET Rows]
Askers == [pc : {"asked"}, agent : Agents, needs : SUBSET Scopes, path : Paths]
Unlisted == [pc : {"unlisted"}, agent : Agents]
Answered == [pc : {"answered"}, agent : Agents, needs : SUBSET Scopes, path : Paths,
             said : {"unreadable", "mismatch", "undeclared", "admitted"}]

Idle == [pc |-> "idle"]

TypeOK ==
  /\ disk \in [Paths -> Manifests \cup {Absent, Damaged}]
  /\ index \subseteq Rows
  /\ readable \in BOOLEAN
  /\ ps \in [Procs -> {Idle} \cup Writers \cup Scanners \cup Publishers
                      \cup Askers \cup Unlisted \cup Answered]
  /\ changes \in Nat
  /\ touched \subseteq Paths
  /\ moved \in [Procs -> SUBSET Paths]
  /\ behind \subseteq Procs
  /\ signed \subseteq Keys \X Payloads
  /\ sealed \subseteq Paths

-----------------------------------------------------------------------------
(* Manifests and their signatures. *)

(* canonicalize_manifest: all but the signature block.                     *)
Payload(m) == [agent |-> m.agent, declares |-> m.declares, keys |-> m.keys]

(* Mutant of Signed: what is signed still lists the keys of before.        *)
Signed_BeforeMerge(m, key, id) ==
  [m EXCEPT !.keys[id] = key, !.sig = [id |-> id, key |-> key, over |-> Payload(m)]]

(* sign_manifest: the key is listed under its id, then all is signed.      *)
Signed(m, key, id) ==
  LET merged == [m EXCEPT !.keys[id] = key]
  IN  [merged EXCEPT !.sig = [id |-> id, key |-> key, over |-> Payload(merged)]]

(* verify_manifest_model.  Verification fails for a key that is not there  *)
(* or is no key, but raises for a signature that is none.                  *)
Verified(m) ==
  /\ m.sig # NoSig
  /\ m.keys[m.sig.id] \in Keys
  /\ m.sig.key = m.keys[m.sig.id]
  /\ m.sig.over = Payload(m)

Raises(m) == m.sig # NoSig /\ m.keys[m.sig.id] \in Keys /\ m.sig.key = Bad

Row(path, m) ==
  [path |-> path, agent |-> m.agent, declares |-> m.declares, verified |-> Verified(m)]

-----------------------------------------------------------------------------

Free(p) == ps[p] = Idle

Goes(p, state) == ps' = [ps EXCEPT ![p] = state]

(* A command or a request ends.                                            *)
Ends(p) ==
  /\ Goes(p, Idle)
  /\ moved' = [moved EXCEPT ![p] = {}]
  /\ behind' = behind \ {p}

Watching(p) ==
  \/ ps[p].pc \in {"scan", "publish"}
  \/ ps[p].pc = "ready" /\ ps[p].by = "draft"

Requesting == {p \in Procs : ps[p].pc \in {"asked", "unlisted", "answered"}}

Present(paths) == {q \in paths : disk[q] # Absent}

(* One file changes.                                                       *)
Changes(q, content) ==
  /\ changes < MaxChanges
  /\ disk' = [disk EXCEPT ![q] = content]
  /\ changes' = changes + 1
  /\ touched' = IF readable THEN touched \cup {q} ELSE {}
  /\ moved' = [x \in Procs |-> IF Watching(x) THEN moved[x] \cup {q} ELSE {}]

(* A signature is made over the manifest in hand.                          *)
Signs(key, hand) ==
  /\ signed' = signed \cup {<<key, Payload(hand)>>}
  /\ Cardinality(signed') <= MaxSigned

Begins(p, state) ==
  /\ Free(p)
  /\ Goes(p, state)
  /\ moved' = [moved EXCEPT ![p] = {}]

Init ==
  /\ disk \in [Paths -> Drafts \cup {Absent}]
  /\ index = {}
  /\ readable = FALSE
  /\ ps = [p \in Procs |-> Idle]
  /\ changes = 0
  /\ touched = {}
  /\ moved = [p \in Procs |-> {}]
  /\ behind = {}
  /\ signed = {}
  /\ sealed = {}

-----------------------------------------------------------------------------
(* Writing manifests. *)

(* What a person may turn a manifest into: an edit that leaves the         *)
(* signature block, a key listed or withdrawn, a signature spoilt.         *)
Edited(m) ==
  {[m EXCEPT !.declares = d] : d \in SUBSET Scopes}
  \cup {[m EXCEPT !.keys[id] = k] : id \in KeyIds, k \in Keys \cup {NoKey}}
  \cup (IF m.sig = NoSig THEN {} ELSE {[m EXCEPT !.sig.key = Bad]})

(* A person removes, writes, edits or spoils a file, or promotes a draft   *)
(* by copying it.                                                          *)
HandEdit(q) ==
  /\ \E content \in Drafts \cup {Absent, Damaged} \cup {disk[r] : r \in Paths}
                    \cup (IF disk[q] \in Manifests THEN Edited(disk[q]) ELSE {}) :
       content # disk[q] /\ Changes(q, content)
  /\ sealed' = sealed \ {q}
  /\ UNCHANGED <<index, readable, ps, behind, signed>>

(* sign: the manifest is loaded and signed in memory.                      *)
LoadAndSign(p, q, key, id) ==
  /\ disk[q] \in Manifests
  /\ LET hand == Signed(disk[q], key, id)
     IN  /\ Begins(p, [pc |-> "ready", path |-> q, hand |-> hand, by |-> "sign"])
         /\ Signs(key, hand)
  /\ UNCHANGED <<disk, index, readable, changes, touched, behind, sealed>>

(* Mutant of Draft: the file that is there is not looked at.               *)
Draft_Blind(p, q, m, by) ==
  /\ q \in Discovered
  /\ by \in {"draft", "overwrite"}
  /\ Begins(p, [pc |-> "ready", path |-> q, hand |-> m, by |-> by])
  /\ UNCHANGED <<disk, index, readable, changes, touched, behind, sealed>>

(* One candidate: a file that exists is skipped unless --overwrite, which  *)
(* makes no difference where there is none.                                *)
Draft(p, q, m, by) ==
  /\ q \in Discovered
  /\ \/ by = "draft" /\ disk[q] = Absent
     \/ by = "overwrite" /\ disk[q] # Absent
  /\ Begins(p, [pc |-> "ready", path |-> q, hand |-> m, by |-> by])
  /\ UNCHANGED <<disk, index, readable, changes, touched, behind, sealed>>

(* register-discovered-agents and inventory-internal-agents: the draft is  *)
(* made from a candidate, unsigned.                                        *)
RegisterDiscovered(p, q, m, by) == Draft(p, q, m, by) /\ UNCHANGED signed

(* import-scan-manifests: the draft was exported, and somebody may have    *)
(* signed it where it was exported to.                                     *)
ImportScan(p, q, m, key, id, by) ==
  LET hand == Signed(m, key, id)
  IN  Draft(p, q, hand, by) /\ Signs(key, hand)

(* write_text or copyfile: the file is opened, which empties it.           *)
OpenFile(p) ==
  LET t == ps[p]
  IN  /\ t.pc = "ready"
      /\ Changes(t.path, Damaged)
      /\ Goes(p, [t EXCEPT !.pc = "open"])
      /\ sealed' = sealed \ {t.path}
      /\ UNCHANGED <<index, readable, behind, signed>>

(* The text is written.  If the file is no longer the empty one, somebody  *)
(* else has it by now: the two may mix, or this text may be lost.          *)
WriteFile(p) ==
  LET t == ps[p]
  IN  /\ t.pc = "open"
      /\ \E content \in {t.hand} \cup (IF disk[t.path] = Damaged THEN {}
                                        ELSE {Damaged, disk[t.path]}) :
           /\ disk' = [disk EXCEPT ![t.path] = content]
           /\ sealed' = IF content = t.hand /\ t.by = "sign" THEN sealed \cup {t.path}
                        ELSE IF content = disk[t.path] THEN sealed
                        ELSE sealed \ {t.path}
      /\ touched' = IF readable THEN touched \cup {t.path} ELSE {}
      /\ moved' = [x \in Procs |-> IF Watching(x) THEN moved[x] \cup {t.path} ELSE {}]
      /\ Goes(p, Idle)
      /\ UNCHANGED <<index, readable, changes, behind, signed>>

-----------------------------------------------------------------------------
(* Building the index. *)

(* build_index: the canonical directory is listed.                         *)
BeginBuild(p) ==
  /\ Begins(p, [pc |-> "scan", tree |-> "agents", todo |-> Present(Canonical), found |-> {}])
  /\ UNCHANGED <<disk, index, readable, changes, touched, behind, signed, sealed>>

(* Mutant of Kept: the manifest found last takes the place of the first.   *)
Kept_Last(found, q, m) ==
  {f \in found : f.manifest.agent # m.agent} \cup {[path |-> q, manifest |-> m]}

(* validate_manifest_trees: the first manifest of an agent is kept.        *)
Kept(found, q, m) ==
  IF \E f \in found : f.manifest.agent = m.agent THEN found
  ELSE found \cup {[path |-> q, manifest |-> m]}

(* The next file is loaded; one that cannot be loaded ends the command.    *)
LoadNext(p) ==
  LET t == ps[p]
      q == Min(t.todo)
  IN  /\ t.pc = "scan" /\ t.todo # {}
      /\ \/ /\ disk[q] \in Manifests
            /\ Goes(p, [t EXCEPT !.todo = t.todo \ {q}, !.found = Kept(t.found, q, disk[q])])
            /\ UNCHANGED <<moved, behind>>
         \/ disk[q] \notin Manifests /\ Ends(p)
      /\ UNCHANGED <<Files, index, readable, signed>>

(* All canonical manifests loaded, the discovered directory is listed.     *)
ListDiscovered(p) ==
  LET t == ps[p]
  IN  /\ t.pc = "scan" /\ t.todo = {} /\ t.tree = "agents"
      /\ Goes(p, [t EXCEPT !.tree = "discovered", !.todo = Present(Discovered)])
      /\ UNCHANGED <<Files, index, readable, moved, behind, signed>>

(* The signatures are verified, which may raise; then index.json is        *)
(* opened, which empties it.                                               *)
OpenIndex(p) ==
  LET t == ps[p]
  IN  /\ t.pc = "scan" /\ t.todo = {} /\ t.tree = "discovered"
      /\ \/ /\ \A f \in t.found : ~Raises(f.manifest)
            /\ Goes(p, [pc |-> "publish", rows |-> {Row(f.path, f.manifest) : f \in t.found}])
            /\ index' = {}
            /\ readable' = FALSE
            /\ touched' = {}
            /\ behind' = behind \cup Requesting
            /\ UNCHANGED moved
         \/ /\ \E f \in t.found : Raises(f.manifest)
            /\ Ends(p)
            /\ UNCHANGED <<index, readable, touched>>
      /\ UNCHANGED <<disk, changes, signed, sealed>>

(* The index is written.  If it is readable, another build has written     *)
(* it after this one opened it, and the two may mix.                       *)
WriteIndex(p) ==
  LET t == ps[p]
  IN  /\ t.pc = "publish"
      /\ \/ index' = t.rows /\ readable' = TRUE /\ touched' = moved[p]
         \/ readable /\ index' = {} /\ readable' = FALSE /\ touched' = {}
      /\ behind' = behind \cup Requesting
      /\ moved' = [moved EXCEPT ![p] = {}]
      /\ Goes(p, Idle)
      /\ UNCHANGED <<disk, changes, signed, sealed>>

-----------------------------------------------------------------------------
(* The registry checks of execute_request and issue_credential. *)

(* load_registry_index and the lookup of the agent.                        *)
Ask(p, agent, needs) ==
  /\ readable
  /\ \/ \E r \in index :
          /\ r.agent = agent
          /\ Begins(p, [pc |-> "asked", agent |-> agent, needs |-> needs, path |-> r.path])
     \/ /\ \A r \in index : r.agent # agent
        /\ Begins(p, [pc |-> "unlisted", agent |-> agent])
  /\ behind' = behind \ {p}
  /\ UNCHANGED <<disk, index, readable, changes, touched, signed, sealed>>

(* Mutant of Check: what is asked for need not be declared.                *)
Check_Undeclared(t, m) == IF m.agent # t.agent THEN "mismatch" ELSE "admitted"

(* The checks on the manifest, in the order of the code.                   *)
Check(t, m) ==
  CASE m.agent # t.agent                               -> "mismatch"
    [] m.agent = t.agent /\ ~(t.needs \subseteq m.declares) -> "undeclared"
    [] m.agent = t.agent /\ t.needs \subseteq m.declares    -> "admitted"

Answer(p, said) ==
  /\ Goes(p, [pc |-> "answered", agent |-> ps[p].agent, needs |-> ps[p].needs,
              path |-> ps[p].path, said |-> said])
  /\ UNCHANGED <<moved, behind>>

(* The manifest at the path of the row is loaded and checked.  A file that *)
(* is there but is not even YAML ends the request without an answer.       *)
ReadManifest(p) ==
  LET t == ps[p]
  IN  /\ t.pc = "asked"
      /\ \/ disk[t.path] \in Manifests /\ Answer(p, Check(t, disk[t.path]))
         \/ disk[t.path] \notin Manifests /\ Answer(p, "unreadable")
         \/ disk[t.path] = Damaged /\ Ends(p)
      /\ UNCHANGED <<Files, index, readable, signed>>

(* The answer is given, a process dies.                                    *)
End(p) ==
  /\ ~Free(p)
  /\ Ends(p)
  /\ UNCHANGED <<Files, index, readable, signed>>

Next ==
  \/ \E q \in Paths : HandEdit(q)
  \/ \E p \in Procs :
       \/ \E q \in Paths, key \in Keys, id \in KeyIds : LoadAndSign(p, q, key, id)
       \/ \E q \in Discovered, m \in Drafts, by \in {"draft", "overwrite"} :
            \/ RegisterDiscovered(p, q, m, by)
            \/ \E key \in Keys, id \in KeyIds : ImportScan(p, q, m, key, id, by)
       \/ OpenFile(p) \/ WriteFile(p)
       \/ BeginBuild(p) \/ LoadNext(p) \/ ListDiscovered(p) \/ OpenIndex(p) \/ WriteIndex(p)
       \/ \E agent \in Agents, needs \in SUBSET Scopes : Ask(p, agent, needs)
       \/ ReadManifest(p) \/ End(p)

Spec == Init /\ [][Next]_vars

-----------------------------------------------------------------------------

(* These rows are those of the files, as far as these did not change: one  *)
(* row per agent; a row tells what is in its file; every file is one that  *)
(* loads; and its agent has a row, from this file or an earlier one.       *)
Faithful(rows, changed) ==
  /\ \A r, s \in rows : r.agent = s.agent => r = s
  /\ \A r \in rows : r.path \notin changed =>
       disk[r.path] \in Manifests /\ r = Row(r.path, disk[r.path])
  /\ \A q \in Paths \ changed :
       /\ disk[q] # Damaged
       /\ disk[q] \in Manifests => \E r \in rows : r.agent = disk[q].agent /\ r.path <= q

(* "If the same agent_id appears in both trees, the registry/agents entry  *)
(* wins": whatever was written, signed or promoted while the index was     *)
(* being built, it tells the truth of every file that has not changed      *)
(* since its build began, and of two files of an agent it has the first.   *)
IndexIsTrue == readable => Faithful(index, touched)

(* A row that is marked verified describes a manifest exactly as somebody  *)
(* signed it with a key, however it was edited or copied since; and what   *)
(* sign wrote verifies until somebody else writes the file.                *)
SignaturesTellTruth ==
  /\ \A r \in index : r.verified =>
       \E s \in signed : s[2].agent = r.agent /\ s[2].declares = r.declares
  /\ \A q \in sealed : disk[q] \in Manifests /\ Verified(disk[q])

(* A request that read the present index is refused as unknown, unreadable *)
(* or mismatched only because a file changed since the index was built,    *)
(* and an unchanged file it was answered from is the one that counts for   *)
(* its agent, and declares what was asked for exactly if it was admitted.  *)
AnswersAreCurrent ==
  \A p \in Procs \ behind :
    LET t == ps[p]
    IN  /\ t.pc = "unlisted" =>
             \A q \in Paths \ touched : disk[q] \in Manifests => disk[q].agent # t.agent
        /\ t.pc = "answered" /\ t.path \notin touched =>
             /\ disk[t.path] \in Manifests /\ disk[t.path].agent = t.agent
             /\ t.said = IF t.needs \subseteq disk[t.path].declares THEN "admitted" ELSE "undeclared"
             /\ \A q \in Paths \ touched :
                  disk[q] \in Manifests /\ disk[q].agent = t.agent => t.path <= q

(* "Existing files under registry/discovered/ are left untouched unless    *)
(* you pass --overwrite": a draft takes the place of a file only if that   *)
(* file was written after the command had looked.                          *)
DraftsReplaceOnlyNewcomers ==
  [][\A p \in Procs :
       OpenFile(p) /\ ps[p].by = "draft" /\ disk[ps[p].path] # Absent
         => ps[p].path \in moved[p]]_vars

=============================================================================
