---------------------------- MODULE Release_proofs ----------------------------
(***************************************************************************)
(* Proofs about Release, for any number of commits and tags: what is       *)
(* published as 2.x is whole, and `latest` is never anything but the final *)
(* 2.x.                                                                    *)
(***************************************************************************)
EXTENDS Release, TLAPS

Schema == [status : SUBSET {"a", "c"}, kind : SUBSET {"b"}]
Union  == [claim : {"mirror", "narrowing"}, enums : {{"status"}},
           members : SUBSET {"a", "c"}]

Package ==
    [pin : 1 .. 2, manifest : SUBSET Operations, schema : Schema,
     registry : 1 .. 2, declared : SUBSET Operations,
     symbols : [Languages -> [Operations -> Operations]],
     code : [Languages -> SUBSET Operations], v1 : BOOLEAN,
     generated : [registry : 1 .. 2, pin : 1 .. 2],
     payloads : [codemap : 1 .. 2, definitions : Schema],
     unions : [status : Union], npm : Versions, pypi : Versions]

Run == [scope : Scopes, version : Versions, commit : Nat,
        jobs : [Jobs -> JobStates]]

DistTags == {"latest", "latest-1", "next"}

TypeInv ==
    /\ history \in Seq(Package) /\ history # <<>>
    /\ runs \in Seq(Run)
    /\ npm \in [Versions -> Nat] /\ pypi \in [Versions -> Nat]
    /\ distTags \in [DistTags -> Versions \cup {None}]

(* A green preflight speaks of the commit its tag named, which no later    *)
(* commit replaces; and npm was viewed for a package of the tag's version. *)
RunInv == \A i \in DOMAIN runs :
    /\ runs[i].commit \in DOMAIN history
    /\ runs[i].jobs["preflight"] = "ok" => SdksCheck(history[runs[i].commit])
    /\ runs[i].jobs["ts"] = "viewed" =>
          /\ runs[i].jobs["preflight"] = "ok"
          /\ Agrees(runs[i].version, history[runs[i].commit].npm)

(* Whatever is in a registry as 2.x comes from a commit that passed.       *)
Checked(n) == n \in DOMAIN history /\ SdksCheck(history[n])
PublishedInv == \A v \in Versions \ {"1.9"} :
    /\ npm[v] # 0  => Checked(npm[v])
    /\ pypi[v] # 0 => Checked(pypi[v])

RelInv == TypeInv /\ RunInv /\ PublishedInv /\ LatestIsFinal

-----------------------------------------------------------------------------
(* The commits of the model are packages.                                  *)

LEMMA CorpusTypes ==
  /\ \A k \in 1 .. 2 : /\ Corpus[k].manifest \in SUBSET Operations
                       /\ Corpus[k].schema \in Schema
                       /\ Corpus[k].registry = k
  /\ \A k \in 1 .. 2 : Corpus[k].schema.status \in SUBSET {"a", "c"}
  BY DEF Corpus, Operations, Schema

LEMMA CompleteIsPackage ==
  \A k \in 1 .. 2, v \in Versions : Complete(k, v) \in Package
  BY CorpusTypes DEF Complete, Package, Union

(* Overwriting other fields of a package with values of their type.        *)
LEMMA EditKeeps ==
  ASSUME NEW c \in Package
  PROVE  /\ \A v \in Versions : /\ [c EXCEPT !.npm = v] \in Package
                                /\ [c EXCEPT !.npm = v, !.pypi = v] \in Package
         /\ \A ops \in SUBSET Operations : [c EXCEPT !.declared = ops] \in Package
         /\ [c EXCEPT !.v1 = ~@] \in Package
         /\ \A l \in Languages, ops \in SUBSET Operations :
               [c EXCEPT !.code[l] = ops] \in Package
         /\ \A l \in Languages, op, symbol \in Operations :
               [c EXCEPT !.symbols[l][op] = symbol] \in Package
         /\ \A g \in [registry : 1 .. 2, pin : 1 .. 2] :
            \A q \in [codemap : 1 .. 2, definitions : Schema] :
               [c EXCEPT !.generated = g, !.payloads = q] \in Package
         /\ \A m \in SUBSET {"a", "c"}, k \in {"mirror", "narrowing"} :
               [c EXCEPT !.unions.status.members = m,
                         !.unions.status.claim = k] \in Package
  <1>1. \A v \in Versions : [c EXCEPT !.npm = v] \in Package
    BY DEF Package
  <1>2. \A v \in Versions : [c EXCEPT !.npm = v, !.pypi = v] \in Package
    BY DEF Package
  <1>3. /\ \A ops \in SUBSET Operations : [c EXCEPT !.declared = ops] \in Package
        /\ [c EXCEPT !.v1 = ~@] \in Package
    BY DEF Package
  <1>4. \A l \in Languages, ops \in SUBSET Operations : [c EXCEPT !.code[l] = ops] \in Package
    BY DEF Package
  <1>5. \A g \in [registry : 1 .. 2, pin : 1 .. 2] :
        \A q \in [codemap : 1 .. 2, definitions : Schema] :
           [c EXCEPT !.generated = g, !.payloads = q] \in Package
    BY DEF Package
  <1>6. \A m \in SUBSET {"a", "c"}, k \in {"mirror", "narrowing"} :
           [c EXCEPT !.unions.status.members = m, !.unions.status.claim = k] \in Package
    <2>1. ASSUME NEW d \in Package, NEW m \in SUBSET {"a", "c"}
          PROVE  [d EXCEPT !.unions.status.members = m] \in Package
      BY DEF Package, Union
    <2>2. ASSUME NEW d \in Package, NEW k \in {"mirror", "narrowing"}
          PROVE  [d EXCEPT !.unions.status.claim = k] \in Package
      BY DEF Package, Union
    <2>3. ASSUME NEW m \in SUBSET {"a", "c"}, NEW k \in {"mirror", "narrowing"}
          PROVE  [c EXCEPT !.unions.status.members = m,
                           !.unions.status.claim = k] \in Package
      <3> DEFINE d == [c EXCEPT !.unions.status.members = m]
      <3>1. d \in Package
        BY <2>1
      <3>2. [d EXCEPT !.unions.status.claim = k] \in Package
        BY <2>2, <3>1
      <3>3. [c EXCEPT !.unions.status.members = m, !.unions.status.claim = k]
               = [d EXCEPT !.unions.status.claim = k]
        OBVIOUS
      <3> QED BY <3>1, <3>2, <3>3
    <2> QED BY <2>3
  <1>7. ASSUME NEW l \in Languages, NEW op \in Operations, NEW symbol \in Operations
        PROVE  [c EXCEPT !.symbols[l][op] = symbol] \in Package
    <2> DEFINE symbols == [c.symbols EXCEPT ![l][op] = symbol]
    <2>1. c.symbols \in [Languages -> [Operations -> Operations]]
      BY DEF Package
    <2>2. symbols \in [Languages -> [Operations -> Operations]]
      BY <2>1
    <2>3. [c EXCEPT !.symbols[l][op] = symbol] = [c EXCEPT !.symbols = symbols]
      OBVIOUS
    <2> HIDE DEF symbols
    <2>4. [c EXCEPT !.symbols = symbols] \in Package
      BY <2>2 DEF Package
    <2> QED BY <2>3, <2>4
  <1> QED BY <1>1, <1>2, <1>3, <1>4, <1>5, <1>6, <1>7

LEMMA HalfKeeps ==
  ASSUME NEW c \in Package, NEW ops \in SUBSET Operations,
         NEW code \in [Languages -> SUBSET Operations],
         NEW g \in [registry : 1 .. 2, pin : 1 .. 2],
         NEW q \in [codemap : 1 .. 2, definitions : Schema],
         NEW m \in SUBSET {"a", "c"}
  PROVE  [c EXCEPT !.declared = ops, !.code = code, !.generated = g,
                   !.payloads = q, !.unions.status.members = m] \in Package
  BY DEF Package, Union

LEMMA HalfMovedIsPackage == HalfMoved \in Package
  <1> DEFINE c    == Complete(2, "2.1-rc")
             code == [l \in Languages |-> Corpus[1].manifest]
             q    == [codemap |-> 1, definitions |-> Corpus[1].schema]
  <1>1. c \in Package
    BY CompleteIsPackage DEF Versions
  <1>2. Corpus[1].manifest \in SUBSET Operations /\ code \in [Languages -> SUBSET Operations]
    BY CorpusTypes
  <1>3. q \in [codemap : 1 .. 2, definitions : Schema]
    BY CorpusTypes
  <1>4. [registry |-> 1, pin |-> 1] \in [registry : 1 .. 2, pin : 1 .. 2]
    OBVIOUS
  <1>5. HalfMoved \in Package
    <2> HIDE DEF c, code, q
    <2>1. HalfMoved = [c EXCEPT !.declared = Corpus[1].manifest, !.code = code,
                          !.generated = [registry |-> 1, pin |-> 1],
                          !.payloads = q,
                          !.unions.status.members = Corpus[1].schema.status]
      BY DEF HalfMoved, c, code, q
    <2>2. Corpus[1].schema.status \in SUBSET {"a", "c"}
      BY CorpusTypes
    <2>3. [c EXCEPT !.declared = Corpus[1].manifest, !.code = code,
                    !.generated = [registry |-> 1, pin |-> 1], !.payloads = q,
                    !.unions.status.members = Corpus[1].schema.status] \in Package
      BY <1>1, <1>2, <1>3, <1>4, <2>2, HalfKeeps
    <2> QED BY <2>1, <2>3
  <1> QED BY <1>5

(* Every start is two packages.                                            *)
LEMMA StartIsPackages ==
  ASSUME Init
  PROVE  \E c, d \in Package : history = <<c, d>>
  BY CompleteIsPackage, HalfMovedIsPackage DEF Init, Versions

LEMMA RevendoredIsPackage ==
  ASSUME NEW c \in Package, NEW files \in SUBSET {"manifest", "schema", "registry"}
  PROVE  [f \in DOMAIN c |-> IF f = "pin" THEN 2
                             ELSE IF f \in files THEN Corpus[2][f] ELSE c[f]]
            \in Package
  BY CorpusTypes DEF Package, Corpus

-----------------------------------------------------------------------------
(* Each step keeps the invariant.                                          *)

(* What the steps of a commit have in common.                              *)
ACommit == Revendor \/ MoveAll \/ Declare \/ Rewrite \/ Misname \/ Slip
              \/ RunGenerate \/ EditUnion \/ Bump

LEMMA HeadIsPackage ==
  ASSUME TypeInv
  PROVE  Len(history) \in Nat \ {0} /\ Len(history) \in DOMAIN history /\ head \in Package
  BY DEF TypeInv, head

(* Whichever it is, the commit is a package.                               *)
LEMMA CommitIsPackage ==
  ASSUME TypeInv, ACommit
  PROVE  \E c \in Package : Commit(c)
  <1>1. head \in Package
    BY HeadIsPackage
  <1>3. CASE Revendor
    BY <1>1, <1>3, RevendoredIsPackage DEF Revendor
  <1>4. CASE MoveAll
    BY <1>1, <1>4, CompleteIsPackage DEF MoveAll, Package
  <1>5. CASE Declare
    <2>1. head.manifest \in SUBSET Operations
      BY <1>1 DEF Package
    <2> QED BY <1>1, <1>5, <2>1, EditKeeps DEF Declare
  <1>6. CASE Rewrite
    <2>1. PICK l \in Languages, op \in Operations :
             \/ Commit([head EXCEPT !.code[l] = @ \cup {op}])
             \/ Commit([head EXCEPT !.code[l] = @ \ {op}])
      BY <1>6 DEF Rewrite
    <2>2. /\ head.code[l] \cup {op} \in SUBSET Operations
          /\ head.code[l] \ {op} \in SUBSET Operations
      BY <1>1 DEF Package
    <2> QED BY <1>1, <2>1, <2>2, EditKeeps
  <1>7. CASE Slip
    BY <1>1, <1>7, EditKeeps DEF Slip
  <1>8. CASE RunGenerate
    <2>1. /\ Generate(head) \in [registry : 1 .. 2, pin : 1 .. 2]
          /\ GeneratePayloads(head) \in [codemap : 1 .. 2, definitions : Schema]
      BY <1>1 DEF Package, Generate, GeneratePayloads
    <2> QED BY <1>1, <1>8, <2>1, EditKeeps DEF RunGenerate
  <1>9. CASE EditUnion
    <2>1. PICK m \in {{"a"}, {"a", "c"}, {"c"}}, k \in {"mirror", "narrowing"} :
             Commit([head EXCEPT !.unions.status.members = m,
                                 !.unions.status.claim = k])
      BY <1>9 DEF EditUnion
    <2> QED BY <1>1, <2>1, EditKeeps
  <1>10. CASE Bump
    BY <1>1, <1>10, EditKeeps DEF Bump
  <1>11. CASE Misname
    <2>1. PICK l \in Languages, op \in head.declared, symbol \in head.declared :
             Commit([head EXCEPT !.symbols[l][op] = symbol])
      BY <1>11 DEF Misname
    <2>2. op \in Operations /\ symbol \in Operations
      BY <1>1 DEF Package
    <2> QED BY <1>1, <2>1, <2>2, EditKeeps
  <1> QED BY <1>3, <1>4, <1>5, <1>6, <1>7, <1>8, <1>9, <1>10, <1>11 DEF ACommit

(* A commit is added; the earlier ones stay what they were.                *)
LEMMA HistoryGrows ==
  ASSUME TypeInv, NEW c \in Package, Commit(c)
  PROVE  /\ history' \in Seq(Package) /\ history' # <<>>
         /\ \A i \in DOMAIN history : i \in DOMAIN history' /\ history'[i] = history[i]
         /\ \A i \in DOMAIN history' : i \in DOMAIN history \/ history'[i] = c
  <1>1. history' = Append(history, c)
    BY DEF Commit
  <1>2. history \in Seq(Package)
    BY DEF TypeInv
  <1> QED BY <1>1, <1>2

LEMMA CommitKeeps ==
  ASSUME RelInv, NEW c \in Package, Commit(c)
  PROVE  RelInv'
  <1> USE DEF RelInv
  <1>1. runs' = runs /\ npm' = npm /\ pypi' = pypi /\ distTags' = distTags
    BY DEF Commit, registries
  <1>2. TypeInv'
    BY <1>1, HistoryGrows DEF TypeInv
  <1>4. RunInv'
    BY <1>1, HistoryGrows DEF RunInv
  <1>5. PublishedInv'
    BY <1>1, HistoryGrows DEF PublishedInv, Checked
  <1>6. LatestIsFinal'
    BY <1>1 DEF LatestIsFinal
  <1> QED BY <1>2, <1>4, <1>5, <1>6

LEMMA PushTagKeeps ==
  ASSUME RelInv, NEW scope \in Scopes, NEW v \in Versions,
         NEW n \in DOMAIN history, PushTag(scope, v, n)
  PROVE  RelInv'
  <1> USE DEF RelInv
  <1> DEFINE jobs == [j \in Jobs |-> IF j \in JobsOf(scope) THEN "waiting" ELSE "off"]
             run  == [scope |-> scope, version |-> v, commit |-> n,
                      jobs |-> jobs]
  <1>1. /\ jobs \in [Jobs -> JobStates]
        /\ jobs["preflight"] # "ok" /\ jobs["ts"] # "viewed"
    BY DEF JobStates, Jobs
  <1>2. run \in Run /\ run.commit \in DOMAIN history
    <2> HIDE DEF jobs
    <2>1. n \in Nat
      BY DEF TypeInv
    <2> QED BY <1>1, <2>1 DEF Run
  <1>3. /\ run.jobs["preflight"] # "ok" /\ run.jobs["ts"] # "viewed"
    BY <1>1
  <1>4. runs' = Append(runs, run) /\ UNCHANGED <<history, npm, pypi, distTags>>
    BY DEF PushTag, registries
  <1> HIDE DEF run
  <1>5. runs' \in Seq(Run)
    BY <1>2, <1>4 DEF TypeInv
  <1>a. \A i \in DOMAIN runs' : runs'[i] = run \/ (i \in DOMAIN runs /\ runs'[i] = runs[i])
    BY <1>2, <1>4 DEF TypeInv
  <1>6. TypeInv' /\ PublishedInv' /\ LatestIsFinal'
    BY <1>4, <1>5 DEF TypeInv, PublishedInv, Checked, LatestIsFinal
  <1>7. RunInv'
    BY <1>2, <1>3, <1>4, <1>a DEF RunInv
  <1> QED BY <1>6, <1>7

(* A job's new state is all that changes in the runs.                      *)
LEMMA JobChanges ==
  ASSUME TypeInv, NEW i \in DOMAIN runs, NEW job \in Jobs, NEW state \in JobStates,
         Becomes(i, job, state)
  PROVE  /\ runs' \in Seq(Run) /\ DOMAIN runs' = DOMAIN runs
         /\ \A k \in DOMAIN runs :
               /\ runs'[k].commit = runs[k].commit /\ runs'[k].version = runs[k].version
               /\ \A j \in Jobs : runs'[k].jobs[j] = IF k = i /\ j = job THEN state
                                                     ELSE runs[k].jobs[j]
  <1> DEFINE run == [runs[i] EXCEPT !.jobs[job] = state]
  <1>1. runs[i] \in Run
    BY DEF TypeInv
  <1>2. /\ run \in Run /\ run.commit = runs[i].commit /\ run.version = runs[i].version
        /\ \A j \in Jobs : run.jobs[j] = IF j = job THEN state ELSE runs[i].jobs[j]
    BY <1>1 DEF Run
  <1>3. runs' = [runs EXCEPT ![i] = run]
    BY DEF Becomes
  <1> HIDE DEF run
  <1>4. runs' \in Seq(Run) /\ DOMAIN runs' = DOMAIN runs
    BY <1>2, <1>3 DEF TypeInv
  <1>5. \A k \in DOMAIN runs : runs'[k] = IF k = i THEN run ELSE runs[k]
    BY <1>3
  <1> QED BY <1>2, <1>4, <1>5
(* A job's new state must be earned.                                       *)
RunsKept ==
    /\ history' \in Seq(Package) /\ history' # <<>>
    /\ runs' \in Seq(Run) /\ RunInv'

LEMMA JobKeeps ==
  ASSUME RelInv, NEW i \in DOMAIN runs, NEW job \in Jobs, NEW state \in JobStates,
         Becomes(i, job, state), UNCHANGED history,
         job = "preflight" => /\ runs[i].jobs["preflight"] = "waiting"
                              /\ state = "ok" => SdksCheck(history[runs[i].commit]),
         job = "ts" /\ state = "viewed" =>
            /\ runs[i].jobs["preflight"] = "ok"
            /\ Agrees(runs[i].version, history[runs[i].commit].npm)
  PROVE  RunsKept
  <1> USE DEF RelInv
  <1>1. "preflight" \in Jobs /\ "ts" \in Jobs
    BY DEF Jobs
  <1>2. history' \in Seq(Package) /\ history' # <<>>
    BY DEF TypeInv
  <1>3. RunInv'
    BY <1>1, JobChanges DEF RunInv
  <1> QED BY <1>2, <1>3, JobChanges DEF RunsKept

LEMMA PreflightKeeps ==
  ASSUME RelInv, NEW i \in DOMAIN runs, Preflight(i)
  PROVE  RelInv'
  <1> USE DEF RelInv, RunsKept
  <1>1. PICK state \in {"ok", "red"} :
           /\ Becomes(i, "preflight", state)
           /\ state = "ok" => SdksCheck(history[runs[i].commit])
    BY DEF Preflight, Verdicts
  <1>a. UNCHANGED <<history, npm, pypi, distTags>> /\ runs[i].jobs["preflight"] = "waiting"
    BY DEF Preflight, Waits, registries
  <1>2. "preflight" \in Jobs /\ state \in JobStates
    BY DEF Jobs, JobStates
  <1>4. RunsKept
    BY <1>1, <1>a, <1>2, JobKeeps
  <1> QED BY <1>a, <1>4 DEF TypeInv, PublishedInv, Checked, LatestIsFinal

(* A job that breaks changes no registry.                                  *)
LEMMA BreaksKeeps ==
  ASSUME RelInv, NEW i \in DOMAIN runs, Breaks(i)
  PROVE  RelInv'
  <1> USE DEF RelInv, RunsKept
  <1>1. PICK job \in {"ts", "py"} : Becomes(i, job, "broken")
    BY DEF Breaks
  <1>2. UNCHANGED <<history, npm, pypi, distTags>>
    BY DEF Breaks, registries
  <1>3. RunsKept
    BY <1>1, <1>2, JobKeeps DEF Jobs, JobStates
  <1> QED BY <1>2, <1>3 DEF TypeInv, PublishedInv, Checked, LatestIsFinal

(* The versions a package can be published under.                          *)
LEMMA OwnVersion ==
  ASSUME TypeInv, NEW i \in DOMAIN runs, runs[i].commit \in DOMAIN history
  PROVE  LET c == history[runs[i].commit]
         IN /\ runs[i].version \in Versions /\ runs[i].commit \in Nat \ {0}
            /\ Own(runs[i].version, c.npm) \in Versions
            /\ Own(runs[i].version, c.pypi) \in Versions
  <1>1. runs[i] \in Run /\ history[runs[i].commit] \in Package
    BY DEF TypeInv
  <1>2. runs[i].commit \in Nat \ {0}
    BY <1>1 DEF TypeInv, Run
  <1> QED BY <1>1, <1>2 DEF Own, Versions, Run, Package

LEMMA NpmViewKeeps ==
  ASSUME RelInv, NEW i \in DOMAIN runs, NpmView(i)
  PROVE  RelInv'
  <1> USE DEF RelInv, RunsKept
  <1> DEFINE own   == history[runs[i].commit].npm
             state == IF ~Agrees(runs[i].version, own) THEN "red"
                      ELSE IF npm[Own(runs[i].version, own)] # 0 THEN "ok" ELSE "viewed"
  <1>1. /\ Becomes(i, "ts", state) /\ UNCHANGED <<history, npm, pypi, distTags>>
        /\ runs[i].jobs["preflight"] = "ok"
    BY DEF NpmView, Ready, registries
  <1>2. "ts" \in Jobs /\ state \in JobStates
    BY DEF Jobs, JobStates
  <1>3. state = "viewed" => Agrees(runs[i].version, own)
    OBVIOUS
  <1> HIDE DEF state
  <1>4. RunsKept
    BY <1>1, <1>2, <1>3, JobKeeps
  <1> QED BY <1>1, <1>4 DEF TypeInv, PublishedInv, Checked, LatestIsFinal

(* `npm publish` of a version nobody has published.                        *)
LEMMA NpmPublishKeeps ==
  ASSUME RelInv, NEW i \in DOMAIN runs, NpmPublish(i)
  PROVE  RelInv'
  <1> USE DEF RelInv, RunsKept
  <1> DEFINE r   == runs[i]
             own == history[r.commit].npm
             v   == Own(r.version, own)
  <1>1. /\ r.jobs["preflight"] = "ok" /\ r.jobs["ts"] = "viewed"
        /\ Agrees(r.version, own) /\ Checked(r.commit)
    BY DEF NpmPublish, RunInv, Checked
  <1>2. v \in Versions /\ r.version \in Versions /\ r.commit \in Nat \ {0}
    BY <1>1, OwnVersion DEF Checked
  <1>3. UNCHANGED <<history, pypi>>
    BY DEF NpmPublish
  <1>4. PICK state \in {"red", "ok", "broken"} : Becomes(i, "ts", state)
    BY DEF NpmPublish, Uploads
  <1>5. RunsKept
    BY <1>3, <1>4, JobKeeps DEF Jobs, JobStates
  <1>6. CASE UNCHANGED <<npm, distTags>>
    BY <1>3, <1>5, <1>6 DEF TypeInv, PublishedInv, Checked, LatestIsFinal
  <1>7. CASE /\ npm' = [npm EXCEPT ![v] = r.commit]
             /\ distTags' = [distTags EXCEPT ![NpmTag(r.version)] = v]
    <2>1. NpmTag(r.version) \in DistTags
      BY <1>2 DEF NpmTag, DistTags, IsPre, Major
    <2>2. NpmTag(r.version) = "latest" => v = "2.1"
      BY <1>1, <1>2 DEF NpmTag, Own, Agrees, IsPre, Major, Versions
    <2>3. npm' \in [Versions -> Nat] /\ distTags' \in [DistTags -> Versions \cup {None}]
      BY <1>2, <1>7, <2>1 DEF TypeInv
    <2>4. TypeInv'
      BY <1>3, <1>5, <2>3 DEF TypeInv
    <2>5. LatestIsFinal'
      BY <1>7, <2>1, <2>2 DEF TypeInv, LatestIsFinal, DistTags
    <2>6. \A w \in Versions : npm'[w] = IF w = v THEN r.commit ELSE npm[w]
      BY <1>7 DEF TypeInv
    <2>7. PublishedInv'
      BY <1>1, <1>3, <2>6 DEF PublishedInv, Checked
    <2> QED BY <1>5, <2>4, <2>5, <2>7
  <1> QED BY <1>6, <1>7 DEF NpmPublish

(* PyPI, with skip-existing.                                               *)
LEMMA PyPublishKeeps ==
  ASSUME RelInv, NEW i \in DOMAIN runs, PyPublish(i)
  PROVE  RelInv'
  <1> USE DEF RelInv, RunsKept
  <1> DEFINE r   == runs[i]
             own == history[r.commit].pypi
             v   == Own(r.version, own)
  <1>1. Checked(r.commit)
    BY DEF PyPublish, Ready, RunInv, Checked
  <1>2. v \in Versions /\ r.commit \in Nat \ {0}
    BY <1>1, OwnVersion DEF Checked
  <1>3. UNCHANGED <<history, npm, distTags>>
    BY DEF PyPublish
  <1>4. PICK state \in {"red", "ok", "broken"} : Becomes(i, "py", state)
    BY DEF PyPublish, Uploads
  <1>5. RunsKept
    BY <1>3, <1>4, JobKeeps DEF Jobs, JobStates
  <1>6. pypi' = pypi \/ pypi' = [pypi EXCEPT ![v] = r.commit]
    BY DEF PyPublish
  <1>7. /\ pypi' \in [Versions -> Nat]
        /\ \A w \in Versions : pypi'[w] \in {pypi[w], r.commit}
    BY <1>2, <1>6 DEF TypeInv
  <1>8. TypeInv' /\ LatestIsFinal'
    BY <1>3, <1>5, <1>7 DEF TypeInv, LatestIsFinal
  <1>9. PublishedInv'
    BY <1>1, <1>3, <1>7 DEF PublishedInv, Checked
  <1> QED BY <1>5, <1>8, <1>9

LEMMA RelInit == Init => RelInv
  <1> SUFFICES ASSUME Init PROVE RelInv
    OBVIOUS
  <1>1. TypeInv
    <2>1. PICK c, d \in Package : history = <<c, d>>
      BY StartIsPackages
    <2>2. history \in Seq(Package) /\ history # <<>>
      BY <2>1
    <2>3. /\ runs \in Seq(Run)
          /\ distTags \in [DistTags -> Versions \cup {None}]
      BY DEF Init, DistTags
    <2> QED BY <2>2, <2>3 DEF Init, TypeInv
  <1> QED BY <1>1 DEF Init, RelInv, RunInv, PublishedInv, LatestIsFinal, Versions, None

LEMMA RelStep == RelInv /\ [Next]_vars => RelInv'
  <1> SUFFICES ASSUME RelInv, [Next]_vars PROVE RelInv'
    OBVIOUS
  <1>1. CASE ACommit
    BY <1>1, CommitIsPackage, CommitKeeps DEF RelInv
  <1>2. CASE \E scope \in Scopes, v \in Versions, n \in DOMAIN history :
                PushTag(scope, v, n)
    BY <1>2, PushTagKeeps
  <1>3. CASE \E i \in DOMAIN runs : \/ Preflight(i) \/ Breaks(i) \/ NpmView(i)
                                    \/ NpmPublish(i) \/ PyPublish(i)
    BY <1>3, PreflightKeeps, BreaksKeeps, NpmViewKeeps, NpmPublishKeeps, PyPublishKeeps
  <1>4. CASE UNCHANGED vars
    BY <1>4 DEF vars, RelInv, TypeInv, RunInv, PublishedInv, Checked, LatestIsFinal
  <1> QED BY <1>1, <1>2, <1>3, <1>4 DEF Next, ACommit

LEMMA RelInvariance == Spec => []RelInv
  BY RelInit, RelStep, PTL DEF Spec

-----------------------------------------------------------------------------
(* In whatever order tags of both majors are pushed and their jobs run,    *)
(* npm `latest` is nothing or the final 2.x: no 1.x and no pre-release     *)
(* takes it.                                                               *)
THEOREM LatestStaysFinal == Spec => []LatestIsFinal
  BY RelInvariance, PTL DEF RelInv

(* A package that passed the checks is whole, in each language.            *)
LEMMA PassedIsWhole ==
  ASSUME NEW c \in Package, SdksCheck(c), NEW language \in Languages
  PROVE  Whole(c, language)
  <1>1. c.generated = Generate(c) /\ c.payloads = GeneratePayloads(c)
    BY DEF SdksCheck, GeneratedIsCurrent
  <1>2. HasMethods(c, language)
    <2> SUFFICES ASSUME NEW op \in c.manifest \ c.code[language],
                        c.symbols[language][op] = op
                 PROVE  language = "ts" /\ \E o \in c.code["ts"] :
                                               o.method = op.method /\ o.ns # op.ns
      BY DEF HasMethods
    <2>1. op \in c.declared /\ IsWired(language, c.code[language], op, op)
      BY DEF SdksCheck, Parity
    <2>2. language = "ts"
      BY <2>1 DEF IsWired, hasSymbol
    <2>3. PICK o \in c.code["ts"] : o.method = op.method
      BY <2>1, <2>2 DEF IsWired, hasSymbol
    <2>4. op \in Operations /\ o \in Operations /\ o # op
      BY <2>1, <2>2, <2>3 DEF Package, Languages
    <2>5. o.ns # op.ns
      BY <2>3, <2>4 DEF Operations, RunsGet, RunsList, AgentsList, Operation
    <2> QED BY <2>2, <2>3, <2>5
  <1>3. /\ c.unions.status.members \subseteq c.schema.status
        /\ c.unions.status.claim = "mirror"
              => c.unions.status.members = c.schema.status
    <2>1. Holds(c.unions["status"], c.schema)
      BY DEF SdksCheck, UnionsHold, Package
    <2>2. c.unions["status"] \in Union
      BY DEF Package
    <2> QED BY <2>1, <2>2 DEF Holds, Union
  <1> QED BY <1>1, <1>2, <1>3 DEF Whole

(* Whatever the maintainers commit, whichever commits they tag and whatever *)
(* breaks, a package that reached npm or PyPI as 2.x is whole by the files  *)
(* in its own commit.  (That those are the files of the corpus release the  *)
(* commit's pin names is not claimed: no job that publishes looks.)         *)
THEOREM WholePackagesOnly == Spec => []PublishedIsWhole
  <1>1. RelInv => PublishedIsWhole
    <2> SUFFICES ASSUME RelInv, NEW v \in Versions \ {"1.9"}
                 PROVE  /\ npm[v] # 0  => Whole(history[npm[v]], "ts")
                        /\ pypi[v] # 0 => Whole(history[pypi[v]], "py")
      BY DEF PublishedIsWhole
    <2>1. ASSUME NEW n, Checked(n), NEW language \in Languages
          PROVE  Whole(history[n], language)
      BY <2>1, PassedIsWhole DEF RelInv, TypeInv, Checked
    <2> QED BY <2>1 DEF RelInv, PublishedInv, Languages
  <1> QED BY <1>1, RelInvariance, PTL
==============================================================================
