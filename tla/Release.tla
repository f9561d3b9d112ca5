-------------------------------- MODULE Release --------------------------------
(***************************************************************************)
(* From a commit to the registries: the maintainers' commits, the tags     *)
(* they push and the jobs of publish.yml that each tag starts, side by     *)
(* side, on npm and PyPI.  The checks (Gates) stand between.  (Of Go, the  *)
(* tag is the release: its job publishes nothing and no job waits for it.) *)
(***************************************************************************)
EXTENDS Gates, Sequences

CONSTANT MaxEvents   \* bound: commits made and tags pushed, from Init on

(* The corpus, release by release: the second adds an operation and an     *)
(* enum member.                                                            *)
Corpus ==
    <<[manifest |-> {RunsGet, RunsList},
       schema   |-> [status |-> {"a"}, kind |-> {"b"}],
       registry |-> 1],
      [manifest |-> Operations,
       schema   |-> [status |-> {"a", "c"}, kind |-> {"b"}],
       registry |-> 2]>>

Versions     == {"1.9", "2.1-rc", "2.1"}
Major(v)     == IF v = "1.9" THEN 1 ELSE 2
IsPre(v)     == v = "2.1-rc"
None         == "none"
Scopes       == {"v", "openwop/v", "openwop-client/v"}
Jobs         == {"preflight", "ts", "py"}
JobStates    == {"off", "waiting", "viewed", "ok", "red", "broken"}

(* A package of the 2.x line as it should be, at one corpus release.       *)
Complete(k, version) ==
    [pin |-> k, manifest |-> Corpus[k].manifest, schema |-> Corpus[k].schema,
     registry |-> Corpus[k].registry, declared |-> Corpus[k].manifest,
     symbols |-> [l \in Languages |-> [op \in Operations |-> op]],
     code |-> [l \in Languages |-> Corpus[k].manifest], v1 |-> FALSE,
     generated |-> [registry |-> Corpus[k].registry, pin |-> k],
     payloads |-> [codemap |-> Corpus[k].registry,
                   definitions |-> Corpus[k].schema],
     unions |-> [status |-> [claim |-> "mirror", enums |-> {"status"},
                             members |-> Corpus[k].schema.status]],
     npm |-> version, pypi |-> version]

(* One that took the files of the next corpus release over and no more.    *)
HalfMoved == [Complete(2, "2.1-rc") EXCEPT
    !.declared  = Corpus[1].manifest,
    !.code      = [l \in Languages |-> Corpus[1].manifest],
    !.generated = [registry |-> 1, pin |-> 1],
    !.payloads  = [codemap |-> 1, definitions |-> Corpus[1].schema],
    !.unions.status.members = Corpus[1].schema.status]

VARIABLES
    history,   \* the commits
    runs,      \* one per tag: what it names, its commit, the state of its jobs
    npm,       \* the commit each version was published from, or 0
    distTags,  \* the version under each dist-tag
    pypi

vars == <<history, runs, npm, distTags, pypi>>
registries == <<npm, distTags, pypi>>

head == history[Len(history)]

InBound == Len(history) - 2 + Len(runs) < MaxEvents

Init ==
    /\ history \in {<<Complete(1, "2.1-rc"), next>> : next \in
                       {Complete(1, "2.1"), Complete(2, "2.1"), HalfMoved}}
    /\ runs = <<>>
    /\ npm = [v \in Versions |-> 0] /\ pypi = [v \in Versions |-> 0]
    /\ distTags = [t \in {"latest", "latest-1", "next"} |-> None]

-----------------------------------------------------------------------------
(* Commits.  Each does one thing; the next one may forget what follows     *)
(* from it.                                                                *)

Commit(c) ==
    /\ InBound /\ c # head
    /\ history' = Append(history, c)
    /\ UNCHANGED <<runs, registries>>

(* A new corpus tag, with all the vendored files of that tag or only some: *)
(* vendored-sync.yml looks at pull requests, but not at what is pushed     *)
(* directly or tagged on a branch, and publish.yml does not repeat it.     *)
Revendor ==
    \E files \in SUBSET {"manifest", "schema", "registry"} :
        Commit([f \in DOMAIN head |->
                   IF f = "pin" THEN 2
                   ELSE IF f \in files THEN Corpus[2][f] ELSE head[f]])
MoveAll == Commit(Complete(2, head.npm))
Declare == Commit([head EXCEPT !.declared = head.manifest])
Rewrite == \E l \in Languages : \E op \in Operations :
               \/ Commit([head EXCEPT !.code[l] = @ \cup {op}])
               \/ Commit([head EXCEPT !.code[l] = @ \ {op}])
Misname == \E l \in Languages : \E op, symbol \in head.declared :
               Commit([head EXCEPT !.symbols[l][op] = symbol])
Slip == Commit([head EXCEPT !.v1 = ~@])
RunGenerate == Commit([head EXCEPT !.generated = Generate(head),
                                   !.payloads = GeneratePayloads(head)])
EditUnion ==
    \E members \in {{"a"}, {"a", "c"}, {"c"}} :
    \E claim \in {"mirror", "narrowing"} :
        Commit([head EXCEPT !.unions.status.members = members,
                            !.unions.status.claim = claim])
Bump == \E v \in Versions \ {"1.9"} :
            \/ Commit([head EXCEPT !.npm = v])
            \/ Commit([head EXCEPT !.npm = v, !.pypi = v])

-----------------------------------------------------------------------------
(* Tags, and the jobs of their workflow runs.                              *)

(* `resolve`: which jobs a tag starts, and the npm dist-tag.  Mutant: the  *)
(* dist-tag is chosen without a look at the major.                         *)
JobsOf(scope) ==
    {"preflight"} \cup CASE scope = "v"                -> {"ts", "py"}
                         [] scope = "openwop/v"        -> {"ts"}
                         [] scope = "openwop-client/v" -> {"py"}
NpmTagAnyMajor(v) == IF IsPre(v) THEN "next" ELSE "latest"
NpmTag(v) == CASE IsPre(v)     -> "next"
               [] Major(v) = 1 -> "latest-1"
               [] OTHER        -> "latest"

(* A tag may be put on any commit.                                         *)
PushTag(scope, v, n) ==
    /\ InBound
    /\ ~\E i \in DOMAIN runs : runs[i].scope = scope /\ runs[i].version = v
    /\ runs' = Append(runs,
           [scope |-> scope, version |-> v, commit |-> n,
            jobs |-> [j \in Jobs |-> IF j \in JobsOf(scope) THEN "waiting"
                                                             ELSE "off"]])
    /\ UNCHANGED <<history, registries>>

Becomes(i, job, state) == runs' = [runs EXCEPT ![i].jobs[job] = state]
Waits(i, job) == runs[i].jobs[job] = "waiting"
Ready(i, job) == Waits(i, job) /\ runs[i].jobs["preflight"] = "ok"

Verdicts(c) == IF SdksCheck(c) THEN {"ok", "red"} ELSE {"red"}

(* No job is tried again, and any step of it may break: an install, a      *)
(* build, a login, an upload.                                              *)
Preflight(i) ==
    /\ Waits(i, "preflight")
    /\ \E verdict \in Verdicts(history[runs[i].commit]) :
          Becomes(i, "preflight", verdict)
    /\ UNCHANGED <<history, registries>>

Breaks(i) ==
    /\ \E job \in {"ts", "py"} :
          /\ Ready(i, job) \/ runs[i].jobs[job] = "viewed"
          /\ Becomes(i, job, "broken")
    /\ UNCHANGED <<history, registries>>

(* The registry takes a package; the step that sent it may still break.    *)
Uploads(i, job) == Becomes(i, job, "ok") \/ Becomes(i, job, "broken")

(* "Version <-> tag agreement + pre-release discipline (2.x)".  Mutant:    *)
(* the tag with its `v`, which is never the package's version.             *)
AgreesNever(v, own) == v = "1.9"
Agrees(v, own) == Major(v) = 1 \/ v = own

(* What a package published for a tag is called.                           *)
Own(v, own) == IF Major(v) = 1 THEN "1.9" ELSE own

(* npm: the checks and `npm view`, then `npm publish`; in between another  *)
(* run may have published the version.                                     *)
NpmView(i) ==
    LET v   == runs[i].version
        own == history[runs[i].commit].npm
    IN
    /\ Ready(i, "ts")
    /\ Becomes(i, "ts", IF ~Agrees(v, own) THEN "red"
                        ELSE IF npm[Own(v, own)] # 0 THEN "ok" ELSE "viewed")
    /\ UNCHANGED <<history, registries>>

NpmPublish(i) ==
    LET r == runs[i]
        v == Own(r.version, history[r.commit].npm)
    IN /\ r.jobs["ts"] = "viewed"
       /\ IF npm[v] # 0
          THEN Becomes(i, "ts", "red") /\ UNCHANGED <<npm, distTags>>
          ELSE /\ Uploads(i, "ts")
               /\ npm' = [npm EXCEPT ![v] = r.commit]
               /\ distTags' = [distTags EXCEPT ![NpmTag(r.version)] = v]
       /\ UNCHANGED <<history, pypi>>

(* PyPI: skip-existing.                                                    *)
PyPublish(i) ==
    LET r == runs[i]
        own == history[r.commit].pypi
        v == Own(r.version, own)
    IN /\ Ready(i, "py")
       /\ IF ~Agrees(r.version, own)
          THEN Becomes(i, "py", "red") /\ UNCHANGED pypi
          ELSE /\ Uploads(i, "py")
               /\ pypi' = IF pypi[v] # 0 THEN pypi
                          ELSE [pypi EXCEPT ![v] = r.commit]
       /\ UNCHANGED <<history, npm, distTags>>

Next ==
    \/ Revendor \/ MoveAll \/ Declare \/ Rewrite \/ Misname \/ Slip
    \/ RunGenerate \/ EditUnion \/ Bump
    \/ \E scope \in Scopes, v \in Versions, n \in DOMAIN history :
          PushTag(scope, v, n)
    \/ \E i \in DOMAIN runs :
          \/ Preflight(i) \/ Breaks(i) \/ NpmView(i) \/ NpmPublish(i) \/ PyPublish(i)

Spec == Init /\ [][Next]_vars

(* A job that can start is run, to its end or till it breaks; each for     *)
(* itself.                                                                 *)
Fairness ==
    \A i \in 1..MaxEvents :
        /\ WF_vars(i \in DOMAIN runs /\ Preflight(i))
        /\ WF_vars(i \in DOMAIN runs /\ (NpmView(i) \/ NpmPublish(i)))
        /\ WF_vars(i \in DOMAIN runs /\ PyPublish(i))

LiveSpec == Spec /\ Fairness

-----------------------------------------------------------------------------
(* What is published as 2.x is whole: it has every operation of the path   *)
(* manifest in its commit, but for those the expectations file names       *)
(* wrongly and the TypeScript methods the parity check cannot tell from    *)
(* one of the same name in another namespace; its generated files come     *)
(* from the registries in its commit; its unions are what they claim of    *)
(* the schemas there.  Whether those files are the ones of the corpus      *)
(* release its pin names, no step on the way to a registry asks.           *)
HasMethods(c, language) ==
    \A op \in c.manifest \ c.code[language] :
        \/ c.symbols[language][op] # op
        \/ language = "ts" /\ \E o \in c.code["ts"] :
                                  o.method = op.method /\ o.ns # op.ns
Whole(c, language) ==
    /\ HasMethods(c, language)
    /\ c.generated = Generate(c) /\ c.payloads = GeneratePayloads(c)
    /\ c.unions.status.members \subseteq c.schema.status
    /\ c.unions.status.claim = "mirror"
           => c.unions.status.members = c.schema.status
PublishedIsWhole ==
    \A v \in Versions \ {"1.9"} :
        /\ npm[v] # 0  => Whole(history[npm[v]], "ts")
        /\ pypi[v] # 0 => Whole(history[pypi[v]], "py")

(* "2.x holds npm `latest`; a 1.x publish must not take it back", and a    *)
(* pre-release is published under `next`, never `latest`: in whatever      *)
(* order tags of both majors are pushed and their jobs run.                *)
LatestIsFinal == distTags["latest"] \in {None, "2.1"}

(* Each package of a tag on a commit that passed and names its version is  *)
(* released to npm or PyPI unless a step of its own job breaks: not held   *)
(* up by the other packages' jobs, and also when another tag names the     *)
(* same version - a job that goes red because it lost the race leaves the  *)
(* version published.                                                      *)
Good(i) ==
    /\ i \in DOMAIN runs /\ runs[i].jobs["preflight"] = "ok"
    /\ runs[i].version = history[runs[i].commit].npm
Released(i) ==
    /\ runs[i].jobs["ts"] \in {"off", "broken"} \/ npm[runs[i].version] # 0
    /\ runs[i].jobs["py"] \in {"off", "broken"} \/ pypi[runs[i].version] # 0
GoodTagIsReleased == \A i \in 1..MaxEvents : Good(i) ~> Good(i) /\ Released(i)

==============================================================================
