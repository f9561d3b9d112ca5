--------------------------------- MODULE Gates ---------------------------------
(***************************************************************************)
(* The checks of scripts/ that stand between a commit and a release: SDK   *)
(* parity, generated files, narrow unions, /v1 literals and the versions   *)
(* of the packages, as predicates of a commit.                             *)
(*                                                                         *)
(* A commit is a record of what the checks look at, for the 2.x packages:  *)
(*   pin        the release CORPUS_TAG names                               *)
(*   manifest   the operations of the vendored path manifest               *)
(*   schema     the closed enums of the vendored schemas                   *)
(*   registry   the vendored registries the generators read                *)
(*   declared   the operations of the expectations file                    *)
(*   symbols    the method that file names for each, language by language  *)
(*   code       the operations each package has a method for               *)
(*   v1         a package's source holds a /v1 literal                     *)
(*   generated  what generated.ts was produced from                        *)
(*   payloads   what generated-payloads.ts was produced from               *)
(*   unions     the narrow unions of types.ts                              *)
(*   npm, pypi  the versions the two packages give themselves              *)
(***************************************************************************)
EXTENDS FiniteSets, Naturals

Languages == {"ts", "py", "go"}

(* An operation: the method `ns.method`, and what of its path a text search *)
(* for the most distinctive fragment can find.  (Every path of the 2.x     *)
(* manifest has one of the four characters the check asks for.)            *)
Operation(ns, method) == [ns |-> ns, method |-> method, fragment |-> ns]
RunsGet    == Operation("runs", "get")
RunsList   == Operation("runs", "list")
AgentsList == Operation("agents", "list")
Operations == {RunsGet, RunsList, AgentsList}

-----------------------------------------------------------------------------
(* check-sdk-parity.mjs                                                    *)

(* Go and Python: the symbol's definition.  TypeScript: the namespace and, *)
(* anywhere in the source, a key with the method's name.                   *)
hasSymbol(language, code, symbol) ==
    IF language = "ts"
    THEN /\ \E o \in code : o.ns = symbol.ns
         /\ \E o \in code : o.method = symbol.method
    ELSE symbol \in code

(* Mutant: a method may be missing if the path is still mentioned.         *)
IsWiredFragment(language, code, op, symbol) ==
    \E o \in code : o.fragment = op.fragment

(* The method is the one the expectations file names, right or wrong.      *)
IsWired(language, code, op, symbol) ==
    /\ hasSymbol(language, code, symbol)
    /\ \E o \in code : o.fragment = op.fragment

Parity(c) ==
    /\ c.manifest = c.declared                  \* no undeclared, no orphan
    /\ \A language \in Languages : \A op \in c.declared :
          IsWired(language, c.code[language], op, c.symbols[language][op])
    /\ ~c.v1

-----------------------------------------------------------------------------
(* check-narrow-union-drift.mjs: a union names the enums its interface is  *)
(* a mirror or a narrowing of, or an authority elsewhere.                  *)

(* The rules by which a union is compared with what it names.              *)
Holds(union, schema) ==
    \/ union.claim = "authority"
    \/ union.claim = "narrowing" /\ \E e \in union.enums :
           union.members \subseteq schema[e]
    \/ union.claim = "mirror" /\ \E e \in union.enums :
           union.members = schema[e]

(* A union that names nothing fails, and so does a sweep that saw none.    *)
UnionsHold(c) ==
    /\ \E u \in DOMAIN c.unions : c.unions[u].claim # "authority"
    /\ \A u \in DOMAIN c.unions : Holds(c.unions[u], c.schema)

-----------------------------------------------------------------------------
(* generate.mjs and generate-payloads.mjs: what the vendored registries,   *)
(* the pin and the vendored schemas produce now.                           *)
Generate(c)         == [registry |-> c.registry, pin |-> c.pin]
GeneratePayloads(c) == [codemap |-> c.registry, definitions |-> c.schema]

(* With --check: it is what is committed.                                  *)
GeneratedIsCurrent(c) ==
    c.generated = Generate(c) /\ c.payloads = GeneratePayloads(c)

(* check-python-go-release-surface.sh: the two packages name one release.  *)
ReleaseSurface(c) == c.npm = c.pypi

(* sdks-check.sh, in its order; the first failure ends it.                 *)
SdksCheck(c) ==
    /\ GeneratedIsCurrent(c)
    /\ Parity(c)
    /\ ReleaseSurface(c)
    /\ UnionsHold(c)

==============================================================================
