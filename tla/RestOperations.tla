---------------------------- MODULE RestOperations ----------------------------
(***************************************************************************)
(* The operations of the two TypeScript REST clients, namespace by         *)
(* namespace, reduced to what decides how a call behaves over a network    *)
(* that loses answers: whether it changes state, whether the caller can    *)
(* give it an idempotency key and whether that key becomes a header, which *)
(* statuses it turns into a value instead of an exception, and how it      *)
(* reads the body of a success.  Paths, query strings and types are left   *)
(* out.  A `2` in a name is the 2.x client, a `1` the 1.x client.          *)
(***************************************************************************)
EXTENDS Naturals

Shape ==
    [ writes  : BOOLEAN,               \* the host's state changes
      offers  : BOOLEAN,               \* takes MutationOptions
      sends   : BOOLEAN,               \* passes them through #mutationHeaders
      dedups  : BOOLEAN,               \* the host honours `dedup: 'enforce'`
      absent  : SUBSET {404, 501},     \* statuses that are no exception
      missing : {"null", "false"},     \* ... but this value
      answer  : {"json", "field", "text", "none", "true"} ]
         (* the parsed body, a field of it, the bare text, nothing, `true` *)

Read == [ writes |-> FALSE, offers |-> FALSE, sends |-> FALSE,
          dedups |-> FALSE, absent |-> {}, missing |-> "null",
          answer |-> "json" ]
Write == [Read EXCEPT !.writes = TRUE]
Keyed == [Write EXCEPT !.offers = TRUE, !.sends = TRUE]

OrNull(shape, statuses)  == [shape EXCEPT !.absent = statuses]
Field(shape)             == [shape EXCEPT !.answer = "field"]
Void(shape)              == [shape EXCEPT !.answer = "none"]
TrueOrFalse(shape, statuses) ==
    [shape EXCEPT !.absent = statuses, !.missing = "false", !.answer = "true"]

Optional == OrNull(Read, {404})        \* a read of an unadvertised surface
Create   == [Keyed EXCEPT !.dedups = TRUE]

-----------------------------------------------------------------------------
(* The 2.x client.                                                         *)

Discovery2   == [capabilities |-> Read, openapi |-> Read]
Workflows2   == [get |-> Read]
RunCommands2 == [create |-> Create, cancel |-> Keyed, pause |-> Keyed,
                 resume |-> Keyed, bulkCancel |-> Keyed, fork |-> Keyed,
                 createAnnotation |-> Keyed, get |-> Read]
RunReads2    == [listAnnotations |-> Field(OrNull(Read, {404, 501})),
                 ancestry |-> Optional, diff |-> Optional,
                 evalSummary |-> Optional, getArtifact |-> Optional,
                 list |-> Optional, compensation |-> Optional,
                 effects |-> Optional]
RunPoll2     == [pollEvents |-> Read]
Host2        == [effectSeams |-> Read, emitTestEvent |-> Keyed,
                 uiPluginFrame |-> [Read EXCEPT !.answer = "text"],
                 dispatchUiPluginRequest |-> Write]
Agents2      == [list |-> Optional, get |-> Optional,
                 listDeployments |-> Optional, transitionDeployment |-> Keyed,
                 listRoster |-> Optional, getRosterEntry |-> Optional,
                 getOrgChart |-> Optional, getOrgChartDepartment |-> Optional]
Tools2       == [list |-> Optional, listCompact |-> Field(Optional),
                 get |-> Optional]
Interrupts2  == [resolveByRun |-> Keyed, inspectByToken |-> Read,
                 resolveByToken |-> Keyed]
Webhooks2    == [register |-> Keyed, unregister |-> Void(Write),
                 rotateSecret |-> Keyed, deadLetters |-> Read]
Prompts2     == [list |-> Read, get |-> Optional, render |-> Read,
                 create |-> Void(Keyed), update |-> Keyed,
                 delete |-> Void(Write)]
Audit2       == [verify |-> Read]
Content2     == [listPages |-> OrNull(Read, {501}),
                 getPage |-> OrNull(Read, {404, 501}), createPage |-> Write,
                 deletePage |-> Void(Write), putSection |-> Write,
                 getSettings |-> OrNull(Read, {501}), putSettings |-> Write]
Triggers2    == [create |-> Write, deadLetters |-> Read]
Proposals2   == [list |-> Read, submit |-> Keyed, get |-> Read,
                 revise |-> Write, archive |-> Write, apply |-> Keyed,
                 reject |-> Write]
Packs2       == [get |-> Read]
Connections2 == [list |-> Read, resolve |-> Read]

-----------------------------------------------------------------------------
(* The 1.x client.                                                         *)

Discovery1   == [capabilities |-> Read, openapi |-> Read]
Workflows1   == [get |-> Read]
RunCommands1 == [create |-> Create, get |-> Read, debugBundle |-> Optional,
                 cancel |-> Keyed, pause |-> Keyed, resume |-> Keyed,
                 bulkCancel |-> Keyed, fork |-> Keyed,
                 createAnnotation |-> Keyed]
RunReads1    == [listAnnotations |-> Field(OrNull(Read, {404, 501})),
                 ancestry |-> Optional, diff |-> Optional,
                 evalSummary |-> Optional, getArtifact |-> Optional,
                 pollEvents |-> Read]
Agents1      == [list |-> Optional, get |-> Optional,
                 listDeployments |-> Optional, transitionDeployment |-> Keyed,
                 listRoster |-> Optional, getRosterEntry |-> Optional,
                 getOrgChart |-> Optional, getOrgChartDepartment |-> Optional]
Tools1       == [list |-> Optional, listCompact |-> Field(Optional),
                 get |-> Optional]
(* `create` passes the key as a request option that #request never reads.  *)
UserAgents1  == [create |-> [Keyed EXCEPT !.sends = FALSE],
                 delete |-> TrueOrFalse(Write, {404}),
                 listAvailablePacks |-> Optional, installPack |-> Write]
Interrupts1  == [resolveByRun |-> Keyed, inspectByToken |-> Read,
                 resolveByToken |-> Keyed]
Webhooks1    == [register |-> Keyed, unregister |-> Void(Write),
                 rotateSecret |-> Keyed]
Prompts1     == [list |-> Read, get |-> Optional, render |-> Read,
                 create |-> Void(Keyed), update |-> Keyed,
                 delete |-> Void(Write)]
Audit1       == [verify |-> Read]
Content1     == [listPages |-> OrNull(Read, {501}),
                 getPage |-> OrNull(Read, {404, 501}), createPage |-> Write,
                 deletePage |-> Void(Write), putSection |-> Write,
                 getSettings |-> OrNull(Read, {501}), putSettings |-> Write]
Triggers1    == [create |-> Write, deadLetters |-> Read]
Workspace1   == [listFiles |-> Field(OrNull(Read, {501})),
                 getFile |-> OrNull(Read, {404, 501}), putFile |-> Keyed,
                 deleteFile |-> TrueOrFalse(Keyed, {404, 501})]

-----------------------------------------------------------------------------
ShapesOf(table) == {table[name] : name \in DOMAIN table}

Client2 ==
    UNION {ShapesOf(Discovery2), ShapesOf(Workflows2), ShapesOf(RunCommands2),
           ShapesOf(RunReads2), ShapesOf(RunPoll2), ShapesOf(Host2),
           ShapesOf(Agents2), ShapesOf(Tools2), ShapesOf(Interrupts2),
           ShapesOf(Webhooks2), ShapesOf(Prompts2), ShapesOf(Audit2),
           ShapesOf(Content2), ShapesOf(Triggers2), ShapesOf(Proposals2),
           ShapesOf(Packs2), ShapesOf(Connections2)}

Client1 ==
    UNION {ShapesOf(Discovery1), ShapesOf(Workflows1), ShapesOf(RunCommands1),
           ShapesOf(RunReads1), ShapesOf(Agents1), ShapesOf(Tools1),
           ShapesOf(UserAgents1), ShapesOf(Interrupts1), ShapesOf(Webhooks1),
           ShapesOf(Prompts1), ShapesOf(Audit1), ShapesOf(Content1),
           ShapesOf(Triggers1), ShapesOf(Workspace1)}

-----------------------------------------------------------------------------
(* What a program does with them (RestClient, Program).                    *)
CONSTANTS
    Operations,   \* the shapes a call of it may have
    MaxTries,     \* bound: how often it makes one call
    MaxFaults     \* bound: adverse moves of the network in a behaviour

ASSUME RestAssumption ==
    /\ Operations \subseteq Shape
    /\ \A shape \in Operations : shape.writes => shape.answer # "text"
    /\ MaxTries \in Nat
    /\ MaxFaults \in Nat

==============================================================================
