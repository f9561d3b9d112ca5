------------------------------ MODULE TypedEvents ------------------------------
(***************************************************************************)
(* What a program does with an event it was given: the type guards of the  *)
(* TypeScript packages, next to the payload schemas they mirror and the    *)
(* event types of the protocol.                                            *)
(*                                                                         *)
(* A payload is a record that gives each of its fields a type; a table     *)
(* gives a payload for each guard.  Fields that may be absent are left     *)
(* out: no guard asks for one.                                             *)
(***************************************************************************)
EXTENDS TLC

(* Two tables as one: @@, spelled out for the provers, which know TLC's    *)
(* operators by name only.                                                 *)
Joined(f, g) ==
    [x \in DOMAIN f \cup DOMAIN g |-> IF x \in DOMAIN f THEN f[x] ELSE g[x]]

(* The values of type `type` are values of type `wanted`; a literal is one *)
(* of a few strings.                                                       *)
IsA(type, wanted) ==
    \/ type = wanted \/ wanted = "any"
    \/ type = "natural" /\ wanted = "number"
    \/ type \in {"literal", "untrusted", "parallel"} /\ wanted = "string"

(* hasStringField, hasNumberField, Array.isArray, `in`, ===: the payload   *)
(* has the field, with a value of that type.                               *)
Satisfies(payload, fields) ==
    \A f \in DOMAIN fields :
        f \in DOMAIN payload /\ IsA(payload[f], fields[f])

-----------------------------------------------------------------------------
(* The guards: the fields each of them asks for ...                        *)

(* Mutant: a handoff told by one agent, like its sibling events.           *)
HandoffFieldsSingle == [agentId |-> "string"]

(* "NOT a single `agentId`".                                               *)
HandoffFields == [fromAgentId |-> "string", toAgentId |-> "string"]

AgentGuards ==
    [isAgentReasoned       |-> [agentId |-> "string", reasoning |-> "string"],
     isAgentReasoningDelta |-> [agentId |-> "string", delta |-> "string",
                                sequence |-> "natural"],
     isAgentToolCalled     |-> [agentId |-> "string", toolName |-> "string",
                                callId |-> "string"],
     isAgentToolReturned   |-> [agentId |-> "string", toolName |-> "string",
                                callId |-> "string"],
     isAgentHandoff        |-> HandoffFields,
     isAgentDecided        |-> [agentId |-> "string", decision |-> "any"],
     isMemoryWritten       |-> [memoryRef |-> "string", memoryId |-> "string"],
     isOutputChunk         |-> [nodeId |-> "string", runId |-> "string",
                                chunk |-> "string", isLast |-> "boolean"]]

MediaGuards ==
    [isVoiceSpeechStart       |-> [atMs |-> "number"],
     isVoiceTranscript        |-> [text |-> "string", isFinal |-> "boolean",
                                   atMs |-> "number",
                                   contentTrust |-> "untrusted"],
     isVoiceEndpointCandidate |-> [atMs |-> "number"],
     isVoiceTurnCommit        |-> [atMs |-> "number", finalText |-> "string"],
     isVoiceSynthesisChunk    |-> [seq |-> "number", mimeType |-> "string"],
     isVoiceBargeIn           |-> [atMs |-> "number"],
     isVoiceCancelled         |-> [atMs |-> "number"],
     isChannelPresence        |-> [conversationId |-> "string",
                                   present |-> "array"],
     isDispatchFanOut         |-> [fanOutPolicy |-> "parallel",
                                   childCount |-> "number"],
     isDispatchJoin           |-> [joinOutcome |-> "string",
                                   mergeOrder |-> "array"],
     isContextSummarized      |-> [summaryRef |-> "string",
                                   iteration |-> "number"]]

(* ... and the event types it answers for, the same in both packages.      *)
AgentDiscriminators ==
    [isAgentReasoned       |-> {"agent.reasoned"},
     isAgentReasoningDelta |-> {"agent.reasoning.delta"},
     isAgentToolCalled     |-> {"agent.toolCalled"},
     isAgentToolReturned   |-> {"agent.toolReturned"},
     isAgentHandoff        |-> {"agent.handoff"},
     isAgentDecided        |-> {"agent.decided"},
     isMemoryWritten       |-> {"memory.written"},
     isOutputChunk         |-> {"output.chunk", "ai.message.chunk"}]

MediaDiscriminators ==
    [isVoiceSpeechStart       |-> {"voice.speech_start"},
     isVoiceTranscript        |-> {"voice.transcript"},
     isVoiceEndpointCandidate |-> {"voice.endpoint_candidate"},
     isVoiceTurnCommit        |-> {"voice.turn_commit"},
     isVoiceSynthesisChunk    |-> {"voice.synthesis_chunk"},
     isVoiceBargeIn           |-> {"voice.barge_in"},
     isVoiceCancelled         |-> {"voice.cancelled"},
     isChannelPresence        |-> {"channel.presence"},
     isDispatchFanOut         |-> {"core.dispatch.fanOut"},
     isDispatchJoin           |-> {"core.dispatch.join"},
     isContextSummarized      |-> {"context.summarized"}]

Guards         == Joined(AgentGuards, MediaGuards)
Discriminators == Joined(AgentDiscriminators, MediaDiscriminators)
GuardNames     == DOMAIN Guards

(* The guard on an event.                                                  *)
Narrows(guard, event) ==
    /\ event.type \in Discriminators[guard]
    /\ Satisfies(event.payload, Guards[guard])

-----------------------------------------------------------------------------
(* What a payload of the event must have, by the protocol's schema of it.  *)
(* (The packages declare every number of these as `number`, which is wider *)
(* than the schema's integers from 0, and than the guard of the delta.)    *)

AgentSchemas ==
    [isAgentReasoned       |-> [agentId |-> "string", reasoning |-> "string"],
     isAgentReasoningDelta |-> [agentId |-> "string", delta |-> "string",
                                sequence |-> "natural"],
     isAgentToolCalled     |-> [agentId |-> "string", toolName |-> "string",
                                callId |-> "string"],
     isAgentToolReturned   |-> [agentId |-> "string", toolName |-> "string",
                                callId |-> "string"],
     isAgentHandoff        |-> [fromAgentId |-> "string",
                                toAgentId |-> "string"],
     isAgentDecided        |-> [agentId |-> "string", decision |-> "any"],
     isMemoryWritten       |-> [memoryRef |-> "string", memoryId |-> "string"],
     isOutputChunk         |-> [nodeId |-> "string", runId |-> "string",
                                chunk |-> "string", isLast |-> "boolean"]]

MediaSchemas ==
    [isVoiceSpeechStart       |-> [atMs |-> "natural"],
     isVoiceTranscript        |-> [text |-> "string", isFinal |-> "boolean",
                                   atMs |-> "natural",
                                   contentTrust |-> "untrusted"],
     isVoiceEndpointCandidate |-> [atMs |-> "natural"],
     isVoiceTurnCommit        |-> [atMs |-> "natural", finalText |-> "string"],
     isVoiceSynthesisChunk    |-> [seq |-> "natural", mimeType |-> "string"],
     isVoiceBargeIn           |-> [atMs |-> "natural"],
     isVoiceCancelled         |-> [atMs |-> "natural"],
     isChannelPresence        |-> [conversationId |-> "string",
                                   present |-> "array"],
     isDispatchFanOut         |-> [fanOutPolicy |-> "parallel",
                                   childCount |-> "natural"],
     isDispatchJoin           |-> [joinOutcome |-> "literal",
                                   completedCount |-> "natural",
                                   failedCount |-> "natural",
                                   mergeOrder |-> "array"],
     isContextSummarized      |-> [iteration |-> "natural",
                                   replacedTurns |-> "array",
                                   summaryRef |-> "string",
                                   tokenCounter |-> "literal",
                                   tokensBefore |-> "natural",
                                   tokensAfter |-> "natural"]]

PayloadSchemas == Joined(AgentSchemas, MediaSchemas)

-----------------------------------------------------------------------------
(* The event types of the protocol's second major, and what is now called  *)
(* differently there.                                                      *)

KNOWN_RUN_EVENT_TYPES ==
    {"agent.decided", "agent.handoff", "agent.invocation-completed",
     "agent.invocation-started", "agent.memory-consolidated",
     "agent.prompt-resolved", "agent.reasoned", "agent.reasoning-delta",
     "agent.tool-called", "agent.tool-returned", "agent.verified",
     "approval.granted", "approval.overridden", "approval.received",
     "approval.rejected", "approval.requested", "artifact.created",
     "authorization.decided", "budget.consumed", "budget.exhausted",
     "budget.reserved", "budget.threshold-crossed", "cap.breached",
     "channel.presence", "channel.written", "clarification.requested",
     "clarification.resolved", "commitment.fired", "compensation.completed",
     "compensation.failed", "compensation.manual-intervention-required",
     "compensation.paused", "compensation.requested", "compensation.started",
     "connector.auth-expired", "connector.authorized", "context.summarized",
     "conversation.closed", "conversation.exchanged", "conversation.opened",
     "deployment.canary-adjusted", "deployment.promoted",
     "deployment.rolled-back", "deployment.state-changed",
     "dispatch.fanned-out", "dispatch.joined", "egress.decided",
     "envelope.nl-to-format-engaged", "envelope.recovery-applied",
     "envelope.refusal", "envelope.retry-attempted",
     "envelope.retry-exhausted", "envelope.truncated", "eval.completed",
     "eval.scored", "eval.started", "goal.closed", "goal.evaluated",
     "import.applied", "interrupt.requested", "interrupt.resolved",
     "lease.acquired", "lease.handed-off", "lease.lost", "lease.renewed",
     "log.appended", "memory.compacted", "memory.written",
     "model.capability-insufficient", "model.capability-substituted",
     "negotiation.decided", "node.cancelled", "node.completed",
     "node.dispatched", "node.failed", "node.resumed", "node.retried",
     "node.skipped", "node.started", "node.suspend-failed", "node.suspended",
     "orchestrator.decided", "output.chunk", "prompt.composed",
     "proposal.activated", "proposal.created", "provider.usage",
     "replay.diverged", "replay.diverged-at-refusal", "roster.run-initiated",
     "run.cancelled", "run.completed", "run.dead-lettered", "run.failed",
     "run.paused", "run.restored-from-snapshot", "run.resume-started",
     "run.resumed", "run.started", "tool.session-closed",
     "tool.session-opened", "trigger.delivery-attempted",
     "trigger.subscription-state-changed", "variable.changed",
     "version.pinned", "voice.barge-in", "voice.cancelled",
     "voice.endpoint-candidate", "voice.speech-start", "voice.synthesis-chunk",
     "voice.transcript", "voice.turn-commit",
     "workflow-chain.confidence-escalated", "workflow-chain.event",
     "workflow.loopback-limit", "workflow.restored", "workflow.stalled",
     "workspace.updated"}

(* narrowRunEvent: the 2.x package types the payload of these.             *)
isKnownRunEventType(type) == type \in KNOWN_RUN_EVENT_TYPES

Renamed ==
    ("agent.reasoning.delta" :> "agent.reasoning-delta") @@
    ("agent.toolCalled" :> "agent.tool-called") @@
    ("agent.toolReturned" :> "agent.tool-returned") @@
    ("core.dispatch.fanOut" :> "dispatch.fanned-out") @@
    ("core.dispatch.join" :> "dispatch.joined") @@
    ("voice.speech_start" :> "voice.speech-start") @@
    ("voice.endpoint_candidate" :> "voice.endpoint-candidate") @@
    ("voice.turn_commit" :> "voice.turn-commit") @@
    ("voice.synthesis_chunk" :> "voice.synthesis-chunk") @@
    ("voice.barge_in" :> "voice.barge-in")

(* What a host of that major calls an event of the first.                  *)
TypeOn(major, type) ==
    IF major = 2 /\ type \in DOMAIN Renamed THEN Renamed[type] ELSE type

-----------------------------------------------------------------------------
(* No event whose payload is valid by its schema is taken for malformed    *)
(* and dropped by its guard.                                               *)
GuardsAcceptTheirSchema ==
    \A guard \in GuardNames : \A type \in Discriminators[guard] :
        Narrows(guard, [type |-> type, payload |-> PayloadSchemas[guard]])

=============================================================================
