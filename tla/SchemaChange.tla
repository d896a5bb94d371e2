----------------------------- MODULE SchemaChange -----------------------------
(***************************************************************************)
(* How the schema of a model changes on one node of a cluster: validation  *)
(* of the binary's schema against the stored one at the start              *)
(* (app/mod.rs, validate_schemas), proposals, votes and approvals of       *)
(* changes (app/schema_handlers.rs with schema/sync.rs), the lock of       *)
(* schema migrations and revalidation.                                     *)
(*                                                                         *)
(* One model; a schema is a member of a set, and how a change of it is     *)
(* classified (the worst of its field changes) is chosen freely.  The      *)
(* default policy; a manual approval without a timeout.  The handlers      *)
(* change the state under one lock, each is one step, except revalidation, *)
(* of which one is at work at a time.  Not here: the rollback handler,     *)
(* which looks up ids of the history among the pending changes, where they *)
(* never are, and answers 404 or 422; a lock file that cannot be written   *)
(* (that is only logged).                                                  *)
(***************************************************************************)
EXTENDS Integers, Sequences, FiniteSets

CONSTANTS
    Schema,             \* schemas of the model
    NoSchema,           \* no schema known, no spec file
    Unreadable,         \* a spec file that does not parse: a save was cut off
    Voter,              \* ids of the nodes of the cluster
    Approver,           \* users who approve changes
    MinApprovers,       \* approvals a breaking change needs (1)
    MaxChanges,         \* bound: changes proposed at a time
    MaxDeploys,         \* bound: restarts with a new or the same binary
    MaxSchemaOps        \* bound: proposals, lock and unlock requests

ASSUME ClusterAssumption ==
    /\ IsFiniteSet(Voter) /\ NoSchema \notin Schema /\ Unreadable \notin Schema
    /\ MaxChanges \in Nat \ {0} /\ MaxDeploys \in Nat /\ MaxSchemaOps \in Nat

Migration == {"Additive", "Versioned", "Breaking"}

\* SchemaVotePolicy::default and strategy_for.
Strategy(m) == CASE m = "Additive" -> "AutoAccept"
                 [] m = "Versioned" -> "Consensus"
                 [] m = "Breaking" -> "ManualApproval"

SchemaEdit == [spec : Schema, strategy : {"Consensus", "ManualApproval"},
           status : {"Pending", "Applied", "Rejected"}, byAdmin : BOOLEAN,
           approvals : SUBSET Voter, rejections : SUBSET Voter, humans : SUBSET Approver]

VARIABLES
    mode,               \* schema_migration_mode; "Strict" would refuse to start instead
    binarySchema,       \* what the extractor of the running binary says
    schemaNow,          \* SchemaSyncState.schemas
    storedSchema,       \* the spec file; NoSchema or Unreadable if there is no such spec
    changes,            \* pending_changes, decided ones too
    lockState,          \* lock_status; "expiring": unlocked for some time
    revalidating,       \* "none"; "begun": it found migrations unlocked; "saves": read the file
    accepted,           \* history: schemas accepted by the policy, a vote or a person, or
                        \* taken for the first where no spec could be read
    deploys, schemaOps

schemaVars == <<mode, binarySchema, schemaNow, storedSchema, changes, lockState, revalidating,
                accepted, deploys, schemaOps>>

\* The first start saves the schema of the binary, or fails to.
SchemaInit ==
    /\ mode \in {"Warn", "Auto"}
    /\ binarySchema \in Schema
    /\ schemaNow = binarySchema /\ accepted = {binarySchema}
    /\ storedSchema \in {binarySchema, NoSchema, Unreadable}
    /\ changes = <<>>
    /\ lockState = "open" /\ revalidating = "none"
    /\ deploys = 0 /\ schemaOps = 0

\* save_schema_spec(s): the file is opened, which may fail, and written, which may
\* fail or be cut off by a crash.
Saved(s) == {s, storedSchema, Unreadable}

IsLocked == lockState \in {"locked", "expired"}

Pending(s, strategy) ==
    [spec |-> s, strategy |-> strategy, status |-> "Pending", byAdmin |-> FALSE,
     approvals |-> {}, rejections |-> {}, humans |-> {}]

IsPending(c) == c \in DOMAIN changes /\ changes[c].status = "Pending"

\* As a bug would have it: half of the nodes.
HalfOfThem == Cardinality(Voter) \div 2

Majority == Cardinality(Voter) \div 2 + 1

\* has_enough_approvals and should_reject.
HasEnoughApprovals(ch) ==
    IF ch.strategy = "Consensus" THEN Cardinality(ch.approvals) >= Majority
    ELSE Cardinality(ch.humans) >= MinApprovers
ShouldReject(ch) == ch.strategy = "Consensus" /\ Cardinality(ch.rejections) >= Majority

----------------------------------------------------------------------------
(* Requests of other nodes. *)

\* POST /_raft/schema/propose, whatever the lock says.
Propose(s, m) ==
    /\ schemaOps < MaxSchemaOps /\ schemaOps' = schemaOps + 1
    /\ IF Strategy(m) = "AutoAccept"
       THEN /\ schemaNow' = s
            /\ accepted' = accepted \cup {s}
            /\ UNCHANGED changes
       ELSE /\ Len(changes) < MaxChanges
            /\ changes' = Append(changes, Pending(s, Strategy(m)))
            /\ UNCHANGED <<schemaNow, accepted>>
    /\ UNCHANGED <<mode, binarySchema, storedSchema, lockState, revalidating, deploys>>

\* A proposal that is sent again, with the id it had, replaces its change, votes
\* and decision included.
ProposeAgain(c) ==
    /\ schemaOps < MaxSchemaOps /\ schemaOps' = schemaOps + 1
    /\ changes' = [changes EXCEPT ![c] = Pending(@.spec, @.strategy)]
    /\ UNCHANGED <<mode, binarySchema, schemaNow, storedSchema, lockState, revalidating, accepted,
                   deploys>>

\* POST /_raft/schema/vote: 409 unless the change is pending.  A node may vote
\* both ways; its second vote of a kind is ignored.
VoteOn(c, n, approve) ==
    /\ IsPending(c)
    /\ LET voted == IF approve THEN [changes[c] EXCEPT !.approvals = @ \cup {n}]
                    ELSE [changes[c] EXCEPT !.rejections = @ \cup {n}]
           status == CASE HasEnoughApprovals(voted) -> "Applied"
                       [] ShouldReject(voted) /\ ~HasEnoughApprovals(voted) -> "Rejected"
                       [] OTHER -> "Pending"
       IN /\ changes' = [changes EXCEPT ![c] = [voted EXCEPT !.status = status]]
          /\ IF status = "Applied"
             THEN schemaNow' = voted.spec /\ accepted' = accepted \cup {voted.spec}
             ELSE UNCHANGED <<schemaNow, accepted>>
    /\ UNCHANGED <<mode, binarySchema, storedSchema, lockState, revalidating, deploys, schemaOps>>

----------------------------------------------------------------------------
(* Requests of administrators. *)

\* POST /_admin/schema/approve: applied and saved once there are enough; that the
\* file cannot be written is logged only.
Approve(c, u) ==
    /\ IsPending(c)
    /\ LET approved == [changes[c] EXCEPT !.humans = @ \cup {u}] IN
       IF HasEnoughApprovals(approved)
       THEN /\ changes' = [changes EXCEPT ![c] = [approved EXCEPT !.status = "Applied"]]
            /\ schemaNow' = approved.spec
            /\ storedSchema' \in Saved(approved.spec)
            /\ accepted' = accepted \cup {approved.spec}
       ELSE /\ changes' = [changes EXCEPT ![c] = approved]
            /\ UNCHANGED <<schemaNow, storedSchema, accepted>>
    /\ UNCHANGED <<mode, binarySchema, lockState, revalidating, deploys, schemaOps>>

\* POST /_admin/schema/reject.
RejectByAdmin(c) ==
    /\ IsPending(c)
    /\ changes' = [changes EXCEPT ![c].status = "Rejected", ![c].byAdmin = TRUE]
    /\ UNCHANGED <<mode, binarySchema, schemaNow, storedSchema, lockState, revalidating, accepted,
                   deploys, schemaOps>>

\* POST /_admin/schema/lock and unlock, the latter for ever or for some time.
SetLock(l) ==
    /\ l \in {"locked", "open", "expiring"}
    /\ schemaOps < MaxSchemaOps /\ schemaOps' = schemaOps + 1
    /\ lockState' = l
    /\ UNCHANGED <<mode, binarySchema, schemaNow, storedSchema, changes, revalidating, accepted,
                   deploys>>

UnlockExpires ==
    /\ lockState = "expiring"
    /\ lockState' = "expired"
    /\ UNCHANGED <<mode, binarySchema, schemaNow, storedSchema, changes, revalidating, accepted,
                   deploys, schemaOps>>

\* POST /_admin/schema/revalidate: refused while migrations are locked.
BeginRevalidate ==
    /\ ~IsLocked /\ revalidating = "none"
    /\ revalidating' = "begun"
    /\ UNCHANGED <<mode, binarySchema, schemaNow, storedSchema, changes, lockState, accepted,
                   deploys, schemaOps>>

\* The stored spec is read.  If there is none, the binary's is to be saved, as the
\* first; if it differs, only in Auto mode, in a cluster too, whatever became of its
\* change and of the lock; one that cannot be read ends the request.
ReadSpec ==
    /\ revalidating = "begun"
    /\ LET first == storedSchema = NoSchema
           differs == storedSchema \in Schema \ {binarySchema}
       IN /\ revalidating' = IF first \/ (differs /\ mode = "Auto") THEN "saves" ELSE "none"
          /\ accepted' = IF first THEN accepted \cup {binarySchema} ELSE accepted
    /\ UNCHANGED <<mode, binarySchema, schemaNow, storedSchema, changes, lockState, deploys,
                   schemaOps>>

Revalidate ==
    /\ revalidating = "saves"
    /\ revalidating' = "none"
    /\ storedSchema' \in Saved(binarySchema)
    /\ UNCHANGED <<mode, binarySchema, schemaNow, changes, lockState, accepted, deploys,
                   schemaOps>>

----------------------------------------------------------------------------
(* A restart with binary b: the state is gone but for the files (spec, lock). *)

\* As a bug would have it: a pending schema is in force and stored already.
DeployAtOnce(b, m) ==
    /\ deploys < MaxDeploys /\ deploys' = deploys + 1
    /\ binarySchema' = b /\ schemaNow' = b /\ changes' = <<>>
    /\ storedSchema' = b
    /\ accepted' = IF Strategy(m) = "AutoAccept" THEN accepted \cup {b} ELSE accepted
    /\ revalidating' = "none"
    /\ UNCHANGED <<mode, lockState, schemaOps>>

\* No spec that can be read counts as a first run, whatever the mode and the lock.
Deploy(b, m) ==
    /\ deploys < MaxDeploys /\ deploys' = deploys + 1
    /\ binarySchema' = b
    /\ \/ /\ storedSchema \notin Schema                  \* first run
          /\ schemaNow' = b /\ changes' = <<>>
          /\ storedSchema' \in Saved(b)
          /\ accepted' = accepted \cup {b}
       \/ /\ storedSchema = b                           \* unchanged
          /\ schemaNow' = b /\ changes' = <<>>
          /\ UNCHANGED <<storedSchema, accepted>>
       \/ /\ storedSchema \in Schema \ {b} /\ IsLocked   \* blocked
          /\ schemaNow' = NoSchema /\ changes' = <<>>
          /\ UNCHANGED <<storedSchema, accepted>>
       \/ /\ storedSchema \in Schema \ {b} /\ ~IsLocked /\ Strategy(m) = "AutoAccept"
          /\ schemaNow' = b /\ changes' = <<>>
          /\ storedSchema' \in Saved(b)
          /\ accepted' = accepted \cup {b}
       \/ /\ storedSchema \in Schema \ {b} /\ ~IsLocked /\ Strategy(m) # "AutoAccept"
          /\ schemaNow' = NoSchema /\ changes' = <<Pending(b, Strategy(m))>>
          /\ UNCHANGED <<storedSchema, accepted>>
    /\ revalidating' = "none"
    /\ UNCHANGED <<mode, lockState, schemaOps>>

SchemaNext ==
    \/ \E s \in Schema, m \in Migration : Propose(s, m) \/ Deploy(s, m)
    \/ \E c \in DOMAIN changes :
         \/ ProposeAgain(c)
         \/ \E n \in Voter, approve \in BOOLEAN : VoteOn(c, n, approve)
         \/ \E u \in Approver : Approve(c, u)
         \/ RejectByAdmin(c)
    \/ \E l \in {"locked", "open", "expiring"} : SetLock(l)
    \/ UnlockExpires
    \/ BeginRevalidate \/ ReadSpec \/ Revalidate

SchemaSpec == SchemaInit /\ [][SchemaNext]_schemaVars

----------------------------------------------------------------------------
(* Properties. *)

SchemaTypeOK ==
    /\ mode \in {"Warn", "Auto"}
    /\ binarySchema \in Schema /\ storedSchema \in Schema \cup {NoSchema, Unreadable}
    /\ schemaNow \in Schema \cup {NoSchema}
    /\ changes \in Seq(SchemaEdit) /\ Len(changes) <= MaxChanges
    /\ lockState \in {"locked", "open", "expiring", "expired"}
    /\ revalidating \in {"none", "begun", "saves"}
    /\ accepted \in SUBSET Schema
    /\ deploys \in 0..MaxDeploys /\ schemaOps \in 0..MaxSchemaOps

\* A change put to the vote is applied by a majority of the nodes and rejected by
\* a majority or by an administrator, and never has both majorities, although
\* nodes may vote both ways and votes go on arriving after the decision.
MajorityDecides ==
    \A c \in DOMAIN changes :
        LET ch == changes[c]
            approves == Cardinality(ch.approvals) * 2 > Cardinality(Voter)
            rejects == Cardinality(ch.rejections) * 2 > Cardinality(Voter)
        IN ch.strategy = "Consensus" =>
             /\ ch.status = "Applied" <=> approves
             /\ ch.status = "Rejected" <=> rejects \/ ch.byAdmin
             /\ ~(approves /\ rejects)

\* No schema is in force or stored that neither the policy nor a vote nor a
\* person accepted, across restarts with any binary, unless the node took it for
\* the first one because it found no spec it could read.  (In Auto mode,
\* revalidation stores what the binary brings.)
OnlyAccepted ==
    mode = "Warn" => /\ schemaNow \in accepted \cup {NoSchema}
                     /\ storedSchema \in accepted \cup {NoSchema, Unreadable}

\* "When locked, ALL schema changes are rejected until unlocked."
\* (app/schema_handlers.rs:1051)  What the code does: proposals of the policy's
\* AutoAccept kind, votes and approvals do not look at the lock, and they and a
\* revalidation that began before change the schema in force or the stored one.
LockRejectsAll ==
    [][IsLocked /\ deploys' = deploys => UNCHANGED <<schemaNow, storedSchema>>]_schemaVars
=============================================================================
