--------------------------- MODULE ComplianceExport ---------------------------
(* GET /compliance/evidence over the audit trail of AuditLog: the handler of a *)
(* process reads the policy file, then the trail to its end, and answers with  *)
(* the records of the event types that a section of the package lists.         *)
(*                                                                            *)
(* The handler contains no await, so the process makes no record meanwhile;   *)
(* others do.  A caller who is not an admin is refused, and an empty          *)
(* compliance_secret_key or a policy file that does not load raises, before   *)
(* the trail is opened: these change nothing and are stuttering steps.        *)
EXTENDS AuditLog

CONSTANT Reported   \* the records whose event types the sections list

ASSUME ReportedAssumption == Reported \subseteq Nat

VARIABLES exporting,  \* exporting[p]: whether p has begun an export, and what was
                      \* acknowledged then
          package     \* the last package answered

exportVars == <<exporting, package>>

NotExporting == [on |-> FALSE, owed |-> {}]
NoPackage == [given |-> FALSE, records |-> {}, owed |-> {}]

----------------------------------------------------------------------------
(* Mutated forms of definitions below, used to check that the properties are  *)
(* sensitive to the code they are about.                                      *)

\* A line that is not JSON is skipped.
SkipsBadLines == TRUE

----------------------------------------------------------------------------

\* json.loads succeeds on every line up to the end of the file.
TrailLoads == Readable

ExportInit == /\ Init
              /\ exporting = [p \in Process |-> NotExporting]
              /\ package = NoPackage

\* ExportComplianceEvidenceUseCase.execute, up to the opening of the trail.
BeginExport(p) ==
    /\ p \in deployed
    /\ pending[p] = NoRecord
    /\ ~exporting[p].on
    /\ exporting' = [exporting EXCEPT ![p] = [on |-> TRUE, owed |-> acked]]
    /\ UNCHANGED <<vars, package>>

\* The records of the trail, by event type.
ListedRecords == {lines[j].id : j \in DOMAIN lines} \cap Reported

\* The trail is read to its end and the package is answered.
FinishExport(p) ==
    /\ exporting[p].on
    /\ TrailLoads
    /\ package' = [given |-> TRUE, records |-> ListedRecords, owed |-> exporting[p].owed]
    /\ exporting' = [exporting EXCEPT ![p] = NotExporting]
    /\ UNCHANGED vars

\* A line does not load (500), or the process dies.
ExportFails(p) == /\ exporting[p].on
                  /\ exporting' = [exporting EXCEPT ![p] = NotExporting]
                  /\ UNCHANGED <<vars, package>>

\* A process that exports makes no record.
Writes(p) == /\ ~exporting[p].on
             /\ \/ LogPlain(p) \/ LogPlainFails(p)
                \/ ReadLastHash(p) \/ AppendRecord(p) \/ AppendFails(p)
                \/ Crash(p)

ExportNext == \/ Tick /\ UNCHANGED exportVars
              \/ \E p \in Process : \/ Writes(p) /\ UNCHANGED exportVars
                                    \/ BeginExport(p) \/ FinishExport(p) \/ ExportFails(p)

ExportSpec == ExportInit /\ [][ExportNext]_<<vars, exportVars>>

----------------------------------------------------------------------------
(* Properties                                                                 *)

\* Every variable has its type.
ExportTypeOK == /\ TypeOK
                /\ exporting \in [Process -> [on : BOOLEAN, owed : SUBSET Nat]]
                /\ package \in [given : BOOLEAN, records : SUBSET Nat, owed : SUBSET Nat]

\* However many processes write and whatever writes were cut short, an evidence
\* package that is answered lists every record of its event types that was
\* acknowledged before the export began: a record that was lost in a line cut
\* short keeps all packages from being made (execute).
PackageComplete == package.given => package.owed \cap Reported \subseteq package.records

=============================================================================
