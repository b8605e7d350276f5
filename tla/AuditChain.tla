----------------------------- MODULE AuditChain -----------------------------
(***************************************************************************)
(* The chain of audit events (audit/writer.py, audit/verifier.py).  append *)
(* is one BEGIN IMMEDIATE transaction, so one action, whichever process or *)
(* thread takes it.  A hash stands for what it is computed from: the       *)
(* sequence of all contents up to the row, so two are equal only when what *)
(* they cover is (SHA-256 is taken to be free of collisions).  Damage is   *)
(* what the chain is there to show: a field changed, a row lost.           *)
(***************************************************************************)
EXTENDS Naturals, Sequences, FiniteSets, SequencesExt, FiniteSetsExt

CONSTANTS
  Contents,    \* what the fields outside the chain may say
  MaxAppends,  \* bound: rows ever appended
  MaxDamages   \* bound: damages
ASSUME AuditAssumption == MaxAppends \in Nat /\ MaxDamages \in Nat

VARIABLES
  audit,    \* table audit_events in the order of rowid
  written,  \* history: by row of audit, as it was appended and after which row
  appends,  \* how many rows were ever appended
  damages   \* how many damages there have been

auditVars == <<audit, written, appends, damages>>

NoHash == <<>>

\* What a damaged hash may be.
Hashes == BoundedSeq(Contents, MaxAppends)

\* canonical_hash of a row's payload, which includes previous_hash.
CanonicalHash(content, previous) == Append(previous, content)

\* The row appended after a row with the hash previous.
RowAfter(id, content, previous) ==
  [ id |-> id, content |-> content, previous |-> previous,
    hash |-> CanonicalHash(content, previous) ]

HashAt(i) == IF i = 0 THEN NoHash ELSE audit[i].hash
IdAt(i) == IF i = 0 THEN 0 ELSE audit[i].id

\* The transaction with the last row it read being row i.
AppendAfter(i, content) ==
  LET row == RowAfter(appends + 1, content, HashAt(i)) IN
  /\ appends < MaxAppends
  /\ appends' = appends + 1
  /\ audit' = Append(audit, row)
  /\ written' = Append(written, [row |-> row, after |-> IdAt(Len(audit))])
  /\ UNCHANGED damages

\* Mutant: the last hash is read before the transaction begins.
AppendStale(content) == \E i \in 0..Len(audit) : AppendAfter(i, content)

\* AuditWriter.append
AppendEvent(content) == AppendAfter(Len(audit), content)

\* One field of row i is not what it was.
ChangeField(i) ==
  /\ damages < MaxDamages
  /\ damages' = damages + 1
  /\ audit' \in { [audit EXCEPT ![i].content = c] : c \in Contents }
                \cup { [audit EXCEPT ![i].previous = h] : h \in Hashes }
                \cup { [audit EXCEPT ![i].hash = h] : h \in Hashes }
  /\ audit' # audit
  /\ UNCHANGED <<written, appends>>

\* Row i is gone.
LoseRow(i) ==
  /\ damages < MaxDamages
  /\ damages' = damages + 1
  /\ audit' = RemoveAt(audit, i)
  /\ written' = RemoveAt(written, i)
  /\ UNCHANGED appends

AuditInit == audit = <<>> /\ written = <<>> /\ appends = 0 /\ damages = 0

AuditNext ==
  \/ \E content \in Contents : AppendEvent(content)
  \/ \E i \in DOMAIN audit : ChangeField(i) \/ LoseRow(i)

AuditSpec == AuditInit /\ [][AuditNext]_auditVars

-----------------------------------------------------------------------------
\* The row continues the chain from the row before it.
Continues(i) ==
  /\ audit[i].previous = HashAt(i - 1)
  /\ audit[i].hash = CanonicalHash(audit[i].content, audit[i].previous)

\* The first row of which bad holds; 0 when there is none.
FirstRow(bad(_)) ==
  LET rows == {i \in DOMAIN audit : bad(i)} IN IF rows = {} THEN 0 ELSE Min(rows)

\* verify_audit_chain: the index of the row it stops at, or 0 for a valid chain.
VerifyAuditChain == FirstRow(LAMBDA i : ~Continues(i))

\* The types of the table and its history.
AuditTypeOK ==
  /\ audit \in Seq([id : 1..MaxAppends, content : Contents,
                    previous : Seq(Contents), hash : Seq(Contents)])
  /\ Len(written) = Len(audit)
  /\ appends \in 0..MaxAppends /\ damages \in 0..MaxDamages

\* Row i is as it was appended, and after the row it was appended after.
Undamaged(i) == audit[i] = written[i].row /\ IdAt(i - 1) = written[i].after

\* The verifier names the first row that a damage has hit, or that has lost the
\* row before it, and finds nothing else: every appended row continues the chain,
\* also one appended after the damage.  Only lost rows at the end go unnoticed,
\* with those appended since (writer.py:65-108, verifier.py:17-34).
DamageIsLocated == VerifyAuditChain = FirstRow(LAMBDA i : ~Undamaged(i))
=============================================================================
