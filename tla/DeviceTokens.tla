---------------------------- MODULE DeviceTokens ----------------------------
(***************************************************************************)
(* The per-laptop credentials of one device of one customer:               *)
(* kb/internal_devices.py over the device helpers of                       *)
(* engine/shared/tokens.py.  A pairing is a hash, numbered in the order of *)
(* registration; the table's key is (customer, source, device), so the     *)
(* device may have a row per source.                                       *)
(***************************************************************************)
EXTENDS Naturals, FiniteSets

CONSTANTS
    DvSources,   \* "claude_code" and the other sources of a device
    DvPairings   \* bound: registrations

ASSUME DvAssumption == "none" \notin DvSources /\ DvPairings \in Nat

VARIABLES
    dvHash,      \* source -> hash of its row, 0 when there is none
    dvStatus,    \* source -> "none" | "active" | "revoked"
    dvMapped,    \* sources the device is mapped under
    dvPaired,    \* registrations so far
    dvSaving,    \* the source a registration has saved and not yet mapped
    dvSeen,      \* verify-token between SELECT and UPDATE: [hash, source, want]
    dvAnswer,    \* the last answer: [to, ok, hash]
    dvRevoked    \* history: revoked and not registered since

dvVars == <<dvHash, dvStatus, dvMapped, dvPaired, dvSaving, dvSeen, dvAnswer, dvRevoked>>

DvDefault == "claude_code"
DvNone == [hash |-> 0, source |-> "none", want |-> "none"]
DvSay(to, ok, hash) == dvAnswer' = [to |-> to, ok |-> ok, hash |-> hash]
DvRows == {s \in DvSources : dvStatus[s] # "none"}
DvActive == {s \in DvSources : dvStatus[s] = "active"}

DvInit ==
    /\ dvHash = [s \in DvSources |-> 0]
    /\ dvStatus = [s \in DvSources |-> "none"]
    /\ dvMapped = {} /\ dvPaired = 0 /\ dvSaving = "none"
    /\ dvSeen = DvNone
    /\ dvAnswer = [to |-> "none", ok |-> TRUE, hash |-> 0]
    /\ dvRevoked = FALSE

\* register_device: save_device_token makes the row of (source, device), or
\* gives it the new hash and makes it active again ...
DvRegister(s) ==
    /\ dvPaired < DvPairings /\ dvSaving = "none"
    /\ dvPaired' = dvPaired + 1
    /\ dvHash' = [dvHash EXCEPT ![s] = dvPaired + 1]
    /\ dvStatus' = [dvStatus EXCEPT ![s] = "active"]
    /\ dvSaving' = s
    /\ dvRevoked' = FALSE
    /\ UNCHANGED <<dvMapped, dvSeen, dvAnswer>>

\* ... and record_mapping maps the device under that source.
DvMap ==
    /\ dvSaving # "none"
    /\ dvMapped' = dvMapped \cup {dvSaving}
    /\ dvSaving' = "none"
    /\ DvSay("register", TRUE, 0)
    /\ UNCHANGED <<dvHash, dvStatus, dvPaired, dvSeen, dvRevoked>>

\* verify_device_token: a default row that a webhook of another source uses is
\* promoted.
DvPromotes(s, want) == s = DvDefault /\ want \notin {"none", DvDefault}

\* The SELECT by hash and the answers that need no write.
DvVerify(h, want) ==
    /\ dvSeen = DvNone
    /\ LET found == {s \in DvRows : dvHash[s] = h}
       IN \/ /\ found = {}
             /\ DvSay("verify", FALSE, h) /\ UNCHANGED dvSeen
          \/ \E s \in found :
                \/ /\ dvStatus[s] # "active"
                   /\ DvSay("verify", FALSE, h) /\ UNCHANGED dvSeen
                \/ /\ dvStatus[s] = "active" /\ ~DvPromotes(s, want)
                   /\ DvSay("verify", TRUE, h) /\ UNCHANGED dvSeen
                \/ /\ dvStatus[s] = "active" /\ DvPromotes(s, want)
                   /\ dvSeen' = [hash |-> h, source |-> s, want |-> want]
                   /\ UNCHANGED dvAnswer
    /\ UNCHANGED <<dvHash, dvStatus, dvMapped, dvPaired, dvSaving, dvRevoked>>

\* The UPDATE, by device and old source: the row that is there by now moves to
\* the wanted source; where that source has a row already, the unique index
\* refuses and the request fails.
DvReconcile ==
    /\ dvSeen # DvNone
    /\ LET s == dvSeen.source
           w == dvSeen.want
       IN \/ /\ s \in DvRows /\ w \notin DvRows
             /\ dvHash' = [dvHash EXCEPT ![w] = dvHash[s], ![s] = 0]
             /\ dvStatus' = [dvStatus EXCEPT ![w] = dvStatus[s], ![s] = "none"]
             /\ DvSay("verify", TRUE, dvSeen.hash)
          \/ /\ s \in DvRows /\ w \in DvRows
             /\ DvSay("verify", FALSE, dvSeen.hash)
             /\ UNCHANGED <<dvHash, dvStatus>>
          \/ /\ s \notin DvRows
             /\ DvSay("verify", TRUE, dvSeen.hash)
             /\ UNCHANGED <<dvHash, dvStatus>>
    /\ dvSeen' = DvNone
    /\ UNCHANGED <<dvMapped, dvPaired, dvSaving, dvRevoked>>

\* Variant of DvRevoke: for the default source only.
DvRevokeDefault ==
    /\ dvStatus' = [dvStatus EXCEPT ![DvDefault] = IF @ = "none" THEN @ ELSE "revoked"]
    /\ DvSay("revoke", dvStatus[DvDefault] = "active", 0)
    /\ dvRevoked' = (DvRows # {})
    /\ UNCHANGED <<dvHash, dvMapped, dvPaired, dvSaving, dvSeen>>

\* revoke_device_token: every row of the device; the answer is "updated" when
\* the status of the UPDATE ends in " 1".
DvRevoke ==
    /\ dvStatus' = [s \in DvSources |-> IF s \in DvRows THEN "revoked" ELSE "none"]
    /\ DvSay("revoke", Cardinality(DvActive) = 1, 0)
    /\ dvRevoked' = (DvRows # {})
    /\ UNCHANGED <<dvHash, dvMapped, dvPaired, dvSaving, dvSeen>>

\* update_device_heartbeat: 404 unless the UPDATE touched one row.
DvHeartbeat ==
    /\ DvSay("heartbeat", Cardinality(DvActive) = 1, 0)
    /\ UNCHANGED <<dvHash, dvStatus, dvMapped, dvPaired, dvSaving, dvSeen, dvRevoked>>

DvNext ==
    \/ \E s \in DvSources : DvRegister(s)
    \/ DvMap
    \/ \E h \in 1..dvPaired, want \in DvSources \cup {"none"} : DvVerify(h, want)
    \/ DvReconcile \/ DvRevoke \/ DvHeartbeat

DvSpec == DvInit /\ [][DvNext]_dvVars

\* A revoked device is refused under every hash it was ever given, whichever
\* sources its rows moved to, until it is registered again.
RevokedDeviceIsRefused == dvRevoked => DvActive = {}

\* A row that left claude_code keeps its source for as long as it has its hash:
\* "Codex (or any future source) is locked once set — we never demote."
SourceIsLocked ==
    [][\A s, t \in DvSources :
          (s # DvDefault /\ dvHash[s] # 0 /\ dvHash'[t] = dvHash[s]) => t = s]_dvHash

=============================================================================
