---------------------------- MODULE MCJobRuntime ----------------------------
(***************************************************************************)
(* Two jobs that compete for slots, one start of the server after a crash. *)
(* The job of the invite link writes a FULL report, the member's another.  *)
(***************************************************************************)
EXTENDS JobRuntime

CONSTANTS l1, l2, m1, invite

MCNames == Jobs
MCNameOf == [j \in Jobs |-> j]
MCLinkNames == Jobs \cap {l1, l2}
MCLinkOf == [n \in MCLinkNames |-> invite]
MCNameLimit == [n \in Jobs |-> 1]
MCMemberJobs == Jobs \cap {m1}
MCFullJobs == Jobs \cap {l1}
MCFaults == {{}, {"cost", "phase"}, {"obs", "link", "member", "intent"}}
=============================================================================
