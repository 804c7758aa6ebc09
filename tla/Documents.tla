------------------------------ MODULE Documents ------------------------------
(***************************************************************************)
(* What every workflow shares: the documents (agreements or plans) that    *)
(* ask for approval and hold budget, and the users of the tenant.          *)
(***************************************************************************)
CONSTANTS Documents,    \* entity ids of one tenant
          Users,        \* authenticated users with every role they need
          NoUser        \* no user: nobody decided, or the caller is immaterial

ASSUME UserAssumption == NoUser \notin Users

=============================================================================
