--------------------------- MODULE MCSiteDeployment ---------------------------
(***************************************************************************)
(* Model values and constraints for the runs of SiteDeployment.            *)
(***************************************************************************)
EXTENDS SiteDeployment, TLC

CONSTANTS u1, u2, d1, d2

\* The administrator asks for something, and then there is one request of one
\* user and no restart; or does not, and then users and restarts are as they
\* come. Only steps without fairness lead out of this constraint.
AdministratorApart ==
    dispatchRequests > 0 =>
        /\ crashes = 0
        /\ \A r \in DeployRequests : request[r].user = u1 => r = 1
        /\ \A r \in DeployRequests : request[r].user # u2

\* A second failure is for one user alone, without a restart. (The step that
\* fails can as well succeed, and what else leads out has no fairness.)
SecondFaultApart ==
    faults > 1 =>
        /\ crashes = 0 /\ dispatchRequests = 0
        /\ \A r \in DeployRequests : request[r].user # u2
=============================================================================
