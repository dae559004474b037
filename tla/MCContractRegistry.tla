------------------------- MODULE MCContractRegistry -------------------------
(* The three manager roles and two deployments per role: a Registry read *)
(* can fail at each role, so SetManagers can stop before, between or after *)
(* the two spender roles.                                                  *)
EXTENDS ContractRegistry

CONSTANTS BondingManager, JobsManager, RoundsManager, v1, v2

MCRoleOrder == <<BondingManager, JobsManager, RoundsManager>>
MCSpenders == {BondingManager, JobsManager}
MCVersions == {v1, v2}
====
