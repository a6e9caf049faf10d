---------------------------- MODULE MCDeployment ----------------------------
(* The scripts of both networks; instances are numbered in order of creation. *)
EXTENDS Deployment

AllScripts == {"mainnet-deploy", "seed-insurance", "redeploy-core", "redeploy-oracle", "setup-usdc",
               "redeploy-engine-xlm", "rewire", "update-publisher", "nominate", "queue", "execute", "verify"}
Starts == [mainnet |-> 3, testnet |-> 2]
ResumableOps == {"ops", "upload", "deploy", "set", "swap", "deposit", "execute", "pause", "cancel", "guardian"}
AllOps == ResumableOps \cup {"init"}
AllAddresses == {[name |-> n, gen |-> g] : n \in {"oracle", "vault", "risk", "engine", "gateway", "insurance",
                                                 "liquidation", "governance"}, g \in 1..MaxGen}
=============================================================================
