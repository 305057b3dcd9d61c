------------------------------ MODULE MCGateway ------------------------------
(* What TLC deploys: on PostgreSQL two releases with every setting of the  *)
(* bot, one of them also with STARTUP_FAIL_OPEN; on SQLite one release.    *)
EXTENDS Gateway

MCDeployments ==
    [postgres : {TRUE}, release : {1, 2}, delivery : {"polling", "webhook"}, failOpen : {FALSE}]
    \cup [postgres : {TRUE}, release : {2}, delivery : {"polling"}, failOpen : {TRUE}]
    \cup [postgres : {FALSE}, release : {1}, delivery : {"polling"}, failOpen : {FALSE}]
=============================================================================
