---------------------------- MODULE MCRaidServer ----------------------------
(***************************************************************************)
(* One client of each kind; one of them sends a text that is no command.   *)
(***************************************************************************)
EXTENDS RaidServer

MCClients == {"nb", "bl", "on"}

MCKind == [c \in MCClients |->
             IF c = "nb" THEN "no_block" ELSE IF c = "bl" THEN "block" ELSE "once"]

MCMsg == [c \in MCClients |->
            IF c = "nb" THEN "DiskIO" ELSE IF c = "bl" THEN "Hello" ELSE "DisksInfo"]
=============================================================================
