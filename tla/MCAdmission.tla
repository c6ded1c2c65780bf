---------------------------- MODULE MCAdmission ----------------------------
(* A small cluster, its users and what they want, for TLC. *)
EXTENDS AdmissionProperties

MCGpuClass == [small |-> [vram |-> 2, usable |-> 2, arch |-> "x86", gap |-> 1],
               big   |-> [vram |-> 4, usable |-> 3, arch |-> "x86", gap |-> 1]]
MCPool == [main  |-> [partition |-> "a", managed |-> TRUE, scaleOut |-> FALSE,
                      nodes |-> {}, classes |-> {}],
           extra |-> [partition |-> "b", managed |-> FALSE, scaleOut |-> TRUE,
                      nodes |-> {2}, classes |-> {"big"}]]
Requires == [minVram |-> 0, minTotal |-> 0, classes |-> {}, arch |-> "any"]
MCModel == [chat  |-> [gpus |-> 1, memory |-> 1, requires |-> Requires, variants |-> <<>>],
            embed |-> [gpus |-> 1, memory |-> 1, requires |-> Requires, variants |-> <<>>],
            large |-> [gpus |-> 2, memory |-> 2, requires |-> [Requires EXCEPT !.minTotal = 3],
                       variants |-> [big |-> 1]]]

MCDefaultQuota == [NoQuota EXCEPT !.gpus = 1, !.length = 2]
MCGroupQuota == [team |-> [NoQuota EXCEPT !.gpuHours = 4, !.ahead = 1],
                 lab  |-> [NoQuota EXCEPT !.gpus = 2]]
MCPoolQuota == [main |-> [NoQuota EXCEPT !.gpuHours = 2]]
Ann == [name |-> "ann", admin |-> FALSE, isUser |-> TRUE, groups |-> <<"team">>]
Bob == [name |-> "bob", admin |-> FALSE, isUser |-> TRUE, groups |-> <<"team", "lab">>]

Want == [model |-> "chat", gpus |-> 0, class |-> NoClass, pool |-> NoPool, node |-> NoNode,
         user |-> Ann, colocate |-> <<>>, asap |-> FALSE, begins |-> {}, length |-> 1,
         service |-> FALSE]
MCWanted ==
  [q1 |-> [Want EXCEPT !.begins = {1}, !.length = 2],
   q2 |-> [Want EXCEPT !.model = "large", !.user = Bob, !.node = 1, !.begins = {1, 2}],
   q3 |-> [Want EXCEPT !.asap = TRUE, !.colocate = <<"embed">>]]
MCRequests == DOMAIN MCWanted
MCReplicaOf == [q1 |-> "r2", q2 |-> "r1", q3 |-> "r1"]
MCOps == [q1 |-> {"update", "fail", "retry"}, q2 |-> {"extend"}, q3 |-> {"extend", "cancel"}]

Node1 == [gpus |-> [i \in 0 .. 1 |-> "small"], partition |-> "a", usable |-> TRUE]
Node2 == [gpus |-> [i \in 0 .. 0 |-> "big"], partition |-> "b", usable |-> TRUE]
Foreign == [nodes |-> {1}, indices |-> {1}, gpus |-> 1, begin |-> 0, end |-> Unknown]
MCClusters == {[nodes |-> <<Node1, Node2>>, foreign |-> {}],
               [nodes |-> <<Node1, Node2>>, foreign |-> {Foreign}]}

(* One process, nothing but bookings, and no job of anybody else.          *)
OneReplica == [q \in MCRequests |-> "r1"]
CreateOnly == [q \in MCRequests |-> {}]
QuietClusters == {[nodes |-> <<Node1, Node2>>, foreign |-> {}]}
=============================================================================
