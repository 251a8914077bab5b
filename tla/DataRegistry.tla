---------------------------- MODULE DataRegistry ----------------------------
(***************************************************************************)
(* The registry of responses (src/sol/contracts/DataRegistry.sol): two     *)
(* shards that are written in turn, INTERVAL blocks each, and replaced by  *)
(* an empty one, when they are next used, once they are two intervals old. *)
(* Numbers of blocks are uint: a shard whose creation lies ahead is so old *)
(* that it is replaced.                                                    *)
(***************************************************************************)
EXTENDS Integers

CONSTANTS
    Interval,     \* INTERVAL
    DeployBlock   \* the block the registry was created at

TotalShards == 2
ShardIndex  == 0 .. TotalShards - 1

ASSUME RegistryAssumption == Interval \in Nat \ {0} /\ DeployBlock \in Nat

VARIABLES
    block,    \* block.number
    shards    \* for each index, its shard: [created, records]

registryVars == <<block, shards>>

GetDataShardIndex(time) == (time \div Interval) % TotalShards

NewShard(time) == [created |-> time, records |-> {}]

(* Mutation: one interval is thought to be enough. *)
OutlivedOnce(s) == s.created > block \/ block - s.created >= Interval

Outlived(s) == s.created > block \/ block - s.created >= 2 * Interval

ResetDataShard(s) == IF Outlived(s) THEN NewShard(block) ELSE s

(* fetchRecords of every shard: reading replaces them as well. *)
Refreshed == [i \in ShardIndex |-> ResetDataShard(shards[i])]
FetchRecords == UNION {Refreshed[i].records : i \in ShardIndex}

SetRecord(r) ==
    LET i == GetDataShardIndex(block)
        s == ResetDataShard(shards[i])
    IN  shards' = [shards EXCEPT ![i] = [s EXCEPT !.records = @ \cup {r}]]

RegistryInit ==
    /\ block = DeployBlock
    /\ shards = [i \in ShardIndex |->
                    NewShard(IF i = GetDataShardIndex(DeployBlock)
                             THEN DeployBlock ELSE DeployBlock + Interval)]

(* External: blocks are mined. *)
Mine == block' = block + 1 /\ UNCHANGED shards
=============================================================================
