----------------------------- MODULE MCStartup -----------------------------
(* Settings that differ in port, store and tasks, and settings that are no *)
(* good.                                                                   *)
EXTENDS Startup

MCEnvironments ==
    {[name \in {} |-> Unset],
     [port |-> 8081, metrics_addr |-> 9090, redis |-> FALSE, federation |-> FALSE,
      mediation_ttl |-> 0],
     [max_message_bytes |-> 1024 * 1024, queue_max_bytes |-> 1024 * 1024 - 1],
     [queue_max_messages |-> 0], [queue_ttl |-> Bad],
     [push_mode |-> "direct"], [push_mode |-> "direct", apns |-> 3],
     [port |-> 8082, metrics_addr |-> 9090, push_mode |-> "direct", apns |-> 4],
     [push_mode |-> "direct", fcm |-> Bad],
     [push_mode |-> "direct", apns |-> 4, apns_key |-> Bad],
     [client_ip_header |-> Bad]}
=============================================================================
