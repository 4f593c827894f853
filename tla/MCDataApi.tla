----------------------------- MODULE MCDataApi -----------------------------
(* One API of one application, a GET and a POST that overlap. *)
EXTENDS DataApi
CONSTANTS my, pg, plain, masked, u
read == [first |-> "SELECT", rest |-> {}]
write == [first |-> "WITH", rest |-> {"DELETE"}]
Config(sql, src, mask, ttl, required, default) ==
    [sql |-> sql, src |-> src, mask |-> mask, ttl |-> ttl,
     required |-> required, default |-> default]
MCConfigs == {Config(read, my, plain, 1, FALSE, NoValue),
              Config(read, pg, masked, 0, TRUE, u),
              Config(write, my, plain, 1, TRUE, NoValue)}
MCAppLimit == [p \in Apps |-> 0]
MCLimits == {0, 1}
=============================================================================
