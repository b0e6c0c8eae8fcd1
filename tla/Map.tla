-------------------------------- MODULE Map --------------------------------
(***************************************************************************)
(* What bot/hashmap.h promises: a finite map.  Every operation returns     *)
(* what was stored under the key.  An implementation may run out of memory *)
(* and forget a new pair, and it may stop being defined.                   *)
(***************************************************************************)
CONSTANTS Keys, Values, Nothing

VARIABLES content, answer, defined
mapVars == <<content, answer, defined>>

MapInit ==
    /\ content = [k \in Keys |-> Nothing]
    /\ answer = Nothing
    /\ defined = TRUE

MapPut(k, v) ==
    /\ defined
    /\ answer' = content[k]
    /\ \/ content' = [content EXCEPT ![k] = v]
       \/ content[k] = Nothing /\ UNCHANGED content
    /\ UNCHANGED defined

MapGet(k) == defined /\ answer' = content[k] /\ UNCHANGED <<content, defined>>

MapExists(k) ==
    /\ defined
    /\ answer' = (content[k] # Nothing)
    /\ UNCHANGED <<content, defined>>

MapRemove(k) ==
    /\ defined
    /\ answer' = content[k]
    /\ content' = [content EXCEPT ![k] = Nothing]
    /\ UNCHANGED defined

MapClear ==
    /\ defined
    /\ content' = [k \in Keys |-> Nothing]
    /\ answer' = Nothing
    /\ UNCHANGED defined

Undefined == defined /\ defined' = FALSE /\ UNCHANGED <<content, answer>>

MapNext ==
    \/ \E k \in Keys : \/ \E v \in Values : MapPut(k, v)
                       \/ MapGet(k) \/ MapExists(k) \/ MapRemove(k)
    \/ MapClear
    \/ Undefined

MapSpec == MapInit /\ [][MapNext]_mapVars
=============================================================================
