-------------------------- MODULE ServicesReducer --------------------------
(***************************************************************************)
(* The services in the frontend's store.                                   *)
(***************************************************************************)
EXTENDS Swarm

State == [fetching : BOOLEAN, error : BOOLEAN, components : Components]

initialState == [fetching |-> FALSE, error |-> FALSE,
                 components |-> [n \in {} |-> 0]]

FetchComponents == [type |-> "FETCH_COMPONENTS"]
FetchComponentsSuccess(components) ==
    [type |-> "FETCH_COMPONENTS_SUCCESS", payload |-> components]
FetchComponentsFailure == [type |-> "FETCH_COMPONENTS_FAILURE"]

All == {FetchComponents, FetchComponentsFailure}
       \cup {FetchComponentsSuccess(c) : c \in Components}

reducer(s, action) ==
    CASE action.type = "FETCH_COMPONENTS" ->
           [s EXCEPT !.fetching = TRUE, !.error = FALSE]
      [] action.type = "FETCH_COMPONENTS_SUCCESS" ->
           [fetching |-> FALSE, error |-> FALSE, components |-> action.payload]
      [] action.type = "FETCH_COMPONENTS_FAILURE" ->
           [s EXCEPT !.fetching = FALSE, !.error = TRUE]
      [] OTHER -> s

getComponents(s) == s.components
=============================================================================
