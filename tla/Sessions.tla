------------------------------ MODULE Sessions ------------------------------
(***************************************************************************)
(* The two maps of class Users, and what their helpers do to them.         *)
(***************************************************************************)
EXTENDS Database

CONSTANTS
    Sockets,      \* socket handles
    EmptyName     \* the empty string, which operator[] of the map inserts

ASSUME SessionsAssumption ==
    /\ EmptyName \in Usernames
    /\ NoRow \notin Usernames \cup Sockets

Names == Usernames \ {EmptyName}

VARIABLES
    online_users,           \* map<int, string>
    online_users_opposite   \* map<string, int>

SessionsInit ==
    /\ online_users = [s \in Sockets |-> NoRow]
    /\ online_users_opposite = [u \in Names |-> NoRow]

isLogin(s) == online_users[s] # NoRow

\* isLogin(username).  No other key ever gets into the map.
isLoginByName(username) == username \in Names /\ online_users_opposite[username] # NoRow

\* getUsername(sock) is online_users[sock]: reading an absent key inserts it.
getUsernameInserts(s) ==
    IF isLogin(s) THEN online_users ELSE [online_users EXCEPT ![s] = EmptyName]

addSwapped(s, username) ==
    /\ online_users' = [online_users EXCEPT ![s] = s]
    /\ online_users_opposite' = [online_users_opposite EXCEPT ![username] = s]
add(s, username) ==
    /\ online_users' = [online_users EXCEPT ![s] = username]
    /\ online_users_opposite' = [online_users_opposite EXCEPT ![username] = s]

removeSocketOnly(s, username) ==
    /\ online_users' = [online_users EXCEPT ![s] = NoRow]
    /\ UNCHANGED online_users_opposite
remove(s, username) ==
    /\ online_users' = [online_users EXCEPT ![s] = NoRow]
    /\ online_users_opposite' =
          [u \in Names |-> IF u = username THEN NoRow ELSE online_users_opposite[u]]
=============================================================================
