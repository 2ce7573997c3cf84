----------------------------- MODULE MCStartup -----------------------------
(* Startup with two agents and a CLI on one state directory. *)
EXTENDS Startup, FiniteSets

Scenario(ps, es, u) == [procs |-> ps, envs |-> es, upsets |-> u]

AllUpsets == {"crash", "iofail", "lostdb", "lostcerts", "edit"}

An(S) == CHOOSE p \in S : TRUE

\* What an operator may set a variable to: around each limit, and none.
TextValues ==
  [STATE_DIR |-> {"relative"}, POLICY_MODE |-> {"full", "admin"},
   DOCKER_HOST |-> {"tcp", "http"}, LOG_LEVEL |-> {"debug", "trace"},
   SELF_CONTAINER |-> Refs \cup {Junk}]

Ints(S) == {Malformed} \cup {Number(n) : n \in S}

\* 1048 days is the longest time that a Duration holds here.
NumValues ==
  [LISTEN_ADDR |-> Ints({0, 65535, 65536}),
   LOG_MAX_AGE_DAYS |-> Ints({0, 1, 365, 366, 1048, 1049}),
   LOG_MAX_TOTAL_MB |-> Ints({7, 8}),
   AUDIT_MAX_AGE_DAYS |-> Ints({0, 1, 2, 366, 1048, 1049, 2098}),
   AUDIT_MAX_ROWS |-> Ints({999, 1000}),
   RATE_STATUS_PER_MIN |-> Ints({0, 1}), RATE_PAIR_PER_MIN |-> Ints({0, 1}),
   RATE_GUARDED_PER_SEC |-> Ints({0, 1}),
   PAIR_TTL_MAX_MIN |-> Ints({4, 5, 60, 61})]

ListValues ==
  [PUBLIC_ADDR |-> {{}, {""}} \cup
                   {S \cup T : S \in (SUBSET Names) \ {{}}, T \in SUBSET (IPv6 \cup {Junk})},
   PROTECTED_CONTAINERS |-> {{""}, Refs, Refs \cup {"", Junk}}]

\* The environments one variable away from e.
Changed(e) ==
  {[e EXCEPT !.text[d[1]] = d[2]] : d \in UNION {{v} \X TextValues[v] : v \in Texts}}
    \cup {[e EXCEPT !.num[d[1]] = d[2]] : d \in UNION {{v} \X NumValues[v] : v \in Numbers}}
    \cup {[e EXCEPT !.list[d[1]] = d[2]] : d \in UNION {{v} \X ListValues[v] : v \in Lists}}

Good == Plain({An(Names)})

OneChanged == Changed(Good)
TwoChanged == UNION {Changed(e) : e \in OneChanged}

\* One variable, and up to two, other than plain; a change of address; and
\* one with mistakes on the way.
MCEnvs ==
  [one    |-> OneChanged,
   two    |-> TwoChanged,
   moved  |-> {Plain(S) : S \in (SUBSET Names) \ {{}}},
   edited |-> {Plain(S) : S \in {{}} \cup {{a} : a \in Names}}
                \cup {[Good EXCEPT !.num["LOG_MAX_AGE_DAYS"] = Number(n)] : n \in {365, 366}}]

\* An agent and a CLI with everything that can go wrong; two agents on one
\* directory; an agent that nothing but the operator disturbs; and every
\* configuration, most of them in the CLI, which comes up in fewer steps.
MCScenarios ==
  {Scenario({An(Agents)} \cup Clis, "moved", AllUpsets),
   Scenario(Agents, "moved", {"crash", "lostcerts"}),
   Scenario({An(Agents)}, "edited", {"edit"}),
   Scenario({An(Agents)}, "one", {}),
   Scenario(Clis, "two", {})}

\* The operator loses the database.
LostDb == {Scenario({An(Agents)}, "moved", {"lostdb"})}
=============================================================================
