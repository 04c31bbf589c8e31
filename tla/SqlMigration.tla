------------------------------ MODULE SqlMigration ------------------------------
(***************************************************************************)
(* store/sql.NewStore: open the database and bring its schema up to date,  *)
(* one statement at a time and without a transaction around them.  Several *)
(* processes may open the same database at once, and each may fail or      *)
(* crash half-way and try again on what it finds.                          *)
(***************************************************************************)
EXTENDS Naturals, Sequences, FiniteSets

CONSTANTS
  Openers,         \* processes that call NewStore
  SchemaDialects,  \* the dialects considered
  MaxOpens         \* bound on the calls of NewStore

ASSUME MigrationAssumption ==
  SchemaDialects \subseteq {"sqlite", "postgres", "mysql"} /\ MaxOpens \in Nat

VARIABLES
  server,    \* the dialect of the database
  schema,    \* the tables, indexes, columns and rows that exist
  openAt,    \* the statement each opener is about to execute
  refused,   \* history: openers refused because of what others had created
  opens

schemaVars == <<server, schema, openAt, refused, opens>>

\* The statements in their order, each by what it creates.  The table sessions
\* is created without its config column, which is added to old and new alike.
Statements == <<"schema_migrations", "users", "agents", "idx_agents_user", "sessions",
  "idx_sessions_agent", "idx_sessions_user", "messages", "idx_messages_session",
  "idx_messages_session_seq_unique", "sessions.config", "version">>

\* What has to exist for it: tables referenced, indexed, altered or inserted into.
Needs(object) ==
  CASE object \in {"agents"}                                       -> {"users"}
    [] object \in {"sessions"}                                     -> {"users", "agents"}
    [] object \in {"messages", "sessions.config", "idx_sessions_agent",
                   "idx_sessions_user"}                            -> {"sessions"}
    [] object = "idx_agents_user"                                  -> {"agents"}
    [] object \in {"idx_messages_session", "idx_messages_session_seq_unique"} -> {"messages"}
    [] object = "version"                                          -> {"schema_migrations"}
    [] OTHER                                                       -> {}

\* Mutant: the error sqlite's ALTER TABLE gives for an existing column is returned.
MutantRepeatable(object) == ~(server = "sqlite" /\ object = "sessions.config")

\* A statement executed again changes nothing: IF NOT EXISTS, ON CONFLICT DO
\* NOTHING, and for sqlite's ALTER TABLE the error that is looked for by its text.
Repeatable(object) == object \in {Statements[i] : i \in 1..Len(Statements)}

SchemaInit ==
  /\ server \in SchemaDialects
  /\ schema = {}
  /\ openAt = [o \in Openers |-> "closed"]
  /\ refused = {}
  /\ opens = 0

\* sql.Open, Ping and the choice of the migration; another dialect is refused.
Open(o) ==
  /\ openAt[o] \in {"closed", "ready"}
  /\ opens < MaxOpens
  /\ opens' = opens + 1
  /\ openAt' = [openAt EXCEPT ![o] = IF server = "mysql" THEN "closed" ELSE Statements[1]]
  /\ UNCHANGED <<server, schema, refused>>

Position(o) == CHOOSE i \in 1..Len(Statements) : Statements[i] = openAt[o]
FollowingStatement(i) == IF i = Len(Statements) THEN "ready" ELSE Statements[i + 1]

Migrate(o) ==
  /\ openAt[o] \notin {"closed", "ready"}
  /\ LET object == openAt[o] IN
     IF Needs(object) \subseteq schema /\ (object \in schema => Repeatable(object))
     THEN /\ schema' = schema \cup {object}
          /\ openAt' = [openAt EXCEPT ![o] = FollowingStatement(Position(o))]
          /\ UNCHANGED refused
     ELSE /\ refused' = refused \cup {o}
          /\ openAt' = [openAt EXCEPT ![o] = "closed"]
          /\ UNCHANGED schema
  /\ UNCHANGED <<server, opens>>

\* The connection fails, two openers collide inside the database, or a crash:
\* the database is closed and keeps what was created.
MigrateFails(o) ==
  /\ openAt[o] # "closed"
  /\ openAt' = [openAt EXCEPT ![o] = "closed"]
  /\ UNCHANGED <<server, schema, refused, opens>>

SchemaNext == \E o \in Openers : Open(o) \/ Migrate(o) \/ MigrateFails(o)

SchemaSpec == SchemaInit /\ [][SchemaNext]_schemaVars

-------------------------------------------------------------------------------

\* A schema left half-made, by a crash or by an opener still at work, is completed
\* by the next: nobody is refused for what exists, and whoever is ready has it all.
MigrationResumes ==
  /\ refused = {}
  /\ \A o \in Openers : openAt[o] = "ready" => \A i \in 1..Len(Statements) : Statements[i] \in schema
===============================================================================
