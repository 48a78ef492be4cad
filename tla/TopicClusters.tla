--------------------------- MODULE TopicClusters ---------------------------
(***************************************************************************)
(* The topics of the narrative miner: each phrase of a post goes to the    *)
(* cluster of its topic, which ClusterManager keeps in memory beside an    *)
(* LSH index, Matcher copies for the candidates that come in, and the      *)
(* table topic_clusters keeps for the next process.  Vectors are left out: *)
(* which cluster is near enough to a new phrase, and which topic a         *)
(* candidate matches, is open; a centroid is the number of times it moved. *)
(* Time to live and scores are open too.                                   *)
(***************************************************************************)
EXTENDS PhraseMatcher

CONSTANTS
    TopicPhrase,
    Cluster,        \* ids that randomUUID may give
    Mint,
    NoCluster,
    MaxSocial,      \* bound: posts
    MaxLostWrites,  \* bound: writes that throw
    MaxMinerStarts  \* bound: restarts

ASSUME TopicAssumption ==
    /\ NoCluster \notin Cluster
    /\ {MaxSocial, MaxLostWrites, MaxMinerStarts} \subseteq Nat

VARIABLES
    clusters,       \* ClusterManager.clusters: phrases and centroid by id
    phraseToCluster,
    signatures,     \* LshIndex: the centroid each id is filed under
    matcher,        \* Matcher: clusters, and phraseToTopics
    clusterRows,    \* table topic_clusters
    watched,         \* topics with a watch window in memory
    activeRows,     \* table topic_windows
    todo,           \* the phrases of the post processSocial is at
    seenMints,      \* candidateDeduper
    cooling,        \* Matcher.cooldown
    hung,           \* the search through a candidate's name does not end
    stale,          \* history: clusters whose last write threw
    social, lostWrites, minerStarts

topicVars == <<clusters, phraseToCluster, signatures, matcher, clusterRows, watched,
               activeRows, todo, seenMints, cooling, hung, stale,
               social, lostWrites, minerStarts>>

Empty == [phrases |-> {}, centroid |-> 0]
Existing(cs) == {c \in Cluster : cs[c] # Empty}
\* phraseToTopics of a matcher that was given these clusters.
TopicsOf(cs) == [p \in TopicPhrase |-> {c \in Cluster : p \in cs[c].phrases}]

TopicInit ==
    /\ clusters = [c \in Cluster |-> Empty] /\ clusterRows = clusters
    /\ phraseToCluster = [p \in TopicPhrase |-> NoCluster]
    /\ signatures = [c \in Cluster |-> 0]
    /\ matcher = [clusters |-> clusters, phraseToTopics |-> TopicsOf(clusters)]
    /\ watched = {} /\ activeRows = {} /\ todo = <<>>
    /\ seenMints = {} /\ cooling = {} /\ hung = FALSE /\ stale = {}
    /\ social = 0 /\ lostWrites = 0 /\ minerStarts = 0

\* n writes throw; each is caught and logged.
Lost(n) == lostWrites + n <= MaxLostWrites /\ lostWrites' = lostWrites + n

-----------------------------------------------------------------------------
(* processSocial: a post is worked off without a pause *)

Ready == ~hung /\ todo = <<>>

\* The deduplication of posts and extractPhrases.
ProcessSocial(ps) ==
    /\ Ready /\ social < MaxSocial
    /\ todo' = ps /\ social' = social + 1
    /\ UNCHANGED <<clusters, phraseToCluster, signatures, matcher, clusterRows, watched,
                   activeRows, seenMints, cooling, hung, stale, lostWrites, minerStarts>>

\* A phrase whose post is too old to count.
PassOver ==
    /\ ~hung /\ todo # <<>>
    /\ todo' = Tail(todo)
    /\ UNCHANGED <<clusters, phraseToCluster, signatures, matcher, clusterRows, watched,
                   activeRows, seenMints, cooling, hung, stale, social, lostWrites,
                   minerStarts>>

\* resolveCluster and createCluster: the cluster that has the phrase, one that is
\* near enough, or a new one.
Candidates(p) ==
    IF phraseToCluster[p] # NoCluster THEN {phraseToCluster[p]}
    ELSE Existing(clusters)
            \union {c \in Cluster : clusters[c] = Empty /\ clusterRows[c] = Empty}

\* Bug: the matcher is told of a cluster only when that has a new phrase.
SetCluster_OnAddition(c) ==
    IF clusters'[c].phrases = clusters[c].phrases THEN matcher' = matcher
    ELSE matcher' = [clusters |-> [matcher.clusters EXCEPT ![c] = clusters'[c]],
                     phraseToTopics |-> [p \in TopicPhrase |->
                         matcher.phraseToTopics[p]
                             \union IF p \in clusters'[c].phrases THEN {c} ELSE {}]]

\* setCluster: the phrases of the cluster are added to those it had.
SetCluster(c) ==
    matcher' = [clusters |-> [matcher.clusters EXCEPT ![c] = clusters'[c]],
                phraseToTopics |-> [p \in TopicPhrase |->
                    matcher.phraseToTopics[p]
                        \union IF p \in clusters'[c].phrases THEN {c} ELSE {}]]

\* observe: the phrase joins the cluster, whose centroid moves and whose place in
\* the index follows.
Join(p, c) ==
    /\ clusters' = [clusters EXCEPT ![c].phrases = @ \union {p}, ![c].centroid = @ + 1]
    /\ phraseToCluster' = [phraseToCluster EXCEPT ![p] = c]
    /\ signatures' = [signatures EXCEPT ![c] = clusters'[c].centroid]

\* upsertTopicCluster: the topic's row is the cluster as it is in memory.
UpsertTopicCluster(c) == clusterRows' = [clusterRows EXCEPT ![c] = clusters'[c]]

\* recordCluster, then recordWindow when the window opened or is refreshed: its row
\* refers to that of the cluster.
Persist(c, windowMoves) ==
    \E clusterLost, windowLost \in BOOLEAN :
        /\ windowLost => windowMoves
        /\ Lost((IF clusterLost THEN 1 ELSE 0) + (IF windowLost THEN 1 ELSE 0))
        /\ IF clusterLost THEN UNCHANGED clusterRows ELSE UpsertTopicCluster(c)
        /\ stale' = IF clusterLost THEN stale \union {c} ELSE stale \ {c}
        /\ activeRows' = IF windowMoves /\ ~windowLost /\ clusterRows'[c] # Empty
                         THEN activeRows \union {c} ELSE activeRows

ObservePhrase(c) ==
    /\ ~hung /\ todo # <<>> /\ c \in Candidates(Head(todo))
    /\ Join(Head(todo), c)
    /\ SetCluster(c)
    /\ \E windowMoves \in BOOLEAN :
        /\ watched' = IF windowMoves THEN watched \union {c} ELSE watched
        /\ Persist(c, windowMoves)
    /\ todo' = Tail(todo)
    /\ UNCHANGED <<seenMints, cooling, hung, social, minerStarts>>

-----------------------------------------------------------------------------
(* Windows end, candidates come in, the process restarts *)

CloseWindow(c) ==
    /\ Ready /\ c \in watched
    /\ watched' = watched \ {c}
    /\ \/ activeRows' = activeRows \ {c} /\ UNCHANGED lostWrites
       \/ Lost(1) /\ UNCHANGED activeRows
    /\ UNCHANGED <<clusters, phraseToCluster, signatures, matcher, clusterRows, todo,
                   seenMints, cooling, hung, stale, social, minerStarts>>

\* matchCandidate: nothing for a mint that cools down or without a window; else the
\* search, which may not end, and the best of the topics, if one is good enough.
Match(m, c) ==
    /\ m \notin cooling /\ c \in watched \intersect Existing(matcher.clusters)
    /\ cooling' = cooling \union {m}

\* processCandidate, for a mint that did not come within an hour.  The row of a match
\* and that of the candidate are written and read elsewhere.
ProcessCandidate(m) ==
    /\ Ready /\ m \notin seenMints
    /\ seenMints' = seenMints \union {m}
    /\ \/ UNCHANGED <<cooling, hung>>
       \/ \E c \in Cluster : Match(m, c) /\ UNCHANGED hung
       \/ /\ m \notin cooling /\ watched # {}
          /\ hung' = TRUE /\ UNCHANGED cooling
    /\ UNCHANGED <<clusters, phraseToCluster, signatures, matcher, clusterRows, watched,
                   activeRows, todo, stale, social, lostWrites, minerStarts>>

ForgetMint(m) ==
    /\ Ready
    /\ \/ seenMints' = seenMints \ {m} /\ UNCHANGED cooling
       \/ cooling' = cooling \ {m} /\ UNCHANGED seenMints
    /\ UNCHANGED <<clusters, phraseToCluster, signatures, matcher, clusterRows, watched,
                   activeRows, todo, hung, stale, social, lostWrites, minerStarts>>

\* bootstrap of the cluster manager, the windows and the matcher from the tables; the
\* windows that have ended are closed.
Bootstrap(ended) ==
    /\ clusters' = clusterRows
    /\ phraseToCluster' \in
          {f \in [TopicPhrase -> Cluster \union {NoCluster}] : \A p \in TopicPhrase :
              LET owners == TopicsOf(clusterRows)[p]
              IN IF owners = {} THEN f[p] = NoCluster ELSE f[p] \in owners}
    /\ signatures' = [c \in Cluster |-> clusterRows[c].centroid]
    /\ matcher' = [clusters |-> clusterRows, phraseToTopics |-> TopicsOf(clusterRows)]
    /\ watched' = activeRows \ ended
    /\ \/ activeRows' = activeRows \ ended /\ UNCHANGED lostWrites
       \/ Lost(1) /\ UNCHANGED activeRows

MinerRestart ==
    /\ minerStarts < MaxMinerStarts
    /\ minerStarts' = minerStarts + 1
    /\ \E ended \in SUBSET activeRows : Bootstrap(ended)
    /\ todo' = <<>> /\ seenMints' = {} /\ cooling' = {} /\ hung' = FALSE /\ stale' = {}
    /\ UNCHANGED <<clusterRows, social>>

TopicNext ==
    \/ \E p \in TopicPhrase : ProcessSocial(<<p>>) \/ \E q \in TopicPhrase \ {p} : ProcessSocial(<<p, q>>)
    \/ PassOver \/ MinerRestart
    \/ \E c \in Cluster : ObservePhrase(c) \/ CloseWindow(c)
    \/ \E m \in Mint : ProcessCandidate(m) \/ ForgetMint(m)

TopicSpec == TopicInit /\ [][TopicNext]_topicVars

-----------------------------------------------------------------------------
(* Properties *)

\* A candidate is matched against the clusters as they are: the matcher and the index
\* have the phrases and the centroid the cluster manager has, after every phrase.
ViewsAgree ==
    /\ matcher = [clusters |-> clusters, phraseToTopics |-> TopicsOf(clusters)]
    /\ \A c \in Cluster : signatures[c] = clusters[c].centroid

\* A phrase has one topic, also when a restart forgot where it was put and it
\* was put elsewhere, and the tables never give it two.
OneTopicPerPhrase ==
    /\ \A p \in TopicPhrase :
          TopicsOf(clusters)[p] = {phraseToCluster[p]} \ {NoCluster}
    /\ \A p \in TopicPhrase : Cardinality(TopicsOf(clusterRows)[p]) <= 1

\* A restart finds the topics of the process before it, but for writes that threw, and
\* a topic that is watched always has a cluster to match against.
TopicsSurvive ==
    /\ \A c \in Cluster \ stale : clusterRows[c] = clusters[c]
    /\ watched \subseteq Existing(clusters) /\ activeRows \subseteq Existing(clusterRows)

TopicsConsistent == ViewsAgree /\ OneTopicPerPhrase /\ TopicsSurvive

\* The phrases of the topics are found in a name, and the topics, their index, the
\* matcher's copy and the rows agree.
TopicsAreMatched == CountsOccurrences /\ TopicsConsistent
=============================================================================
