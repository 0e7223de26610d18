SPECIFICATION Spec
CONSTANT Applications <- MCApplications
INVARIANTS TypeOK CommitsArrive OneComposition ShowsCode SentOnce NothingTwice
