CONSTANTS
    Bounds <- MCBounds
    Durations <- MCDurations
    Word = 16
    MaxRecords = 2
    NumExchanges = 2
SPECIFICATION MetricsSpec
INVARIANTS
    ScrapeIsBracketed
    InfLagsByAtMostOne
    HistogramCoversMessages
    HealthIsWitnessed
PROPERTY ScrapesNeverFall
