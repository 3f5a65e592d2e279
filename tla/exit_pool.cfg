SPECIFICATION KafkaSpec
CONSTANTS
    FirstConsumer = "consumer"
    SecondConsumer = "consumerOne"
    MaxActiveTasks = 1
    MaxOffset = 2
INVARIANT TasksEndFirst
CHECK_DEADLOCK FALSE
