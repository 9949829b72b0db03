------------------------------ MODULE FieldsSent ------------------------------
(***************************************************************************)
(* What the request builders put into CreateJob and CreateDatabase: one    *)
(* definition per type of the Glue API, giving for each field of the       *)
(* specification the kind of its conversion.                               *)
(***************************************************************************)
EXTENDS FieldKinds

AggregateOperation == Enums({"AggFunc"}) @@ Collections({"Column"})
Aggregate ==
    Pointers({"Name"}) @@ Collections({"Groups", "Inputs"})
    @@ [Aggs |-> Each(AggregateOperation)]
AmazonRedshiftAdvancedOption == Pointers({"Key", "Value"})
Option == Pointers({"Description", "Label", "Value"})
AmazonRedshiftNodeData ==
    Pointers({"AccessType", "Action", "CatalogRedshiftSchema",
    "CatalogRedshiftTable", "CrawlerConnection", "MergeAction", "MergeClause",
    "MergeWhenMatched", "MergeWhenNotMatched", "PostAction", "PreAction",
    "SampleQuery", "SourceType", "StagingTable", "TablePrefix", "TempDir"})
    @@ BoolValues({"Upsert"})
    @@ [AdvancedOptions |-> Each(AmazonRedshiftAdvancedOption),
    CatalogDatabase |-> Struct(Option), CatalogTable |-> Struct(Option),
    Connection |-> Struct(Option), IAMRole |-> Struct(Option),
    Schema |-> Struct(Option), SelectedColumns |-> Each(Option),
    Table |-> Struct(Option), TableSchema |-> Each(Option)]
AmazonRedshiftSource ==
    Pointers({"Name"}) @@ [Data |-> Struct(AmazonRedshiftNodeData)]
AmazonRedshiftTarget ==
    Pointers({"Name"}) @@ Collections({"Inputs"})
    @@ [Data |-> Struct(AmazonRedshiftNodeData)]
Mapping ==
    Pointers({"Dropped", "FromType", "ToKey", "ToType"})
    @@ Collections({"FromPath"})
ApplyMapping ==
    Pointers({"Name"}) @@ Collections({"Inputs"})
    @@ [Mapping |-> Each(Mapping)]
GlueStudioSchemaColumn == Pointers({"Name", "Type"})
GlueSchema == [Columns |-> Each(GlueStudioSchemaColumn)]
AthenaConnectorSource ==
    Pointers({"ConnectionName", "ConnectionTable", "ConnectionType",
    "ConnectorName", "Name", "SchemaName"})
    @@ [OutputSchemas |-> Each(GlueSchema)]
CatalogDeltaSource ==
    Pointers({"Database", "Name", "Table"})
    @@ Collections({"AdditionalDeltaOptions"})
    @@ [OutputSchemas |-> Each(GlueSchema)]
CatalogHudiSource ==
    Pointers({"Database", "Name", "Table"})
    @@ Collections({"AdditionalHudiOptions"})
    @@ [OutputSchemas |-> Each(GlueSchema)]
StreamingDataPreviewOptions == Pointers({"PollingTime", "RecordPollingLimit"})
KafkaStreamingSourceOptions ==
    Pointers({"AddRecordTimestamp", "Assign", "BootstrapServers",
    "Classification", "ConnectionName", "Delimiter", "EmitConsumerLagMetrics",
    "EndingOffsets", "IncludeHeaders", "MaxOffsetsPerTrigger",
    "PollTimeoutMs", "RetryIntervalMs", "SecurityProtocol", "StartingOffsets",
    "StartingTimestamp", "SubscribePattern", "TopicName"})
    @@ Int32Pointers({"MinPartitions", "NumRetries"})
CatalogKafkaSource ==
    Pointers({"Database", "DetectSchema", "Name", "Table"})
    @@ Int32Pointers({"WindowSize"})
    @@ [DataPreviewOptions |-> Struct(StreamingDataPreviewOptions),
    StreamingOptions |-> Struct(KafkaStreamingSourceOptions)]
KinesisStreamingSourceOptions ==
    Pointers({"AddIdleTimeBetweenReads", "AddRecordTimestamp",
    "AvoidEmptyBatches", "Classification", "Delimiter",
    "DescribeShardInterval", "EmitConsumerLagMetrics", "EndpointURL",
    "IdleTimeBetweenReadsInMs", "MaxFetchRecordsPerShard", "MaxFetchTimeInMs",
    "MaxRecordPerRead", "MaxRetryIntervalMs", "RetryIntervalMs", "RoleARN",
    "RoleSessionName", "StartingTimestamp", "StreamARN", "StreamName"})
    @@ Enums({"StartingPosition"}) @@ Int32Pointers({"NumRetries"})
CatalogKinesisSource ==
    Pointers({"Database", "DetectSchema", "Name", "Table"})
    @@ Int32Pointers({"WindowSize"})
    @@ [DataPreviewOptions |-> Struct(StreamingDataPreviewOptions),
    StreamingOptions |-> Struct(KinesisStreamingSourceOptions)]
CatalogSource == Pointers({"Database", "Name", "Table"})
BasicCatalogTarget ==
    Pointers({"Database", "Name", "Table"}) @@ Collections({"Inputs",
    "PartitionKeys"})
ConnectorDataSource ==
    Pointers({"ConnectionType", "Name"}) @@ Collections({"Data"})
    @@ [OutputSchemas |-> Each(GlueSchema)]
ConnectorDataTarget ==
    Pointers({"ConnectionType", "Name"}) @@ Collections({"Data", "Inputs"})
CustomCode ==
    Pointers({"ClassName", "Code", "Name"}) @@ Collections({"Inputs"})
    @@ [OutputSchemas |-> Each(GlueSchema)]
DirectJDBCSource ==
    Pointers({"ConnectionName", "Database", "Name", "RedshiftTmpDir",
    "Table"}) @@ Enums({"ConnectionType"})
DirectKafkaSource ==
    Pointers({"DetectSchema", "Name"}) @@ Int32Pointers({"WindowSize"})
    @@ [DataPreviewOptions |-> Struct(StreamingDataPreviewOptions),
    StreamingOptions |-> Struct(KafkaStreamingSourceOptions)]
DirectKinesisSource ==
    Pointers({"DetectSchema", "Name"}) @@ Int32Pointers({"WindowSize"})
    @@ [DataPreviewOptions |-> Struct(StreamingDataPreviewOptions),
    StreamingOptions |-> Struct(KinesisStreamingSourceOptions)]
DropDuplicates == Pointers({"Name"}) @@ Collections({"Columns", "Inputs"})
DropFields == Pointers({"Name"}) @@ Collections({"Inputs", "Paths"})
NullCheckBoxList == Pointers({"IsEmpty", "IsNegOne", "IsNullString"})
Datatype == Pointers({"ID", "Label"})
NullValueField == Pointers({"Value"}) @@ [Datatype |-> Struct(Datatype)]
DropNullFields ==
    Pointers({"Name"}) @@ Collections({"Inputs"})
    @@ [NullCheckBoxList |-> Struct(NullCheckBoxList),
    NullTextList |-> Each(NullValueField)]
TransformConfigParameter ==
    Pointers({"IsOptional", "Name", "ValidationMessage", "ValidationRule"})
    @@ Enums({"ListType", "Type"}) @@ Collections({"Value"})
DynamicTransform ==
    Pointers({"FunctionName", "Name", "Path", "TransformName", "Version"})
    @@ Collections({"Inputs"}) @@ [OutputSchemas |-> Each(GlueSchema),
    Parameters |-> Each(TransformConfigParameter)]
DynamoDBCatalogSource == Pointers({"Database", "Name", "Table"})
DQResultsPublishingOptions ==
    Pointers({"CloudWatchMetricsEnabled", "EvaluationContext",
    "ResultsPublishingEnabled", "ResultsS3Prefix"})
DQStopJobOnFailureOptions == Enums({"StopJobOnFailureTiming"})
EvaluateDataQuality ==
    Pointers({"Name", "Ruleset"}) @@ Enums({"Output"})
    @@ Collections({"Inputs"})
    @@ [PublishingOptions |-> Struct(DQResultsPublishingOptions),
    StopJobOnFailureOptions |-> Struct(DQStopJobOnFailureOptions)]
EvaluateDataQualityMultiFrame ==
    Pointers({"Name", "Ruleset"}) @@ Collections({"AdditionalDataSources",
    "AdditionalOptions", "Inputs"})
    @@ [PublishingOptions |-> Struct(DQResultsPublishingOptions),
    StopJobOnFailureOptions |-> Struct(DQStopJobOnFailureOptions)]
FillMissingValues ==
    Pointers({"FilledPath", "ImputedPath", "Name"}) @@ Collections({"Inputs"})
FilterValue == Enums({"Type"}) @@ Collections({"Value"})
FilterExpression ==
    Pointers({"Negated"}) @@ Enums({"Operation"})
    @@ [Values |-> Each(FilterValue)]
Filter ==
    Pointers({"Name"}) @@ Enums({"LogicalOperator"})
    @@ Collections({"Inputs"}) @@ [Filters |-> Each(FilterExpression)]
S3SourceAdditionalOptions == Pointers({"BoundedFiles", "BoundedSize"})
GovernedCatalogSource ==
    Pointers({"Database", "Name", "PartitionPredicate", "Table"})
    @@ [AdditionalOptions |-> Struct(S3SourceAdditionalOptions)]
CatalogSchemaChangePolicy ==
    Pointers({"EnableUpdateCatalog"}) @@ Enums({"UpdateBehavior"})
GovernedCatalogTarget ==
    Pointers({"Database", "Name", "Table"}) @@ Collections({"Inputs",
    "PartitionKeys"})
    @@ [SchemaChangePolicy |-> Struct(CatalogSchemaChangePolicy)]
JDBCConnectorOptions ==
    Pointers({"FilterPredicate", "JobBookmarkKeysSortOrder", "LowerBound",
    "NumPartitions", "PartitionColumn", "UpperBound"})
    @@ Collections({"DataTypeMapping", "JobBookmarkKeys"})
JDBCConnectorSource ==
    Pointers({"ConnectionName", "ConnectionTable", "ConnectionType",
    "ConnectorName", "Name", "Query"})
    @@ [AdditionalOptions |-> Struct(JDBCConnectorOptions),
    OutputSchemas |-> Each(GlueSchema)]
JDBCConnectorTarget ==
    Pointers({"ConnectionName", "ConnectionTable", "ConnectionType",
    "ConnectorName", "Name"}) @@ Collections({"AdditionalOptions", "Inputs"})
    @@ [OutputSchemas |-> Each(GlueSchema)]
JoinColumn == Pointers({"From"}) @@ Collections({"Keys"})
Join ==
    Pointers({"Name"}) @@ Enums({"JoinType"}) @@ Collections({"Inputs"})
    @@ [Columns |-> Each(JoinColumn)]
Merge ==
    Pointers({"Name", "Source"}) @@ Collections({"Inputs", "PrimaryKeys"})
MicrosoftSQLServerCatalogSource == Pointers({"Database", "Name", "Table"})
MicrosoftSQLServerCatalogTarget ==
    Pointers({"Database", "Name", "Table"}) @@ Collections({"Inputs"})
MySQLCatalogSource == Pointers({"Database", "Name", "Table"})
MySQLCatalogTarget ==
    Pointers({"Database", "Name", "Table"}) @@ Collections({"Inputs"})
OracleSQLCatalogSource == Pointers({"Database", "Name", "Table"})
OracleSQLCatalogTarget ==
    Pointers({"Database", "Name", "Table"}) @@ Collections({"Inputs"})
PIIDetection ==
    Pointers({"MaskValue", "Name", "OutputColumnName", "SampleFraction",
    "ThresholdFraction"}) @@ Enums({"PiiType"})
    @@ Collections({"EntityTypesToDetect", "Inputs"})
PostgreSQLCatalogSource == Pointers({"Database", "Name", "Table"})
PostgreSQLCatalogTarget ==
    Pointers({"Database", "Name", "Table"}) @@ Collections({"Inputs"})
RecipeReference == Pointers({"RecipeARN", "RecipeVersion"})
RecipeAction == Pointers({"Operation"}) @@ Collections({"Parameters"})
ConditionExpression == Pointers({"Condition", "TargetColumn", "Value"})
RecipeStep ==
    [Action |-> Struct(RecipeAction),
    ConditionExpressions |-> Each(ConditionExpression)]
Recipe ==
    Pointers({"Name"}) @@ Collections({"Inputs"})
    @@ [RecipeReference |-> Struct(RecipeReference),
    RecipeSteps |-> Each(RecipeStep)]
RedshiftSource ==
    Pointers({"Database", "Name", "RedshiftTmpDir", "Table", "TmpDirIAMRole"})
UpsertRedshiftTargetOptions ==
    Pointers({"ConnectionName", "TableLocation"})
    @@ Collections({"UpsertKeys"})
RedshiftTarget ==
    Pointers({"Database", "Name", "RedshiftTmpDir", "Table", "TmpDirIAMRole"})
    @@ Collections({"Inputs"})
    @@ [UpsertRedshiftOptions |-> Struct(UpsertRedshiftTargetOptions)]
RelationalCatalogSource == Pointers({"Database", "Name", "Table"})
RenameField ==
    Pointers({"Name"}) @@ Collections({"Inputs", "SourcePath", "TargetPath"})
S3CatalogDeltaSource ==
    Pointers({"Database", "Name", "Table"})
    @@ Collections({"AdditionalDeltaOptions"})
    @@ [OutputSchemas |-> Each(GlueSchema)]
S3CatalogHudiSource ==
    Pointers({"Database", "Name", "Table"})
    @@ Collections({"AdditionalHudiOptions"})
    @@ [OutputSchemas |-> Each(GlueSchema)]
S3CatalogSource ==
    Pointers({"Database", "Name", "PartitionPredicate", "Table"})
    @@ [AdditionalOptions |-> Struct(S3SourceAdditionalOptions)]
S3CatalogTarget ==
    Pointers({"Database", "Name", "Table"}) @@ Collections({"Inputs",
    "PartitionKeys"})
    @@ [SchemaChangePolicy |-> Struct(CatalogSchemaChangePolicy)]
S3DirectSourceAdditionalOptions ==
    Pointers({"BoundedFiles", "BoundedSize", "EnableSamplePath",
    "SamplePath"})
S3CsvSource ==
    Pointers({"Escaper", "GroupFiles", "GroupSize", "Multiline", "Name",
    "Recurse", "SkipFirst", "WithHeader", "WriteHeader"})
    @@ Enums({"CompressionType", "QuoteChar", "Separator"})
    @@ Int32Pointers({"MaxBand", "MaxFilesInBand"})
    @@ BoolValues({"OptimizePerformance"}) @@ Collections({"Exclusions",
    "Paths"})
    @@ [AdditionalOptions |-> Struct(S3DirectSourceAdditionalOptions),
    OutputSchemas |-> Each(GlueSchema)]
S3DeltaCatalogTarget ==
    Pointers({"Database", "Name", "Table"})
    @@ Collections({"AdditionalOptions", "Inputs", "PartitionKeys"})
    @@ [SchemaChangePolicy |-> Struct(CatalogSchemaChangePolicy)]
DirectSchemaChangePolicy ==
    Pointers({"Database", "EnableUpdateCatalog", "Table"})
    @@ Enums({"UpdateBehavior"})
S3DeltaDirectTarget ==
    Pointers({"Name", "Path"}) @@ Enums({"Compression", "Format"})
    @@ Collections({"AdditionalOptions", "Inputs", "PartitionKeys"})
    @@ [SchemaChangePolicy |-> Struct(DirectSchemaChangePolicy)]
S3DeltaSource ==
    Pointers({"Name"}) @@ Collections({"AdditionalDeltaOptions", "Paths"})
    @@ [AdditionalOptions |-> Struct(S3DirectSourceAdditionalOptions),
    OutputSchemas |-> Each(GlueSchema)]
S3DirectTarget ==
    Pointers({"Compression", "Name", "Path"}) @@ Enums({"Format"})
    @@ Collections({"Inputs", "PartitionKeys"})
    @@ [SchemaChangePolicy |-> Struct(DirectSchemaChangePolicy)]
S3GlueParquetTarget ==
    Pointers({"Name", "Path"}) @@ Enums({"Compression"})
    @@ Collections({"Inputs", "PartitionKeys"})
    @@ [SchemaChangePolicy |-> Struct(DirectSchemaChangePolicy)]
S3HudiCatalogTarget ==
    Pointers({"Database", "Name", "Table"})
    @@ Collections({"AdditionalOptions", "Inputs", "PartitionKeys"})
    @@ [SchemaChangePolicy |-> Struct(CatalogSchemaChangePolicy)]
S3HudiDirectTarget ==
    Pointers({"Name", "Path"}) @@ Enums({"Compression", "Format"})
    @@ Collections({"AdditionalOptions", "Inputs", "PartitionKeys"})
    @@ [SchemaChangePolicy |-> Struct(DirectSchemaChangePolicy)]
S3HudiSource ==
    Pointers({"Name"}) @@ Collections({"AdditionalHudiOptions", "Paths"})
    @@ [AdditionalOptions |-> Struct(S3DirectSourceAdditionalOptions),
    OutputSchemas |-> Each(GlueSchema)]
S3JsonSource ==
    Pointers({"GroupFiles", "GroupSize", "JSONPath", "Multiline", "Name",
    "Recurse"}) @@ Enums({"CompressionType"}) @@ Int32Pointers({"MaxBand",
    "MaxFilesInBand"}) @@ Collections({"Exclusions", "Paths"})
    @@ [AdditionalOptions |-> Struct(S3DirectSourceAdditionalOptions),
    OutputSchemas |-> Each(GlueSchema)]
S3ParquetSource ==
    Pointers({"GroupFiles", "GroupSize", "Name", "Recurse"})
    @@ Enums({"CompressionType"}) @@ Int32Pointers({"MaxBand",
    "MaxFilesInBand"}) @@ Collections({"Exclusions", "Paths"})
    @@ [AdditionalOptions |-> Struct(S3DirectSourceAdditionalOptions),
    OutputSchemas |-> Each(GlueSchema)]
SelectFields == Pointers({"Name"}) @@ Collections({"Inputs", "Paths"})
SelectFromCollection ==
    Pointers({"Name"}) @@ Int32Values({"Index"}) @@ Collections({"Inputs"})
SnowflakeNodeData ==
    Pointers({"Action", "Database", "MergeAction", "MergeClause",
    "MergeWhenMatched", "MergeWhenNotMatched", "PostAction", "PreAction",
    "SampleQuery", "Schema", "SourceType", "StagingTable", "Table",
    "TempDir"}) @@ BoolValues({"AutoPushdown", "Upsert"})
    @@ Collections({"AdditionalOptions"}) @@ [Connection |-> Struct(Option),
    IAMRole |-> Struct(Option), SelectedColumns |-> Each(Option),
    TableSchema |-> Each(Option)]
SnowflakeSource ==
    Pointers({"Name"}) @@ [Data |-> Struct(SnowflakeNodeData),
    OutputSchemas |-> Each(GlueSchema)]
SnowflakeTarget ==
    Pointers({"Name"}) @@ Collections({"Inputs"})
    @@ [Data |-> Struct(SnowflakeNodeData)]
SparkConnectorSource ==
    Pointers({"ConnectionName", "ConnectionType", "ConnectorName", "Name"})
    @@ Collections({"AdditionalOptions"})
    @@ [OutputSchemas |-> Each(GlueSchema)]
SparkConnectorTarget ==
    Pointers({"ConnectionName", "ConnectionType", "ConnectorName", "Name"})
    @@ Collections({"AdditionalOptions", "Inputs"})
    @@ [OutputSchemas |-> Each(GlueSchema)]
SqlAlias == Pointers({"Alias", "From"})
SparkSQL ==
    Pointers({"Name", "SQLQuery"}) @@ Collections({"Inputs"})
    @@ [OutputSchemas |-> Each(GlueSchema), SQLAliases |-> Each(SqlAlias)]
Spigot ==
    Pointers({"Name", "Path", "Prob"}) @@ Int32Pointers({"Topk"})
    @@ Collections({"Inputs"})
SplitFields == Pointers({"Name"}) @@ Collections({"Inputs", "Paths"})
Union == Pointers({"Name"}) @@ Enums({"UnionType"}) @@ Collections({"Inputs"})
CodeGenConfigurationNode ==
    [Aggregate |-> Struct(Aggregate),
    AmazonRedshiftSource |-> Struct(AmazonRedshiftSource),
    AmazonRedshiftTarget |-> Struct(AmazonRedshiftTarget),
    ApplyMapping |-> Struct(ApplyMapping),
    AthenaConnectorSource |-> Struct(AthenaConnectorSource),
    CatalogDeltaSource |-> Struct(CatalogDeltaSource),
    CatalogHudiSource |-> Struct(CatalogHudiSource),
    CatalogKafkaSource |-> Struct(CatalogKafkaSource),
    CatalogKinesisSource |-> Struct(CatalogKinesisSource),
    CatalogSource |-> Struct(CatalogSource),
    CatalogTarget |-> Struct(BasicCatalogTarget),
    ConnectorDataSource |-> Struct(ConnectorDataSource),
    ConnectorDataTarget |-> Struct(ConnectorDataTarget),
    CustomCode |-> Struct(CustomCode),
    DirectJDBCSource |-> Struct(DirectJDBCSource),
    DirectKafkaSource |-> Struct(DirectKafkaSource),
    DirectKinesisSource |-> Struct(DirectKinesisSource),
    DropDuplicates |-> Struct(DropDuplicates),
    DropFields |-> Struct(DropFields),
    DropNullFields |-> Struct(DropNullFields),
    DynamicTransform |-> Struct(DynamicTransform),
    DynamoDBCatalogSource |-> Struct(DynamoDBCatalogSource),
    EvaluateDataQuality |-> Struct(EvaluateDataQuality),
    EvaluateDataQualityMultiFrame |-> Struct(EvaluateDataQualityMultiFrame),
    FillMissingValues |-> Struct(FillMissingValues),
    Filter |-> Struct(Filter),
    GovernedCatalogSource |-> Struct(GovernedCatalogSource),
    GovernedCatalogTarget |-> Struct(GovernedCatalogTarget),
    JDBCConnectorSource |-> Struct(JDBCConnectorSource),
    JDBCConnectorTarget |-> Struct(JDBCConnectorTarget),
    Join |-> Struct(Join), Merge |-> Struct(Merge),
    MicrosoftSQLServerCatalogSource |-> Struct(MicrosoftSQLServerCatalogSource),
    MicrosoftSQLServerCatalogTarget |-> Struct(MicrosoftSQLServerCatalogTarget),
    MySQLCatalogSource |-> Struct(MySQLCatalogSource),
    MySQLCatalogTarget |-> Struct(MySQLCatalogTarget),
    OracleSQLCatalogSource |-> Struct(OracleSQLCatalogSource),
    OracleSQLCatalogTarget |-> Struct(OracleSQLCatalogTarget),
    PIIDetection |-> Struct(PIIDetection),
    PostgreSQLCatalogSource |-> Struct(PostgreSQLCatalogSource),
    PostgreSQLCatalogTarget |-> Struct(PostgreSQLCatalogTarget),
    Recipe |-> Struct(Recipe), RedshiftSource |-> Struct(RedshiftSource),
    RedshiftTarget |-> Struct(RedshiftTarget),
    RelationalCatalogSource |-> Struct(RelationalCatalogSource),
    RenameField |-> Struct(RenameField),
    S3CatalogDeltaSource |-> Struct(S3CatalogDeltaSource),
    S3CatalogHudiSource |-> Struct(S3CatalogHudiSource),
    S3CatalogSource |-> Struct(S3CatalogSource),
    S3CatalogTarget |-> Struct(S3CatalogTarget),
    S3CsvSource |-> Struct(S3CsvSource),
    S3DeltaCatalogTarget |-> Struct(S3DeltaCatalogTarget),
    S3DeltaDirectTarget |-> Struct(S3DeltaDirectTarget),
    S3DeltaSource |-> Struct(S3DeltaSource),
    S3DirectTarget |-> Struct(S3DirectTarget),
    S3GlueParquetTarget |-> Struct(S3GlueParquetTarget),
    S3HudiCatalogTarget |-> Struct(S3HudiCatalogTarget),
    S3HudiDirectTarget |-> Struct(S3HudiDirectTarget),
    S3HudiSource |-> Struct(S3HudiSource),
    S3JSONSource |-> Struct(S3JsonSource),
    S3ParquetSource |-> Struct(S3ParquetSource),
    SelectFields |-> Struct(SelectFields),
    SelectFromCollection |-> Struct(SelectFromCollection),
    SnowflakeSource |-> Struct(SnowflakeSource),
    SnowflakeTarget |-> Struct(SnowflakeTarget),
    SparkConnectorSource |-> Struct(SparkConnectorSource),
    SparkConnectorTarget |-> Struct(SparkConnectorTarget),
    SparkSQL |-> Struct(SparkSQL), Spigot |-> Struct(Spigot),
    SplitFields |-> Struct(SplitFields), Union |-> Struct(Union)]
JobCommand == Pointers({"Name", "PythonVersion", "Runtime", "ScriptLocation"})
ConnectionsList == Collections({"Connections"})
ExecutionProperty == Int32Values({"MaxConcurrentRuns"})
NotificationProperty == Int32Pointers({"NotifyDelayAfter"})
SourceControlDetails ==
    Pointers({"AuthToken", "Branch", "Folder", "LastCommitID", "Owner",
    "Repository"}) @@ Enums({"AuthStrategy", "Provider"})
Job ==
    Pointers({"Description", "GlueVersion", "JobRunQueuingEnabled", "LogURI",
    "MaintenanceWindow", "MaxCapacity", "Name", "Role",
    "SecurityConfiguration"}) @@ Enums({"ExecutionClass", "JobMode",
    "WorkerType"}) @@ Int32Pointers({"NumberOfWorkers", "Timeout"})
    @@ Int32Values({"MaxRetries"}) @@ Collections({"DefaultArguments",
    "NonOverridableArguments", "Tags"})
    @@ [CodeGenConfigurationNodes |-> Each(CodeGenConfigurationNode),
    Command |-> Struct(JobCommand), Connections |-> Struct(ConnectionsList),
    ExecutionProperty |-> Struct(ExecutionProperty),
    NotificationProperty |-> Struct(NotificationProperty),
    SourceControlDetails |-> Struct(SourceControlDetails)]
DataLakePrincipal == Pointers({"DataLakePrincipalIdentifier"})
PrincipalPermissions ==
    Collections({"Permissions"}) @@ [Principal |-> Struct(DataLakePrincipal)]
FederatedDatabase == Pointers({"ConnectionName", "Identifier"})
DatabaseIdentifier == Pointers({"CatalogID", "DatabaseName", "Region"})
Database ==
    Pointers({"Description", "LocationURI", "Name"})
    @@ Collections({"Parameters"})
    @@ [TableDefaultPermissions |-> Each(PrincipalPermissions),
    FederatedDatabase |-> Struct(FederatedDatabase),
    TargetDatabase |-> Struct(DatabaseIdentifier)]
==============================================================================
